--------------------------- MODULE BoundedDequeProofs ---------------------------
(***************************************************************************)
(* The bounded deque keeps its shape, for every number of threads, every   *)
(* array size and every workload.                                          *)
(***************************************************************************)
EXTENDS BoundedDequeInv, TLAPS

USE NAssumption, ULONGAssumption, EltsAssumption, ForeignAssumption,
    WorkloadAssumption, BoundsAssumption

\* Inc and Dec, and so a step inwards or outwards, stay within a word.
LEMMA IndexType ==
  ASSUME NEW i \in Word
  PROVE  Inc(i) \in Word /\ Dec(i) \in Word
BY DEF Word, Inc, Dec

\* Two indices with the same inward neighbour are equal.
LEMMA InwardInjective ==
  ASSUME NEW e \in End, NEW i \in Word, NEW j \in Word,
         Inward(e, i) = Inward(e, j)
  PROVE  i = j
BY DEF Word, Inc, Dec, Inward, End, LEFT, RIGHT

\* Inside the array the inward neighbour is the next slot towards the middle.
LEMMA InwardInArray ==
  ASSUME NEW e \in End, NEW i \in Slots, Inward(e, i) \in Slots
  PROVE  Inward(e, i) = IF e = LEFT THEN i + 1 ELSE i - 1
BY DEF Slots, Inc, Dec, Inward, End, LEFT, RIGHT

\* What a load returns is a node.
LEMMA LoadsType ==
  ASSUME NEW j, TypeOK, NEW n \in Loads(j)
  PROVE  n \in Node
BY DEF TypeOK, Loads

\* An exchange of well-typed nodes keeps the types of the shared state.
LEMMA CasType ==
  ASSUME TypeOK, NEW j, NEW old, NEW new \in Node, NEW hit, Cas(j, old, new, hit)
  PROVE  nodes' \in [Slots -> Node] /\ hint' \in [End -> Word] /\ size' \in Word
BY DEF TypeOK, Cas

\* A node written over a node of the array is a node.
LEMMA SetNodeType ==
  ASSUME NEW v \in Value, NEW n \in Node
  PROVE  SetNode(v, n) \in Node /\ CopyNode(n) \in Node
BY DEF SetNode, CopyNode, Node

LEMMA OwnType ==
  ASSUME NEW e \in End
  PROVE  Own(e) \in Value
BY DEF Own, Value

LEMMA InitTypeOK == Init => TypeOK
BY DEF Init, BlankNodes, MiddleHints, TypeOK, Slots, Node, Value, Word, End, Op, PC, Blank, LEFT, RIGHT,
       PUSH, POP, NONE, OK, EMPTY, FULL, LNULL, RNULL, NULL

\* The state that belongs to the threads' positions is well typed.
LocalsOK ==
  /\ pc \in [Threads -> PC]
  /\ k \in [Threads -> Word]
  /\ inner \in [Threads -> Node]
  /\ outer \in [Threads -> Node]
  /\ ret \in [Threads -> [stat : {NONE, OK, EMPTY, FULL}, val : Value \cup {NULL}]]

LEMMA BlankType == Blank \in Node
BY DEF Blank, Node, Value

\* Moving a thread by any of the helpers keeps those types.
LEMMA MoveType ==
  ASSUME TypeOK, NEW t \in Threads
  PROVE  /\ \A label \in PC :
              /\ Goto(t, label) => pc' \in [Threads -> PC]
              /\ Goto(t, label) /\ UNCHANGED <<locals, ret>> => LocalsOK'
         /\ Retry(t) => LocalsOK'
         /\ \A stat \in {NONE, OK, EMPTY, FULL}, val \in Value \cup {NULL} :
              Return(t, stat, val) => LocalsOK'
         /\ \A i \in Word : Found(t, i) => pc' \in [Threads -> PC] /\ k' \in [Threads -> Word]
<1> USE DEF TypeOK, LocalsOK, locals, Goto
<1>1. ASSUME NEW label \in PC, Goto(t, label)
      PROVE  pc' \in [Threads -> PC]
  BY <1>1
<1>2. Forget(t) => /\ k' \in [Threads -> Word]
                   /\ inner' \in [Threads -> Node]
                   /\ outer' \in [Threads -> Node]
  BY BlankType DEF Forget, Word
<1>3. "idle" \in PC /\ "oracleHint" \in PC /\ "loadInner" \in PC
  BY DEF PC
<1>4. Retry(t) => LocalsOK'
  BY <1>2, <1>3 DEF Retry
<1>5. ASSUME NEW stat \in {NONE, OK, EMPTY, FULL}, NEW val \in Value \cup {NULL},
             Return(t, stat, val)
      PROVE  LocalsOK'
  <2>1. ret' \in [Threads -> [stat : {NONE, OK, EMPTY, FULL}, val : Value \cup {NULL}]]
    BY <1>5 DEF Return
  <2>2. QED
    BY <1>2, <1>3, <1>5, <2>1 DEF Return
<1>6. ASSUME NEW i \in Word, Found(t, i)
      PROVE  pc' \in [Threads -> PC] /\ k' \in [Threads -> Word]
  BY <1>3, <1>6 DEF Found
<1>7. QED
  BY <1>1, <1>4, <1>5, <1>6

\* Every step of a thread keeps the types.
LEMMA TypeStep ==
  ASSUME TypeOK, InvElt, NEW t \in Threads, Call(t) \/ Step(t)
  PROVE  TypeOK'
<1> USE DEF shared, request, locals
<1>1. Inward(end[t], k[t]) \in Word
  BY IndexType DEF Inward, TypeOK
<1>2. end[t] \in End /\ op[t] \in Op /\ k[t] \in Word /\ inner[t] \in Node /\ outer[t] \in Node
  BY DEF TypeOK
<1>3. CASE Call(t)
  BY <1>3 DEF Call, Op, End, NONE, TypeOK, Goto, PC
<1>4. CASE Oracle(t)
  <2> SUFFICES LocalsOK'
    BY <1>4 DEF Oracle, TypeOK, LocalsOK
  <2> USE DEF TypeOK, LocalsOK
  <2>1. CASE OracleHint(t)
    BY <1>4, <2>1 DEF Oracle, OracleHint, Goto, PC
  <2>2. CASE OracleOuter(t) \/ ScanOuter(t)
    BY <1>4, <2>2, LoadsType DEF Oracle, OracleOuter, ScanOuter, Goto, PC
  <2>3. CASE OracleInner(t)
    <3>1. PICK n \in Loads(Inward(end[t], k[t])) :
            /\ inner' = [inner EXCEPT ![t] = n]
            /\ \/ Found(t, k[t])
               \/ (Goto(t, "scanOuter") \/ Goto(t, "rehint")) /\ UNCHANGED k
      BY <2>3 DEF OracleInner
    <3>2. n \in Node
      BY LoadsType
    <3>3. pc' \in [Threads -> PC] /\ k' \in [Threads -> Word]
      BY <1>2, <3>1, MoveType DEF PC
    <3>4. QED
      BY <1>4, <2>3, <3>1, <3>2, <3>3 DEF Oracle, OracleInner
  <2>4. CASE ScanInner(t)
    <3>1. PICK n \in Loads(Inward(end[t], k[t])) :
            /\ inner' = [inner EXCEPT ![t] = n]
            /\ \/ Found(t, k[t])
               \/ /\ Goto(t, "scanOuter") \/ Goto(t, "rehint")
                  /\ k' = [k EXCEPT ![t] = Inward(end[t], k[t])]
      BY <2>4 DEF ScanInner
    <3>2. n \in Node
      BY LoadsType
    <3>3. pc' \in [Threads -> PC] /\ k' \in [Threads -> Word]
      BY <1>1, <1>2, <3>1, MoveType DEF PC
    <3>4. QED
      BY <1>4, <2>4, <3>1, <3>2, <3>3 DEF Oracle, ScanInner
  <2>5. CASE Rehint(t)
    BY <1>4, <2>5, MoveType DEF Oracle, Rehint
  <2>6. QED
    BY <1>4, <2>1, <2>2, <2>3, <2>4, <2>5 DEF Oracle
<1>5. CASE Body(t)
  <2> SUFFICES /\ LocalsOK'
               /\ nodes' \in [Slots -> Node]
               /\ hint' \in [End -> Word]
               /\ size' \in Word
    BY <1>5 DEF Body, TypeOK, LocalsOK
  <2>1. CASE LoadInner(t)
    BY <2>1, LoadsType DEF LoadInner, TypeOK, LocalsOK, Goto, PC
  <2>2. CASE LoadOuter(t)
    <3>1. PICK n \in Loads(k[t]) :
            \/ Retry(t)
            \/ Return(t, FULL, NULL)
            \/ /\ outer' = [outer EXCEPT ![t] = n]
               /\ Goto(t, "recheck") \/ Goto(t, "cas1")
               /\ UNCHANGED <<k, inner, ret>>
      BY <2>2 DEF LoadOuter
    <3>2. n \in Node
      BY LoadsType
    <3>3. LocalsOK'
      BY <3>1, <3>2, MoveType DEF PC, TypeOK, LocalsOK
    <3>4. QED
      BY <2>2, <3>3 DEF LoadOuter, TypeOK
  <2>3. CASE Recheck(t)
    BY <2>3, MoveType DEF Recheck, PC, TypeOK
  <2>4. CASE Cas1(t)
    <3>1. LocalsOK'
      BY <2>4, MoveType DEF Cas1, PC
    <3>2. Own(end[t]) \in Value
      BY <1>2, OwnType
    <3>3. QED
      BY <1>2, <2>4, <3>1, <3>2, CasType, SetNodeType DEF Cas1
  <2>5. CASE Cas2(t)
    <3>1. LocalsOK'
      BY <2>5, MoveType DEF Cas2, PC
    <3>2. Own(end[t]) \in Value /\ (op[t] = PUSH => elt[t] \in Value)
      BY <1>2, <2>5, OwnType DEF Cas2, InvElt, Value
    <3>3. QED
      BY <1>2, <2>5, <3>1, <3>2, CasType, SetNodeType DEF Cas2
  <2>6. CASE MoveHint(t)
    BY <2>6, IndexType, MoveType DEF MoveHint, Inward, Outward, TypeOK, PC
  <2>7. CASE Resize(t)
    <3>1. (IF op[t] = PUSH THEN NULL ELSE inner[t].value) \in Value \cup {NULL}
      BY <1>2 DEF Node
    <3>2. LocalsOK'
      BY <2>7, <3>1, MoveType DEF Resize
    <3>3. QED
      BY <2>7, <3>2, IndexType DEF Resize, Resized, TypeOK
  <2>8. QED
    BY <1>5, <2>1, <2>2, <2>3, <2>4, <2>5, <2>6, <2>7 DEF Body
<1>6. QED
  BY <1>3, <1>4, <1>5
  DEF Step, LeftOracle, RightOracle, LeftPush, LeftPop, RightPush, RightPop
-----------------------------------------------------------------------------
(* The invariant, step by step *)

\* A step of t leaves the other threads where they are.
Frame(t) ==
  \A u \in Threads \ {t} :
    /\ pc'[u] = pc[u] /\ end'[u] = end[u] /\ op'[u] = op[u] /\ elt'[u] = elt[u]
    /\ k'[u] = k[u] /\ inner'[u] = inner[u] /\ outer'[u] = outer[u]

LEMMA OracleFrame ==
  ASSUME TypeOK, NEW t \in Threads, Oracle(t)
  PROVE  Frame(t)
BY DEF TypeOK, Frame, Oracle, OracleHint, OracleOuter, OracleInner, ScanOuter,
       ScanInner, Rehint, Found, Goto, request

LEMMA BodyFrame ==
  ASSUME TypeOK, NEW t \in Threads, Body(t)
  PROVE  Frame(t)
<1> USE DEF TypeOK, Frame, Goto, request, locals
<1>1. Retry(t) => \A u \in Threads \ {t} :
        pc'[u] = pc[u] /\ k'[u] = k[u] /\ inner'[u] = inner[u] /\ outer'[u] = outer[u]
  BY DEF Retry, Forget
<1>2. \A stat, val : Return(t, stat, val) => \A u \in Threads \ {t} :
        pc'[u] = pc[u] /\ k'[u] = k[u] /\ inner'[u] = inner[u] /\ outer'[u] = outer[u]
  BY DEF Return, Forget
<1>3. CASE LoadInner(t) \/ MoveHint(t)
  BY <1>3 DEF Body, LoadInner, MoveHint
<1>4. CASE LoadOuter(t)
  BY <1>1, <1>2, <1>4 DEF Body, LoadOuter
<1>5. CASE Recheck(t)
  BY <1>1, <1>2, <1>5 DEF Body, Recheck
<1>6. CASE Cas1(t) \/ Cas2(t)
  BY <1>1, <1>6 DEF Body, Cas1, Cas2
<1>7. CASE Resize(t)
  BY <1>2, <1>7 DEF Body, Resize
<1>8. QED
  BY <1>3, <1>4, <1>5, <1>6, <1>7 DEF Body

\* The nodes are untouched and t holds no node that it still relies on.
LEMMA QuietStep ==
  ASSUME Inv, TypeOK', NEW t \in Threads, Frame(t), nodes' = nodes,
         ~Aimed(t)', pc'[t] # "loadOuter",
         pc'[t] # "idle" /\ op'[t] = PUSH => elt'[t] \in Elts
  PROVE  Inv'
<1> USE DEF Inv, Frame, Near, Aimed, Firing
<1>1. Shape'
  BY DEF Shape
<1>2. InvElt'
  BY DEF InvElt
<1>3. InvLoads'
  BY DEF InvLoads
<1>4. InvGuard'
  BY DEF InvGuard
<1>5. InvStale'
  BY DEF InvStale
<1>6. InvRivals'
  BY DEF InvRivals
<1>7. InvAtHead'
  BY DEF InvAtHead
<1>8. QED
  BY <1>1, <1>2, <1>3, <1>4, <1>5, <1>6, <1>7

\* The nodes are untouched and t moves on towards its exchanges.
LEMMA AimStep ==
  ASSUME Inv, TypeOK', NEW t \in Threads, Frame(t), nodes' = nodes,
         end' = end, op' = op, elt' = elt, k' = k, pc[t] # "idle",
         \/ pc'[t] \in {"loadOuter", "recheck", "cas1"}
         \/ pc'[t] = "cas2" /\ k[t] \notin Slots,
         (Near(t) \in Slots => Older(inner'[t], nodes[Near(t)])),
         pc'[t] = "loadOuter" =>
           (Near(t) \in Slots /\ k[t] \notin Slots => inner'[t].value = Own(end[t])),
         pc'[t] # "loadOuter" =>
           /\ k[t] \in Slots => Older(outer'[t], nodes[k[t]])
           /\ IsHead(end[t], inner'[t], outer'[t])
           /\ op[t] = PUSH => ~AtBound(end[t], k[t])
           /\ Near(t) \in Slots <=> k[t] \in Slots,
         pc'[t] = "cas1" /\ op[t] = POP /\ Near(t) \in Slots
           /\ inner'[t].value = Other(end[t]) => inner'[t].count < nodes[Near(t)].count
  PROVE  Inv'
<1> USE DEF Inv, Frame, Near, Aimed, Firing
<1>1. Shape'
  BY DEF Shape
<1>2. InvElt'
  BY DEF InvElt
<1>3. InvLoads'
  BY DEF InvLoads
<1>4. InvGuard'
  BY DEF InvGuard
<1>5. InvStale'
  BY DEF InvStale
<1>6. InvRivals'
  BY DEF InvRivals
<1>7. InvAtHead'
  BY DEF InvAtHead
<1>8. QED
  BY <1>1, <1>2, <1>3, <1>4, <1>5, <1>6, <1>7

\* Writing a node with the next version over slot j: whatever a thread holds
\* of any slot stays the present content or an older version, and nothing
\* that a thread holds of slot j is its content any longer.
LEMMA Grown ==
  ASSUME TypeOK, NEW j \in Slots, NEW new \in Node,
         new.count = nodes[j].count + 1, nodes' = [nodes EXCEPT ![j] = new],
         NEW i \in Slots, NEW m \in Node
  PROVE  /\ Older(m, nodes[i]) => Older(m, nodes'[i])
         /\ m.count < nodes[i].count => m.count < nodes'[i].count
<1>1. nodes[i] \in Node /\ nodes[j] \in Node
  BY DEF TypeOK
<1>2. nodes'[i] = IF i = j THEN new ELSE nodes[i]
  BY DEF TypeOK
<1>3. m.count \in Nat /\ nodes[i].count \in Nat /\ nodes[j].count \in Nat
  BY <1>1 DEF Node
<1>4. QED
  BY <1>2, <1>3 DEF Older

\* A thread whose loaded node is still the content of its slot holds another
\* slot than the one that was written.
LEMMA Overtaken ==
  ASSUME TypeOK, NEW j \in Slots, NEW new \in Node,
         new.count = nodes[j].count + 1, nodes' = [nodes EXCEPT ![j] = new]
  PROVE  \A i \in Slots, m \in Node :
           Older(m, nodes[i]) /\ nodes'[i] = m => i # j /\ nodes[i] = m
<1> SUFFICES ASSUME NEW i \in Slots, NEW m \in Node,
                    Older(m, nodes[i]), nodes'[i] = m
             PROVE  i # j /\ nodes[i] = m
  OBVIOUS
<1>1. nodes'[i] = IF i = j THEN new ELSE nodes[i]
  BY DEF TypeOK
<1>2. m.count \in Nat /\ nodes[j].count \in Nat
  BY DEF TypeOK, Node
<1>3. QED
  BY <1>1, <1>2 DEF Older

\* The parts of the invariant that only need every version to grow.
LEMMA GrowStep ==
  ASSUME Inv, TypeOK', NEW t \in Threads, Frame(t), NEW j \in Slots, NEW new \in Node,
         new.count = nodes[j].count + 1, nodes' = [nodes EXCEPT ![j] = new],
         end' = end, op' = op, elt' = elt, pc[t] \in {"cas1", "cas2"},
         pc'[t] \in {"cas2", "moveHint"}, UNCHANGED locals,
         pc'[t] = "cas2" => pc[t] = "cas1"
  PROVE  InvElt' /\ InvLoads' /\ InvGuard' /\ InvStale'
<1> USE DEF Inv, Frame, Near, Aimed, Firing, locals
<1>1. \A u \in Threads : inner[u] \in Node /\ outer[u] \in Node
  BY DEF TypeOK
<1>2. \A i \in Slots, m \in Node :
        /\ Older(m, nodes[i]) => Older(m, nodes'[i])
        /\ m.count < nodes[i].count => m.count < nodes'[i].count
  BY Grown
<1>3. InvElt'
  BY DEF InvElt
<1>4. InvLoads'
  BY <1>1, <1>2 DEF InvLoads
<1>5. InvGuard'
  BY DEF InvGuard
<1>6. InvStale'
  BY <1>1, <1>2 DEF InvStale
<1>7. QED
  BY <1>3, <1>4, <1>5, <1>6

\* The first exchange hits a node of the array.
LEMMA Cas1Hit ==
  ASSUME Inv, TypeOK', NEW t \in Threads, Frame(t), pc[t] = "cas1",
         pc'[t] = "cas2", UNCHANGED <<request, locals>>,
         Near(t) \in Slots, k[t] \in Slots,
         IF op[t] = PUSH
         THEN /\ nodes[Near(t)] = inner[t]
              /\ nodes' = [nodes EXCEPT ![Near(t)] = CopyNode(inner[t])]
         ELSE /\ nodes[k[t]] = outer[t]
              /\ nodes' = [nodes EXCEPT ![k[t]] = SetNode(Own(end[t]), outer[t])]
  PROVE  Inv'
<1> USE DEF request, locals
<1>1. inner[t] \in Node /\ outer[t] \in Node /\ Own(end[t]) \in Value /\ TypeOK
  BY OwnType DEF Inv, TypeOK
<1>2. IsHead(end[t], inner[t], outer[t])
  BY DEF Inv, InvGuard, Aimed
<1>3. PICK j \in Slots, new \in Node :
        /\ j = IF op[t] = PUSH THEN Near(t) ELSE k[t]
        /\ nodes' = [nodes EXCEPT ![j] = new]
        /\ new.value = nodes[j].value
        /\ new.count = nodes[j].count + 1
  <2>1. \A v \in Value, n \in Node : /\ SetNode(v, n) \in Node
                                     /\ SetNode(v, n).value = v
                                     /\ SetNode(v, n).count = n.count + 1
    BY DEF SetNode, Node
  <2>2. CASE op[t] = PUSH
    <3>1. inner[t].value \in Value
      BY <1>1 DEF Node
    <3>2. /\ CopyNode(inner[t]) \in Node
          /\ CopyNode(inner[t]).value = nodes[Near(t)].value
          /\ CopyNode(inner[t]).count = nodes[Near(t)].count + 1
          /\ nodes' = [nodes EXCEPT ![Near(t)] = CopyNode(inner[t])]
      BY <1>1, <2>1, <2>2, <3>1 DEF CopyNode
    <3>3. QED
      BY <2>2, <3>2
  <2>3. CASE op[t] # PUSH
    BY <1>1, <1>2, <2>1, <2>3 DEF IsHead
  <2>4. QED
    BY <2>2, <2>3
<1>4. \A i \in Slots : nodes'[i].value = nodes[i].value
  BY <1>1, <1>3 DEF TypeOK
<1>5. Shape'
  BY <1>4 DEF Inv, Shape, Slots
<1>6. InvElt' /\ InvLoads' /\ InvGuard' /\ InvStale'
  BY <1>3, GrowStep
<1>7. \A u \in Threads : inner[u] \in Node /\ outer[u] \in Node
  BY <1>1 DEF TypeOK
<1>8. \A i \in Slots, m \in Node :
        Older(m, nodes[i]) /\ nodes'[i] = m => i # j /\ nodes[i] = m
  BY <1>1, <1>3, Overtaken
<1>9. \A u \in Threads : pc'[u] = "cas2" =>
        /\ Near(u)' = Near(u)
        /\ Near(u) \in Slots <=> k[u] \in Slots
        /\ Near(u) \in Slots => Older(inner[u], nodes[Near(u)])
        /\ k[u] \in Slots => Older(outer[u], nodes[k[u]])
  BY DEF Inv, InvLoads, InvGuard, Aimed, Frame, Near
<1>10. InvRivals'
  <2> SUFFICES ASSUME NEW p \in Threads, NEW q \in Threads,
                      pc'[p] = "cas2", op[p] = PUSH, pc'[q] = "cas2", op[q] = POP,
                      end[p] = end[q], k[p] = k[q], k[p] \in Slots,
                      nodes'[k[p]] = outer[p], nodes'[Near(q)] = inner[q]
               PROVE  FALSE
    BY <1>9 DEF InvRivals
  <2>1. k[p] # j /\ nodes[k[p]] = outer[p] /\ Near(q) # j /\ nodes[Near(q)] = inner[q]
    BY <1>7, <1>8, <1>9
  <2>2. Near(p) = Near(q)
    BY DEF Near
  <2>3. p # t /\ q # t
    BY <1>3, <2>1, <2>2 DEF PUSH, POP
  <2>4. QED
    BY <2>1, <2>3 DEF Inv, InvRivals, Frame
<1>11. InvAtHead'
  <2> SUFFICES ASSUME NEW u \in Threads, pc'[u] = "cas2", k[u] \in Slots
               PROVE  IF op[u] = PUSH
                      THEN nodes'[k[u]] = outer[u] => nodes'[Near(u)].value # Own(end[u])
                      ELSE nodes'[Near(u)] = inner[u] => nodes'[k[u]].value = Own(end[u])
    BY <1>9 DEF InvAtHead
  <2>1. Near(u) \in Slots
    BY <1>9
  <2>2. CASE u = t
    BY <1>2, <1>4, <2>1, <2>2 DEF IsHead
  <2>3. CASE u # t
    <3>1. /\ nodes'[k[u]] = outer[u] => nodes[k[u]] = outer[u]
          /\ nodes'[Near(u)] = inner[u] => nodes[Near(u)] = inner[u]
      BY <1>7, <1>8, <1>9, <2>1
    <3>2. QED
      BY <1>4, <2>1, <2>3, <3>1 DEF Inv, InvAtHead, Frame
  <2>4. QED
    BY <2>2, <2>3
<1>12. QED
  BY <1>5, <1>6, <1>10, <1>11 DEF Inv

\* Shape survives a push at the head.
LEMMA PushShape ==
  ASSUME TypeOK, Shape, NEW e \in End, NEW i \in Slots, NEW new \in Node,
         Inward(e, i) \in Slots, ~AtBound(e, i), new.value \in Elts,
         nodes[i].value = Own(e), nodes[Inward(e, i)].value # Own(e),
         nodes' = [nodes EXCEPT ![i] = new]
  PROVE  Shape'
<1>1. Inward(e, i) = IF e = LEFT THEN i + 1 ELSE i - 1
  BY InwardInArray
<1>2. \A x \in Slots : nodes'[x].value = IF x = i THEN new.value ELSE nodes[x].value
  BY DEF TypeOK
<1>3. new.value # LNULL /\ new.value # RNULL /\ LNULL # RNULL
  BY DEF LNULL, RNULL
<1>4. 0 \in Slots /\ N - 1 \in Slots
  BY DEF Slots
<1>5. CASE e = LEFT
  <2>1. i # 0 /\ nodes[i].value = LNULL /\ nodes[i + 1].value # LNULL
    BY <1>1, <1>5 DEF AtBound, Own
  <2>2. \A x \in Slots : i < x => nodes[x].value # LNULL
    BY <1>1, <1>5, <2>1 DEF Shape, Slots
  <2>3. QED
    BY <1>2, <1>3, <1>4, <2>1, <2>2 DEF Shape, Slots
<1>6. CASE e = RIGHT
  <2>1. i # N - 1 /\ nodes[i].value = RNULL /\ nodes[i - 1].value # RNULL
    BY <1>1, <1>6 DEF AtBound, Own, LEFT, RIGHT, Slots
  <2>2. \A x \in Slots : x < i => nodes[x].value # RNULL
    BY <1>1, <1>6, <2>1 DEF Shape, Slots, LEFT, RIGHT
  <2>3. QED
    BY <1>2, <1>3, <1>4, <2>1, <2>2 DEF Shape, Slots
<1>7. QED
  BY <1>5, <1>6 DEF End

\* Shape survives a pop next to the head.
LEMMA PopShape ==
  ASSUME TypeOK, Shape, NEW e \in End, NEW i \in Slots, NEW new \in Node,
         Inward(e, i) \in Slots, new.value = Own(e), nodes[i].value = Own(e),
         nodes[Inward(e, i)].value \in Elts,
         nodes' = [nodes EXCEPT ![Inward(e, i)] = new]
  PROVE  Shape'
<1>1. Inward(e, i) = IF e = LEFT THEN i + 1 ELSE i - 1
  BY InwardInArray
<1>2. \A x \in Slots :
        nodes'[x].value = IF x = Inward(e, i) THEN Own(e) ELSE nodes[x].value
  BY DEF TypeOK
<1>3. /\ nodes[Inward(e, i)].value # LNULL
      /\ nodes[Inward(e, i)].value # RNULL
      /\ LNULL # RNULL
  BY DEF LNULL, RNULL
<1>4. 0 \in Slots /\ N - 1 \in Slots
  BY DEF Slots
<1>5. CASE e = LEFT
  <2>1. \A x \in Slots : x < i => nodes[x].value = LNULL
    BY <1>5 DEF Shape, Own
  <2>2. \A x \in Slots : x < i + 1 => nodes[x].value # RNULL
    BY <1>1, <1>3, <1>5 DEF Shape
  <2>3. QED
    BY <1>1, <1>2, <1>3, <1>4, <1>5, <2>1, <2>2 DEF Shape, Slots, Own
<1>6. CASE e = RIGHT
  <2>1. \A x \in Slots : i < x => nodes[x].value = RNULL
    BY <1>6 DEF Shape, Own, LEFT, RIGHT
  <2>2. \A x \in Slots : i - 1 < x => nodes[x].value # LNULL
    BY <1>1, <1>3, <1>6 DEF Shape, LEFT, RIGHT
  <2>3. QED
    BY <1>1, <1>2, <1>3, <1>4, <1>6, <2>1, <2>2 DEF Shape, Slots, Own, LEFT, RIGHT
<1>7. QED
  BY <1>5, <1>6 DEF End

\* What holds when the second exchange of t is about to hit: t is at the head.
LEMMA AtHead ==
  ASSUME Inv, NEW t \in Threads, pc[t] = "cas2", Near(t) \in Slots, k[t] \in Slots,
         IF op[t] = PUSH THEN nodes[k[t]] = outer[t] ELSE nodes[Near(t)] = inner[t]
  PROVE  /\ nodes[k[t]].value = Own(end[t])
         /\ op[t] = PUSH => /\ nodes[Near(t)].value # Own(end[t])
                            /\ ~AtBound(end[t], k[t])
                            /\ elt[t] \in Elts
         /\ op[t] # PUSH => nodes[Near(t)].value \in Elts
<1>1. end[t] \in End /\ op[t] \in Op /\ inner[t] \in Node
  BY DEF Inv, TypeOK
<1>2. /\ inner[t].value # Own(end[t])
      /\ outer[t].value = Own(end[t])
      /\ op[t] = PUSH => ~AtBound(end[t], k[t])
  BY DEF Inv, InvGuard, Aimed, IsHead
<1>3. CASE op[t] = PUSH
  BY <1>2, <1>3 DEF Inv, InvAtHead, InvElt
<1>4. CASE op[t] # PUSH
  <2>1. nodes[k[t]].value = Own(end[t])
    BY <1>4 DEF Inv, InvAtHead
  <2>2. inner[t].value # Other(end[t])
    <3>1. inner[t].count \in Nat
      BY <1>1 DEF Node
    <3>2. op[t] = POP
      BY <1>1, <1>4 DEF Op
    <3>3. QED
      BY <1>4, <3>1, <3>2 DEF Inv, InvStale, Firing
  <2>3. inner[t].value \in Elts
    BY <1>1, <1>2, <2>2 DEF Node, Value, Own, Other
  <2>4. QED
    BY <1>4, <2>1, <2>3
<1>5. QED
  BY <1>3, <1>4

\* The second exchange hits a node of the array.
LEMMA Cas2Hit ==
  ASSUME Inv, TypeOK', NEW t \in Threads, Frame(t), pc[t] = "cas2",
         pc'[t] = "moveHint", UNCHANGED <<request, locals>>,
         Near(t) \in Slots, k[t] \in Slots,
         IF op[t] = PUSH
         THEN /\ nodes[k[t]] = outer[t]
              /\ nodes' = [nodes EXCEPT ![k[t]] = SetNode(elt[t], outer[t])]
         ELSE /\ nodes[Near(t)] = inner[t]
              /\ nodes' = [nodes EXCEPT ![Near(t)] = SetNode(Own(end[t]), inner[t])]
  PROVE  Inv'
<1> USE DEF request, locals
<1>1. /\ inner[t] \in Node /\ outer[t] \in Node /\ Own(end[t]) \in Value
      /\ end[t] \in End /\ k[t] \in Word /\ TypeOK /\ Shape
  BY OwnType DEF Inv, TypeOK
<1>2. /\ nodes[k[t]].value = Own(end[t])
      /\ op[t] = PUSH => /\ nodes[Near(t)].value # Own(end[t])
                         /\ ~AtBound(end[t], k[t])
                         /\ elt[t] \in Elts
      /\ op[t] # PUSH => nodes[Near(t)].value \in Elts
  BY AtHead
<1>3. PICK j \in Slots, new \in Node :
        /\ j = IF op[t] = PUSH THEN k[t] ELSE Near(t)
        /\ nodes' = [nodes EXCEPT ![j] = new]
        /\ new.value = IF op[t] = PUSH THEN elt[t] ELSE Own(end[t])
        /\ new.count = nodes[j].count + 1
  <2>1. \A v \in Value, n \in Node : /\ SetNode(v, n) \in Node
                                     /\ SetNode(v, n).value = v
                                     /\ SetNode(v, n).count = n.count + 1
    BY DEF SetNode, Node
  <2>2. CASE op[t] = PUSH
    <3>1. elt[t] \in Value
      BY <1>2, <2>2 DEF Value
    <3>2. QED
      BY <1>1, <2>1, <2>2, <3>1
  <2>3. CASE op[t] # PUSH
    BY <1>1, <2>1, <2>3
  <2>4. QED
    BY <2>2, <2>3
<1>4. \A i \in Slots : nodes'[i] = IF i = j THEN new ELSE nodes[i]
  BY <1>1, <1>3 DEF TypeOK
<1>5. Shape'
  <2>1. CASE op[t] = PUSH
    BY <1>1, <1>2, <1>3, <2>1, PushShape DEF Near
  <2>2. CASE op[t] # PUSH
    BY <1>1, <1>2, <1>3, <2>2, PopShape DEF Near
  <2>3. QED
    BY <2>1, <2>2
<1>6. InvElt' /\ InvLoads' /\ InvGuard' /\ InvStale'
  BY <1>3, GrowStep
<1>7. \A u \in Threads : inner[u] \in Node /\ outer[u] \in Node /\ end[u] \in End /\ k[u] \in Word
  BY <1>1 DEF TypeOK
<1>8. \A i \in Slots, m \in Node :
        Older(m, nodes[i]) /\ nodes'[i] = m => i # j /\ nodes[i] = m
  BY <1>1, <1>3, Overtaken
<1>9. \A u \in Threads : pc'[u] = "cas2" =>
        /\ u # t /\ pc[u] = "cas2"
        /\ Near(u)' = Near(u)
        /\ Near(u) \in Slots <=> k[u] \in Slots
        /\ Near(u) \in Slots => Older(inner[u], nodes[Near(u)])
        /\ k[u] \in Slots => Older(outer[u], nodes[k[u]])
  BY DEF Inv, InvLoads, InvGuard, Aimed, Frame, Near
<1>10. InvRivals'
  <2> SUFFICES ASSUME NEW p \in Threads, NEW q \in Threads,
                      pc'[p] = "cas2", op[p] = PUSH, pc'[q] = "cas2", op[q] = POP,
                      end[p] = end[q], k[p] = k[q], k[p] \in Slots,
                      nodes'[k[p]] = outer[p], nodes'[Near(q)] = inner[q]
               PROVE  FALSE
    BY <1>9 DEF InvRivals
  <2>1. nodes[k[p]] = outer[p] /\ nodes[Near(q)] = inner[q]
    BY <1>7, <1>8, <1>9
  <2>2. QED
    BY <1>9, <2>1 DEF Inv, InvRivals
<1>11. InvAtHead'
  <2> SUFFICES ASSUME NEW u \in Threads, pc'[u] = "cas2", k[u] \in Slots
               PROVE  IF op[u] = PUSH
                      THEN nodes'[k[u]] = outer[u] => nodes'[Near(u)].value # Own(end[u])
                      ELSE nodes'[Near(u)] = inner[u] => nodes'[k[u]].value = Own(end[u])
    BY <1>9 DEF InvAtHead
  <2>1. Near(u) \in Slots /\ pc[u] = "cas2" /\ op[u] \in Op
    BY <1>1, <1>9 DEF TypeOK
  <2>2. \A e, f \in End : Own(e) = Own(f) => e = f
    BY DEF Own, End, LEFT, RIGHT, LNULL, RNULL
  <2>3. Own(end[u]) \notin Elts
    BY DEF Own
  <2>4. ASSUME op[u] = PUSH, nodes'[k[u]] = outer[u]
        PROVE  nodes'[Near(u)].value # Own(end[u])
    <3>1. nodes[k[u]] = outer[u]
      BY <1>7, <1>8, <1>9, <2>4
    <3>2. nodes[Near(u)].value # Own(end[u])
      BY <2>1, <2>4, <3>1 DEF Inv, InvAtHead
    <3>3. CASE Near(u) # j
      BY <1>4, <2>1, <3>2, <3>3
    <3>4. CASE Near(u) = j /\ op[t] = PUSH
      BY <1>2, <1>3, <1>4, <2>3, <3>4
    <3>5. CASE Near(u) = j /\ op[t] # PUSH
      <4>1. SUFFICES ASSUME end[t] = end[u]
                     PROVE  FALSE
        BY <1>3, <1>4, <1>7, <2>2, <3>5
      <4>2. k[t] = k[u]
        BY <1>3, <1>7, <3>5, <4>1, InwardInjective DEF Near
      <4>3. op[t] = POP
        BY <1>1, <3>5 DEF TypeOK, Op
      <4>4. QED
        BY <2>1, <2>4, <3>1, <3>5, <4>1, <4>2, <4>3 DEF Inv, InvRivals
    <3>6. QED
      BY <3>3, <3>4, <3>5
  <2>5. ASSUME op[u] # PUSH, nodes'[Near(u)] = inner[u]
        PROVE  nodes'[k[u]].value = Own(end[u])
    <3>1. nodes[Near(u)] = inner[u]
      BY <1>7, <1>8, <1>9, <2>1, <2>5
    <3>2. nodes[k[u]].value = Own(end[u])
      BY <2>1, <2>5, <3>1 DEF Inv, InvAtHead
    <3>3. CASE k[u] # j
      BY <1>4, <3>2, <3>3
    <3>4. CASE k[u] = j /\ op[t] = PUSH
      <4>1. k[t] = k[u] /\ end[t] = end[u]
        BY <1>2, <1>3, <1>7, <2>2, <3>2, <3>4
      <4>2. op[u] = POP
        BY <2>1, <2>5 DEF Op
      <4>3. QED
        BY <2>1, <3>1, <3>4, <4>1, <4>2 DEF Inv, InvRivals
    <3>5. CASE k[u] = j /\ op[t] # PUSH
      BY <1>2, <1>3, <2>3, <3>2, <3>5
    <3>6. QED
      BY <3>3, <3>4, <3>5
  <2>6. QED
    BY <2>4, <2>5
<1>12. QED
  BY <1>1, <1>5, <1>6, <1>10, <1>11 DEF Inv

-----------------------------------------------------------------------------
(* The theorems *)

\* An array of nulls in two halves has the shape of a deque.
LEMMA BlankShape == nodes = BlankNodes => Shape
BY DEF BlankNodes, Shape, Slots, LNULL, RNULL

LEMMA InitInv == Init => Inv
<1> SUFFICES ASSUME Init PROVE Inv
  OBVIOUS
<1> USE DEF Init
<1>1. TypeOK
  BY InitTypeOK
<1>2. Shape
  BY BlankShape
<1>3. InvElt /\ InvLoads /\ InvGuard /\ InvStale /\ InvRivals /\ InvAtHead
  BY DEF InvElt, InvLoads, InvGuard, InvStale, InvRivals, InvAtHead, Aimed, Firing
<1>4. QED
  BY <1>1, <1>2, <1>3 DEF Inv

\* Clearing the deque while nobody uses it leaves no thread to rely on it.
LEMMA ClearInv == Inv /\ Clear => Inv'
<1> SUFFICES ASSUME Inv, Clear PROVE Inv'
  OBVIOUS
<1>1. TypeOK
  BY DEF Inv
<1>2. /\ nodes' = BlankNodes /\ hint' = MiddleHints /\ size' = 0
      /\ UNCHANGED <<pc, request, locals, ret, calls>>
      /\ \A t \in Threads : pc'[t] = "idle"
  BY DEF Clear
<1>3. nodes' \in [Slots -> Node] /\ hint' \in [End -> Word] /\ size' \in Word
  BY <1>2 DEF BlankNodes, MiddleHints, Slots, Node, Value, Word, End, LEFT, RIGHT
<1>4. TypeOK'
  BY <1>1, <1>2, <1>3 DEF TypeOK, request, locals
<1>5. Shape'
  BY <1>2 DEF BlankNodes, Shape, Slots, LNULL, RNULL
<1>6. InvElt' /\ InvLoads' /\ InvGuard' /\ InvStale' /\ InvRivals' /\ InvAtHead'
  BY <1>2 DEF InvElt, InvLoads, InvGuard, InvStale, InvRivals, InvAtHead, Aimed, Firing
<1>7. QED
  BY <1>4, <1>5, <1>6 DEF Inv

\* Around the two ends of the array the oracle's indices betray themselves.
LEMMA Edges ==
  ASSUME Shape, NEW e \in End, NEW i \in Word
  PROVE  /\ i \in Slots /\ Inward(e, i) \notin Slots => nodes[i].value # Own(e)
         /\ i \notin Slots /\ Inward(e, i) \in Slots => nodes[Inward(e, i)].value = Own(e)
<1>1. CASE e = LEFT
  <2>1. Inward(e, i) = Inc(i) /\ Own(e) = LNULL
    BY <1>1 DEF Inward, Own
  <2>2. i \in Slots /\ Inc(i) \notin Slots => i = N - 1
    BY DEF Slots, Inc
  <2>3. i \notin Slots /\ Inc(i) \in Slots => Inc(i) = 0
    BY DEF Slots, Inc, Word
  <2>4. QED
    BY <2>1, <2>2, <2>3 DEF Shape, LNULL, RNULL
<1>2. CASE e = RIGHT
  <2>1. Inward(e, i) = Dec(i) /\ Own(e) = RNULL
    BY <1>2 DEF Inward, Own, LEFT, RIGHT
  <2>2. i \in Slots /\ Dec(i) \notin Slots => i = 0
    BY DEF Slots, Dec
  <2>3. i \notin Slots /\ Dec(i) \in Slots => Dec(i) = N - 1
    BY DEF Slots, Dec, Word
  <2>4. QED
    BY <2>1, <2>2, <2>3 DEF Shape, LNULL, RNULL
<1>3. QED
  BY <1>1, <1>2 DEF End

\* The two loads and the second look at the inner node.
LEMMA LoadInv ==
  ASSUME Inv, TypeOK', NEW t \in Threads, Frame(t), UNCHANGED <<nodes, request>>,
         LoadInner(t) \/ LoadOuter(t) \/ Recheck(t)
  PROVE  Inv'
<1> USE DEF request, locals, Goto
<1>1. /\ end[t] \in End /\ op[t] \in Op /\ k[t] \in Word
      /\ inner[t] \in Node /\ outer[t] \in Node /\ TypeOK /\ Shape
  BY DEF Inv, TypeOK
<1>2. pc \in [Threads -> PC] /\ inner \in [Threads -> Node] /\ outer \in [Threads -> Node]
  BY <1>1 DEF TypeOK
<1>3. Near(t) \in Slots /\ k[t] \notin Slots => nodes[Near(t)].value = Own(end[t])
  BY <1>1, Edges DEF Near
<1>4. k[t] \in Slots /\ Near(t) \notin Slots => nodes[k[t]].value # Own(end[t])
  BY <1>1, Edges DEF Near
<1>5. \A j \in Slots : \A n \in Loads(j) : n = nodes[j]
  BY DEF Loads
<1>6. pc[t] # "idle" /\ op'[t] = PUSH => elt'[t] \in Elts
  BY DEF Inv, InvElt
<1>7. Retry(t) => pc'[t] = "oracleHint"
  BY <1>2 DEF Retry
<1>8. \A stat, val : Return(t, stat, val) => pc'[t] = "idle"
  BY <1>2 DEF Return
<1>9. CASE LoadInner(t)
  <2>1. PICK n \in Loads(Near(t)) : inner' = [inner EXCEPT ![t] = n]
    BY <1>9 DEF LoadInner, Near
  <2>2. inner'[t] = n /\ pc'[t] = "loadOuter" /\ pc[t] = "loadInner" /\ k' = k
    BY <1>2, <1>9, <2>1 DEF LoadInner
  <2>3. Near(t) \in Slots => n = nodes[Near(t)]
    BY <1>5, <2>1
  <2>4. QED
    BY <1>3, <2>2, <2>3, AimStep DEF Older
<1>10. CASE LoadOuter(t)
  <2>1. PICK n \in Loads(k[t]) :
          \/ Retry(t)
          \/ Return(t, FULL, NULL)
          \/ /\ IsHead(end[t], inner[t], n)
             /\ ~(op[t] = PUSH /\ AtBound(end[t], k[t]))
             /\ outer' = [outer EXCEPT ![t] = n]
             /\ Goto(t, IF op[t] = POP /\ inner[t].value = Other(end[t])
                        THEN "recheck" ELSE "cas1")
             /\ UNCHANGED <<k, inner, ret>>
    BY <1>10 DEF LoadOuter
  <2>2. CASE Retry(t) \/ Return(t, FULL, NULL)
    <3>1. pc'[t] \in {"oracleHint", "idle"} /\ pc[t] = "loadOuter"
      BY <1>7, <1>8, <1>10, <2>2 DEF LoadOuter
    <3>2. QED
      BY <1>6, <3>1, QuietStep DEF Aimed
  <2>3. CASE ~(Retry(t) \/ Return(t, FULL, NULL))
    <3>1. /\ IsHead(end[t], inner[t], n)
          /\ op[t] = PUSH => ~AtBound(end[t], k[t])
          /\ outer'[t] = n /\ inner' = inner /\ k' = k
          /\ pc[t] = "loadOuter"
          /\ pc'[t] = IF op[t] = POP /\ inner[t].value = Other(end[t])
                      THEN "recheck" ELSE "cas1"
      BY <1>2, <1>10, <2>1, <2>3 DEF LoadOuter
    <3>2. k[t] \in Slots => n = nodes[k[t]]
      BY <1>5, <2>1
    <3>3. /\ Near(t) \in Slots => Older(inner[t], nodes[Near(t)])
          /\ Near(t) \in Slots /\ k[t] \notin Slots => inner[t].value = Own(end[t])
      BY <3>1 DEF Inv, InvLoads, InvGuard
    <3>4. Near(t) \in Slots <=> k[t] \in Slots
      BY <1>4, <3>1, <3>2, <3>3 DEF IsHead
    <3>5. k[t] \in Slots => Older(outer'[t], nodes[k[t]])
      BY <3>1, <3>2 DEF Older
    <3>6. QED
      BY <3>1, <3>3, <3>4, <3>5, AimStep
  <2>4. QED
    BY <2>2, <2>3
<1>11. CASE Recheck(t)
  <2>1. PICK n \in Loads(Near(t)) :
          \/ Return(t, EMPTY, NULL)
          \/ /\ n.value # inner[t].value
             /\ Goto(t, "cas1")
             /\ UNCHANGED <<locals, ret>>
    BY <1>11 DEF Recheck, Near
  <2>2. CASE Return(t, EMPTY, NULL)
    <3>1. pc'[t] = "idle"
      BY <1>8, <2>2
    <3>2. QED
      BY <3>1, QuietStep DEF Aimed
  <2>3. CASE ~Return(t, EMPTY, NULL)
    <3>1. /\ n.value # inner[t].value
          /\ pc'[t] = "cas1" /\ pc[t] = "recheck"
          /\ k' = k /\ inner' = inner /\ outer' = outer
      BY <1>2, <1>11, <2>1, <2>3 DEF Recheck
    <3>2. Near(t) \in Slots => n = nodes[Near(t)]
      BY <1>5, <2>1
    <3>3. /\ Near(t) \in Slots => Older(inner[t], nodes[Near(t)])
          /\ k[t] \in Slots => Older(outer[t], nodes[k[t]])
          /\ IsHead(end[t], inner[t], outer[t])
          /\ op[t] = PUSH => ~AtBound(end[t], k[t])
          /\ Near(t) \in Slots <=> k[t] \in Slots
      BY <3>1 DEF Inv, InvLoads, InvGuard, Aimed
    <3>4. Near(t) \in Slots => inner[t].count < nodes[Near(t)].count
      BY <3>1, <3>2, <3>3 DEF Older
    <3>5. QED
      BY <3>1, <3>3, <3>4, AimStep
  <2>4. QED
    BY <2>2, <2>3
<1>12. QED
  BY <1>9, <1>10, <1>11

\* The two exchanges.
LEMMA ExchangeInv ==
  ASSUME Inv, TypeOK', NEW t \in Threads, Frame(t), UNCHANGED request,
         Cas1(t) \/ Cas2(t)
  PROVE  Inv'
<1> USE DEF request, locals, Goto
<1>1. pc \in [Threads -> PC] /\ op[t] \in Op
  BY DEF Inv, TypeOK
<1>2. elt'[t] = elt[t] /\ op'[t] = op[t] /\ (op[t] = PUSH => elt[t] \in Elts)
  BY DEF Inv, InvElt, Cas1, Cas2
<1>3. Retry(t) => pc'[t] = "oracleHint"
  BY <1>1 DEF Retry
<1>4. CASE nodes' = nodes /\ Retry(t)
  BY <1>2, <1>3, <1>4, QuietStep DEF Aimed
<1>5. CASE Cas1(t) /\ ~(nodes' = nodes /\ Retry(t))
  <2>1. /\ IsHead(end[t], inner[t], outer[t])
        /\ op[t] = PUSH => ~AtBound(end[t], k[t])
        /\ Near(t) \in Slots <=> k[t] \in Slots
        /\ Near(t) \in Slots => Older(inner[t], nodes[Near(t)])
        /\ k[t] \in Slots => Older(outer[t], nodes[k[t]])
    BY <1>5 DEF Inv, InvLoads, InvGuard, Aimed, Cas1
  <2>2. /\ pc[t] = "cas1" /\ pc'[t] = "cas2" /\ UNCHANGED locals
        /\ IF op[t] = PUSH
           THEN Cas(Near(t), inner[t], CopyNode(inner[t]), TRUE)
           ELSE Cas(k[t], outer[t], SetNode(Own(end[t]), outer[t]), TRUE)
    BY <1>1, <1>5 DEF Cas1, Near, Cas
  <2>3. CASE k[t] \in Slots
    BY <2>1, <2>2, <2>3, Cas1Hit DEF Cas
  <2>4. CASE k[t] \notin Slots
    <3>1. nodes' = nodes
      BY <2>1, <2>2, <2>4 DEF Cas
    <3>2. QED
      BY <2>1, <2>2, <2>4, <3>1, AimStep
  <2>5. QED
    BY <2>3, <2>4
<1>6. CASE Cas2(t) /\ ~(nodes' = nodes /\ Retry(t))
  <2>1. Near(t) \in Slots <=> k[t] \in Slots
    BY <1>6 DEF Inv, InvGuard, Aimed, Cas2
  <2>2. /\ pc[t] = "cas2" /\ pc'[t] = "moveHint" /\ UNCHANGED locals
        /\ IF op[t] = PUSH
           THEN Cas(k[t], outer[t], SetNode(elt[t], outer[t]), TRUE)
           ELSE Cas(Near(t), inner[t], SetNode(Own(end[t]), inner[t]), TRUE)
    BY <1>1, <1>6 DEF Cas2, Near, Cas
  <2>3. CASE k[t] \in Slots
    BY <2>1, <2>2, <2>3, Cas2Hit DEF Cas
  <2>4. CASE k[t] \notin Slots
    <3>1. nodes' = nodes
      BY <2>1, <2>2, <2>4 DEF Cas
    <3>2. QED
      BY <1>2, <2>2, <3>1, QuietStep DEF Aimed
  <2>5. QED
    BY <2>3, <2>4
<1>7. QED
  BY <1>4, <1>5, <1>6

\* Every step of a thread keeps the invariant.
LEMMA StepInv ==
  ASSUME Inv, NEW t \in Threads, Call(t) \/ Step(t)
  PROVE  Inv'
<1> USE DEF request, locals, shared, Goto
<1>1. TypeOK /\ InvElt /\ pc \in [Threads -> PC]
  BY DEF Inv, TypeOK
<1>2. TypeOK'
  BY <1>1, TypeStep
<1>3. pc[t] # "idle" /\ op[t] = PUSH => elt[t] \in Elts
  BY <1>1 DEF InvElt
<1>4. CASE Call(t)
  <2>1. Frame(t)
    BY <1>1, <1>4 DEF Call, Frame, TypeOK
  <2>2. nodes' = nodes /\ pc'[t] = "oracleHint"
    BY <1>1, <1>4 DEF Call
  <2>3. op'[t] = PUSH => elt'[t] \in Elts
    BY <1>1, <1>4 DEF Call, TypeOK, PUSH
  <2>4. QED
    BY <1>2, <2>1, <2>2, <2>3, QuietStep DEF Aimed
<1>5. CASE Oracle(t)
  <2>1. Frame(t)
    BY <1>1, <1>5, OracleFrame
  <2>2. nodes' = nodes /\ op' = op /\ elt' = elt
    BY <1>5 DEF Oracle
  <2>3. /\ pc[t] # "idle"
        /\ pc'[t] \in {"oracleOuter", "oracleInner", "scanOuter", "scanInner",
                       "rehint", "loadInner"}
    BY <1>1, <1>5 DEF Oracle, OracleHint, OracleOuter, OracleInner, ScanOuter,
                      ScanInner, Rehint, Found
  <2>4. QED
    BY <1>2, <1>3, <2>1, <2>2, <2>3, QuietStep DEF Aimed
<1>6. CASE Body(t)
  <2>1. Frame(t) /\ UNCHANGED request
    BY <1>1, <1>6, BodyFrame DEF Body
  <2>2. CASE LoadInner(t) \/ LoadOuter(t) \/ Recheck(t)
    BY <1>2, <2>1, <2>2, LoadInv DEF LoadInner, LoadOuter, Recheck
  <2>3. CASE Cas1(t) \/ Cas2(t)
    BY <1>2, <2>1, <2>3, ExchangeInv
  <2>4. CASE MoveHint(t) \/ Resize(t)
    <3>1. nodes' = nodes /\ pc[t] # "idle" /\ pc'[t] \in {"resize", "idle"}
      BY <1>1, <2>4 DEF MoveHint, Resize, Return
    <3>2. QED
      BY <1>2, <1>3, <2>1, <3>1, QuietStep DEF Aimed
  <2>5. QED
    BY <1>6, <2>2, <2>3, <2>4 DEF Body
<1>7. QED
  BY <1>4, <1>5, <1>6
  DEF Step, LeftOracle, RightOracle, LeftPush, LeftPop, RightPush, RightPop

LEMMA StutterInv == Inv /\ UNCHANGED vars => Inv'
BY DEF Inv, vars, shared, request, locals, TypeOK, Shape, InvElt, InvLoads,
       InvGuard, InvStale, InvRivals, InvAtHead, Near, Aimed, Firing

\* The invariant is inductive: it holds in every reachable state.
THEOREM Invariance == Spec => []Inv
<1>1. Init => Inv
  BY InitInv
<1>2. Inv /\ [Next]_vars => Inv'
  BY StepInv, ClearInv, StutterInv DEF Next
<1>3. QED
  BY <1>1, <1>2, PTL DEF Spec

\* Types are respected by every operation, wherever its thread is.
THEOREM TypeCorrect == Spec => []TypeOK
BY Invariance, PTL DEF Inv

\* The array always reads LNULL+ value* RNULL+.
THEOREM ShapeHolds == Spec => []Shape
BY Invariance, PTL DEF Inv

-----------------------------------------------------------------------------
(* Elements come and go at the heads only *)

\* The innermost null of an end is unique.
LEMMA HeadUnique ==
  ASSUME Shape, NEW e \in End, NEW i \in Slots, Inward(e, i) \in Slots,
         nodes[i].value = Own(e), nodes[Inward(e, i)].value # Own(e)
  PROVE  HeadSlot(e) = i
<1> DEFINE IsIt(j) == nodes[j].value = Own(e) /\ nodes[Inward(e, j)].value # Own(e)
<1>1. ASSUME NEW j \in Slots, IsIt(j)
      PROVE  j = i
  <2>1. Inward(e, i) = IF e = LEFT THEN i + 1 ELSE i - 1
    BY InwardInArray
  <2>2. Inward(e, j) \in Slots
    BY <1>1, Edges DEF Slots, Word
  <2>3. Inward(e, j) = IF e = LEFT THEN j + 1 ELSE j - 1
    BY <2>2, InwardInArray
  <2>4. CASE e = LEFT
    BY <1>1, <2>1, <2>2, <2>3, <2>4 DEF Shape, Slots, Own
  <2>5. CASE e = RIGHT
    BY <1>1, <2>1, <2>2, <2>3, <2>5 DEF Shape, Slots, Own, LEFT, RIGHT
  <2>6. QED
    BY <2>4, <2>5 DEF End
<1>2. HeadSlot(e) = CHOOSE j \in Slots : IsIt(j)
  BY DEF HeadSlot
<1>3. IsIt(i)
  OBVIOUS
<1> HIDE DEF IsIt
<1>4. QED
  BY <1>1, <1>2, <1>3

\* A second exchange that hits changes one slot, at the head of its end.
LEMMA Cas2AtHead ==
  ASSUME Inv, NEW t \in Threads, Cas2(t), NEW x \in Slots,
         nodes'[x].value # nodes[x].value
  PROVE  \E e \in End :
           \/ x = HeadSlot(e) /\ nodes'[x].value \in Elts
           \/ x = Inward(e, HeadSlot(e)) /\ nodes[x].value \in Elts
                                    /\ nodes'[x].value = Own(e)
<1>1. /\ TypeOK /\ Shape /\ end[t] \in End /\ k[t] \in Word
      /\ inner[t] \in Node /\ outer[t] \in Node
  BY DEF Inv, TypeOK
<1>2. pc[t] = "cas2" /\ (Near(t) \in Slots <=> k[t] \in Slots)
  BY DEF Inv, InvGuard, Aimed, Cas2
<1>3. IF op[t] = PUSH
      THEN Cas(k[t], outer[t], SetNode(elt[t], outer[t]), TRUE)
      ELSE Cas(Near(t), inner[t], SetNode(Own(end[t]), inner[t]), TRUE)
  BY DEF Cas2, Cas, Near
<1>4. k[t] \in Slots /\ Near(t) \in Slots
  BY <1>2, <1>3 DEF Cas
<1>5. IF op[t] = PUSH
      THEN /\ nodes[k[t]] = outer[t]
           /\ nodes' = [nodes EXCEPT ![k[t]] = SetNode(elt[t], outer[t])]
      ELSE /\ nodes[Near(t)] = inner[t]
           /\ nodes' = [nodes EXCEPT ![Near(t)] = SetNode(Own(end[t]), inner[t])]
  BY <1>3, <1>4 DEF Cas
<1>6. /\ nodes[k[t]].value = Own(end[t])
      /\ op[t] = PUSH => nodes[Near(t)].value # Own(end[t]) /\ elt[t] \in Elts
      /\ op[t] # PUSH => nodes[Near(t)].value \in Elts
  BY <1>2, <1>4, <1>5, AtHead
<1>7. Own(end[t]) \notin Elts
  BY DEF Own
<1>8. HeadSlot(end[t]) = k[t]
  BY <1>1, <1>4, <1>6, <1>7, HeadUnique DEF Near
<1>9. CASE op[t] = PUSH
  <2>1. x = k[t] /\ nodes'[x].value = elt[t]
    BY <1>1, <1>4, <1>5, <1>9 DEF TypeOK, SetNode
  <2>2. QED
    BY <1>1, <1>6, <1>8, <1>9, <2>1
<1>10. CASE op[t] # PUSH
  <2>1. x = Near(t) /\ nodes'[x].value = Own(end[t])
    BY <1>1, <1>4, <1>5, <1>10 DEF TypeOK, SetNode
  <2>2. QED
    BY <1>1, <1>6, <1>8, <1>10, <2>1 DEF Near
<1>11. QED
  BY <1>9, <1>10

\* A first exchange changes a version and no value.
LEMMA Cas1SameValues ==
  ASSUME Inv, NEW t \in Threads, Cas1(t), NEW x \in Slots
  PROVE  nodes'[x].value = nodes[x].value
<1>1. TypeOK /\ IsHead(end[t], inner[t], outer[t])
  BY DEF Inv, InvGuard, Aimed, Cas1
<1>2. ASSUME NEW j, NEW old, NEW new, NEW hit,
             Cas(j, old, new, hit), new.value = old.value
      PROVE  nodes'[x].value = nodes[x].value
  BY <1>1, <1>2 DEF Cas, TypeOK
<1>3. CopyNode(inner[t]).value = inner[t].value
  BY DEF CopyNode, SetNode
<1>4. SetNode(Own(end[t]), outer[t]).value = outer[t].value
  BY <1>1 DEF SetNode, IsHead
<1>5. QED
  BY <1>2, <1>3, <1>4 DEF Cas1

\* Whatever changes a value in the array, but clearing it all, does so at a
\* head.
THEOREM ChangesOnlyAtHeads == Spec => OnlyAtHeads
<1>1. Inv /\ [Next]_vars => [Clear \/ ChangesAtHead]_vars
  <2> SUFFICES ASSUME Inv, Next, ~Clear, NEW x \in Slots, nodes'[x].value # nodes[x].value
               PROVE  \E e \in End :
                        \/ x = HeadSlot(e) /\ nodes'[x].value \in Elts
                        \/ x = Inward(e, HeadSlot(e)) /\ nodes[x].value \in Elts
                                                 /\ nodes'[x].value = Own(e)
    BY DEF ChangesAtHead
  <2>1. PICK t \in Threads : Call(t) \/ Step(t)
    BY DEF Next
  <2>2. CASE Cas1(t)
    BY <2>2, Cas1SameValues
  <2>3. CASE Cas2(t)
    BY <2>3, Cas2AtHead
  <2>4. CASE nodes' = nodes
    BY <2>4
  <2>5. QED
    BY <2>1, <2>2, <2>3, <2>4
    DEF Call, Step, LeftOracle, RightOracle, LeftPush, LeftPop, RightPush, RightPop,
        Oracle, Body, LoadInner, LoadOuter, Recheck, MoveHint, Resize, shared
<1>2. QED
  BY <1>1, Invariance, PTL DEF Spec, OnlyAtHeads
=============================================================================
