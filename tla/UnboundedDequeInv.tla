--------------------------- MODULE UnboundedDequeInv ---------------------------
(***************************************************************************)
(* The inductive invariant of the unbounded deque's memory: which places   *)
(* and pointers a thread may follow.                                       *)
(***************************************************************************)
EXTENDS UnboundedDeque

\* The buffer side[t] is t's own: allocated, and not attached yet.
Attaching(t) == pc[t] \in {"cas1", "cas2"} /\ Attaches(t)

\* The buffers that more than one thread may know.
Public == heap \ {side[t] : t \in {u \in Threads : Attaching(u)}}

PublicPlace(p) == p = Nowhere \/ p.buf \in Public
PublicNode(n)  == n.value \in Buffers => n.value \in Public

\* All that t knows of the memory is public, but for a buffer of its own.
KnowsPublic(t) ==
  /\ PublicPlace(k[t]) /\ PublicPlace(at[t]) /\ PublicPlace(saved[t])
  /\ PublicNode(inner[t]) /\ PublicNode(outer[t]) /\ PublicNode(peek[t])
  /\ ~Attaching(t) /\ side[t] \in Buffers => side[t] \in Public

\* Every pointer in the hints, in memory and in the threads' locals leads to
\* a public buffer, and never to one that a thread may still have to free.
InvPublic ==
  /\ \A e \in End : hint[e].buf \in Public
  /\ \A b \in Buffers, i \in Slots : PublicNode(mem[b][i])
  /\ \A t \in Threads : KnowsPublic(t)

\* A thread's own buffer is known to no other thread.
InvOwn ==
  \A t \in Threads : Attaching(t) =>
    /\ side[t] \in heap
    /\ \A u \in Threads : Attaching(u) /\ side[u] = side[t] => u = t

\* t has nothing left of its last call.
Forgotten(t) ==
  /\ k[t] = Nowhere /\ at[t] = Nowhere /\ saved[t] = Nowhere /\ side[t] = NULL
  /\ inner[t] = Junk /\ outer[t] = Junk /\ peek[t] = Junk

\* What t is sure of when it has come to an access.
Placed(t) ==
  /\ pc[t] = "idle" => Forgotten(t)
  /\ pc[t] \notin {"idle", "oracleHint"} => k[t] \in Place
  /\ pc[t] \in {"climb", "scanOuter", "scanInner", "scanNext"} => at[t] \in Place
  /\ pc[t] # "idle" /\ op[t] = PUSH => elt[t] \in Elts
  /\ pc[t] = "recheck" => op[t] = POP
  /\ pc[t] = "attach" => Attaches(t)
  /\ pc[t] \in {"reload", "peek"} => Straddles(t)
  /\ pc[t] \in {"cas1", "cas2"} /\ Straddles(t) => side[t] \in Buffers
  /\ pc[t] = "moveHint" /\ op[t] = PUSH /\ AtEdge(t) => side[t] \in Buffers

InvPlaced == \A t \in Threads : Placed(t)

MemInv == TypeOK /\ InvPublic /\ InvOwn /\ InvPlaced /\ LoadedOlder
=============================================================================
