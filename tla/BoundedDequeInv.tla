---------------------------- MODULE BoundedDequeInv ----------------------------
(***************************************************************************)
(* The inductive invariant of the bounded deque: what a thread in the      *)
(* middle of an operation may rely on about the two nodes it has loaded.   *)
(***************************************************************************)
EXTENDS BoundedDeque

\* The two slots that thread t works on; both lie in the array or neither.
Near(t) == Inward(end[t], k[t])

Aimed(t)  == pc[t] \in {"recheck", "cas1", "cas2"}
Firing(t) == pc[t] \in {"cas1", "cas2"}

\* m is the present content n of its slot, or an earlier version of it.
Older(m, n) == m = n \/ m.count < n.count

\* A push carries an element.
InvElt ==
  \A t \in Threads : pc[t] # "idle" /\ op[t] = PUSH => elt[t] \in Elts

\* A loaded node is the present content of its slot or an older version.
InvLoads ==
  \A t \in Threads :
    /\ Aimed(t) \/ pc[t] = "loadOuter" =>
         (Near(t) \in Slots => Older(inner[t], nodes[Near(t)]))
    /\ Aimed(t) => (k[t] \in Slots => Older(outer[t], nodes[k[t]]))

\* The guards that a thread passed on its way to the exchanges, and the null
\* it is sure to have read if its index is just beyond its end of the array.
InvGuard ==
  \A t \in Threads :
    /\ pc[t] = "loadOuter" /\ Near(t) \in Slots /\ k[t] \notin Slots =>
         inner[t].value = Own(end[t])
    /\ Aimed(t) =>
         /\ IsHead(end[t], inner[t], outer[t])
         /\ op[t] = PUSH => ~AtBound(end[t], k[t])
         /\ Near(t) \in Slots <=> k[t] \in Slots

\* A pop that goes on after reading the other end's null has seen it replaced.
InvStale ==
  \A t \in Threads :
    /\ Firing(t) /\ op[t] = POP /\ Near(t) \in Slots
    /\ inner[t].value = Other(end[t])
    => inner[t].count < nodes[Near(t)].count

\* A push and a pop at one head cannot both be about to succeed: the first
\* exchange of each bumps the node that the second exchange of the other expects.
InvRivals ==
  \A p, q \in Threads :
    /\ pc[p] = "cas2" /\ op[p] = PUSH
    /\ pc[q] = "cas2" /\ op[q] = POP
    /\ end[p] = end[q] /\ k[p] = k[q] /\ k[p] \in Slots
    => ~(nodes[k[p]] = outer[p] /\ nodes[Near(q)] = inner[q])

\* While the second exchange of t can still succeed, t is at the head.
InvAtHead ==
  \A t \in Threads :
    pc[t] = "cas2" /\ k[t] \in Slots =>
      IF op[t] = PUSH
      THEN nodes[k[t]] = outer[t] => nodes[Near(t)].value # Own(end[t])
      ELSE nodes[Near(t)] = inner[t] => nodes[k[t]].value = Own(end[t])

Inv == /\ TypeOK /\ Shape /\ InvElt /\ InvLoads /\ InvGuard
       /\ InvStale /\ InvRivals /\ InvAtHead
=============================================================================
