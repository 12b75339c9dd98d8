--------------------------- MODULE BoundedDequeHeads ---------------------------
(***************************************************************************)
(* The heads of the bounded deque, and how far two threads can take its    *)
(* hints, and with them their indices, from the heads.                     *)
(***************************************************************************)
EXTENDS BoundedDequeInv

\* The array nd holds left nulls up to l, right nulls from r on, and elements
\* in between.
HeadsIn(nd, l, r) ==
  /\ l < r
  /\ \A i \in Slots : /\ nd[i].value = LNULL <=> i <= l
                      /\ nd[i].value = RNULL <=> i >= r

Heads == \E l, r \in Slots : HeadsIn(nodes, l, r)

\* The move of hint e that t still owes: 1 outwards, -1 inwards.
Owed(t, e) ==
  IF t \notin Threads \/ pc[t] # "moveHint" \/ end[t] # e THEN 0
  ELSE IF op[t] = PUSH THEN 1 ELSE -1

\* With no other threads than p and q, a hint is at most one step beyond its
\* end of the array and at most one node inwards of its head, or two.
HintsOf(p, q) ==
  \E l, r \in Slots :
    LET x == l + Owed(p, LEFT) + Owed(q, LEFT)
        y == r - Owed(p, RIGHT) - Owed(q, RIGHT)
    IN
    /\ HeadsIn(nodes, l, r)
    /\ x \in -1 .. N - 1 /\ hint[LEFT] = IF x < 0 THEN ULONG - 1 ELSE x
    /\ y \in 0 .. N /\ hint[RIGHT] = y

\* The indices from one step beyond end e to the other end of the array.
Reach(e) == IF e = LEFT THEN Slots \cup {ULONG - 1} ELSE 0 .. N

Indices ==
  \A t \in Threads :
    /\ k[t] \in Reach(end[t])
    /\ pc[t] = "idle" => k[t] = 0
    /\ pc[t] \in {"scanOuter", "scanInner"} => ScanOn(end[t], k[t])

\* Of the two nodes that an operation reads and exchanges, at least one lies
\* in the array: what memory holds beyond it does not decide anything.
Grounded ==
  \A t \in Threads :
    pc[t] \in {"loadInner", "loadOuter"} \/ Aimed(t) =>
      k[t] \in Slots \/ Near(t) \in Slots

\* The change of size that t still owes, and how it is made up for.
Due(t) ==
  IF t \notin Threads \/ pc[t] \notin {"moveHint", "resize"} THEN 0
  ELSE IF op[t] = PUSH THEN 1 ELSE -1

SizeOf(p, q) ==
  \E l, r \in Slots :
    LET z == (r - l - 1) - Due(p) - Due(q)
    IN  HeadsIn(nodes, l, r) /\ size = IF z < 0 THEN ULONG + z ELSE z

PairInv(p, q) == Inv /\ HintsOf(p, q) /\ SizeOf(p, q) /\ Indices
=============================================================================
