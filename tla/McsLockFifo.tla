----------------------------- MODULE McsLockFifo -----------------------------
(***************************************************************************)
(* McsLock with a history variable for the order of the queue, which the   *)
(* memory shows only in part: a thread between its swap and its link is    *)
(* known to nobody but itself.                                             *)
(***************************************************************************)
EXTENDS McsLock

VARIABLE ahead    \* the threads that swapped before t and have not left

fifoVars == <<mcsVars, ahead>>

Leaving == {u \in Threads : Holds(u) /\ at'[u] = "out"}

Record ==
  ahead' = [u \in Threads |->
              IF at[u] = "swap" /\ at'[u] = "flag"
              THEN {v \in Threads : Member(v)}
              ELSE ahead[u] \ Leaving]

FifoInit == McsInit /\ ahead = [t \in Threads |-> {}]
FifoNext == McsNext /\ Record
FifoSpec == FifoInit /\ [][FifoNext]_fifoVars
-----------------------------------------------------------------------------

\* t comes right after u.
Follows(t, u) == u \in ahead[t] /\ ahead[t] = ahead[u] \cup {u}

FifoType ==
  /\ at \in [Threads -> {"out", "clear", "swap", "flag", "link", "spin",
                         "in", "detach", "await", "pass"}]
  /\ L \in Threads \cup {NIL}
  /\ flag \in [Threads -> BOOLEAN]
  /\ next \in [Threads -> Threads \cup {NIL}]
  /\ pred \in [Threads -> Threads \cup {NIL}]
  /\ ahead \in [Threads -> SUBSET Threads]

\* ahead is a strict order of the members, and total.
Ordered ==
  /\ \A t \in Threads : IF Member(t)
                        THEN \A u \in ahead[t] : Member(u) /\ ahead[u] \subseteq ahead[t]
                        ELSE ahead[t] = {}
  /\ \A t, u \in Threads : Member(t) /\ Member(u) =>
       (t \in ahead[u] <=> t # u /\ u \notin ahead[t])

\* L is the last of them.
LastIsL ==
  IF L = NIL THEN \A t \in Threads : ~Member(t)
  ELSE Member(L) /\ \A t \in Threads \ {L} : Member(t) => t \in ahead[L]

\* Between its swap and its link a thread knows the node before its own, but
\* that node does not know it.
Unlinked ==
  \A t \in Threads : at[t] \in {"flag", "link"} =>
    IF pred[t] = NIL THEN at[t] = "flag" /\ ahead[t] = {}
    ELSE Follows(t, pred[t]) /\ next[pred[t]] = NIL

\* A link leads to the next thread, which spins with its flag set.
Linked ==
  \A t \in Threads : Member(t) /\ next[t] # NIL =>
    at[next[t]] = "spin" /\ flag[next[t]] /\ Follows(next[t], t)

\* A thread holds the lock, or sees its flag cleared, only at the front.
AtFront ==
  \A t \in Threads :
    /\ at[t] = "link" => flag[t]
    /\ Holds(t) \/ (at[t] = "spin" /\ ~flag[t]) => ahead[t] = {}
    /\ at[t] = "swap" => next[t] = NIL
    /\ at[t] = "pass" => next[t] # NIL

\* The queue is in one piece although links are made long after the swaps.
FifoInv ==
  FifoType /\ Ordered /\ LastIsL /\ Unlinked /\ Linked /\ AtFront
=============================================================================
