---------------------------- MODULE MCBoundedDeque ----------------------------
(* The bounded deque, and its atomic counterpart, on small instances. *)
EXTENDS BoundedDequeHeads, BoundedDequeLin, TLC

CONSTANTS t1, t2, t3, a, b

\* The workload of the stress test, and the stack of the experiments.
Random     == End \X Op
RightStack == {RIGHT} \X Op

\* Memory next to the array: a null of either kind or any other pointer.
Garbage == {[value |-> v, count |-> 0] : v \in Value}

Symmetric == Permutations(Threads) \cup Permutations(Elts)
=============================================================================
