-------------------------- MODULE MCBoundedDequeSolo --------------------------
(* One thread of the bounded deque running alone, on a small instance. *)
EXTENDS BoundedDequeSolo

CONSTANTS t1, t2, a

Random == End \X Op

\* Memory next to the array: a null of either kind or any other pointer.
Garbage == {[value |-> v, count |-> 0] : v \in Value}
=============================================================================
