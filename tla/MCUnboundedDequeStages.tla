------------------------ MODULE MCUnboundedDequeStages ------------------------
(* The unbounded deque, filled and drained, on small instances. *)
EXTENDS UnboundedDequeLin, UnboundedDequeChain, TLC

CONSTANTS t1, t2, a, b, b0, b1, b2

Random == End \X Op

\* The first call is a push, made alone; the others come as they like.
\* Its element is a, the others are b.
Opened ==
  \A t \in Threads : pc[t] = "idle" /\ pc'[t] # "idle" =>
    /\ calls = 0 => op'[t] = PUSH
    /\ calls = 1 => AllIdle
    /\ op'[t] = PUSH => elt'[t] = IF calls = 0 THEN a ELSE b

OpenedSpec == LinInit /\ [][LinNext /\ Opened]_lvars

Symmetric == Permutations(Threads) \cup Permutations(Buffers \ {Root})
=============================================================================
