--------------------------- MODULE MCUnboundedDeque ---------------------------
(* The unbounded deque, used in any way, on small instances. *)
EXTENDS UnboundedDequeLin, TLC

CONSTANTS t1, t2, a, b0, b1, b2

Random == End \X Op

FreeNext == Next /\ Atomic!Witness /\ UNCHANGED stage

\* The calls of a behaviour: t2 makes one pop, after the third call, and t1
\* all the others.
Scripted(script) ==
  \A t \in Threads : pc[t] = "idle" /\ pc'[t] # "idle" =>
    /\ <<end'[t], op'[t]>> = script[calls + 1]
    /\ t = IF calls = 3 THEN t2 ELSE t1

Begun == << <<LEFT, PUSH>>, <<LEFT, PUSH>>, <<LEFT, POP>>, <<LEFT, POP>> >>
Stack == Begun \o << <<LEFT, POP>>, <<LEFT, PUSH>> >>
Both  == Begun \o << <<LEFT, PUSH>>, <<RIGHT, POP>> >>

FreeSpec  == LinInit /\ [][FreeNext]_lvars
StackSpec == LinInit /\ [][FreeNext /\ Scripted(Stack)]_lvars
BothSpec  == LinInit /\ [][FreeNext /\ Scripted(Both)]_lvars

Symmetric == Permutations(Threads) \cup Permutations(Buffers \ {Root})
=============================================================================
