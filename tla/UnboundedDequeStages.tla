-------------------------- MODULE UnboundedDequeStages --------------------------
(***************************************************************************)
(* The unbounded deque as its tests use it: threads fill it together, then *)
(* drain it together, and it is cleared; or it is used by one thread at a  *)
(* time.  Pushes and pops that overlap break the chain.                    *)
(***************************************************************************)
EXTENDS UnboundedDeque

\* "fill" until the first pop after a clear; then "drain" while pops are under
\* way, "refill" while a push is made alone.
VARIABLE stage

svars == <<vars, stage>>

AllIdle == \A t \in Threads : pc[t] = "idle"

\* Which calls the clients make, and when.
Admit(t) ==
  IF op'[t] = PUSH
  THEN /\ stage = "fill" \/ AllIdle
       /\ stage' = IF stage = "fill" THEN stage ELSE "refill"
  ELSE /\ stage = "drain" \/ AllIdle
       /\ stage' = "drain"

StagedInit == Init /\ stage = "fill"

StagedNext ==
  /\ Running
  /\ \/ Clear /\ stage' = "fill"
     \/ \E t \in Threads : Call(t) /\ Admit(t)
     \/ \E t \in Threads : CountRoom(t) /\ Step(t) /\ UNCHANGED stage

StagedSpec == StagedInit /\ [][StagedNext]_svars
=============================================================================
