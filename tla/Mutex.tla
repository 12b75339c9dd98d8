-------------------------------- MODULE Mutex --------------------------------
(***************************************************************************)
(* What every lock promises: of the threads that are trying, one at a time *)
(* holds it.                                                               *)
(***************************************************************************)
CONSTANT Threads

VARIABLE phase   \* of each thread: "out", "trying" or "in"

Request(t) ==
  /\ phase[t] = "out"
  /\ phase' = [phase EXCEPT ![t] = "trying"]

Enter(t) ==
  /\ phase[t] = "trying"
  /\ \A u \in Threads : phase[u] # "in"
  /\ phase' = [phase EXCEPT ![t] = "in"]

Leave(t) ==
  /\ phase[t] = "in"
  /\ phase' = [phase EXCEPT ![t] = "out"]

Init == phase = [t \in Threads |-> "out"]

Next == \E t \in Threads : Request(t) \/ Enter(t) \/ Leave(t)

Spec == Init /\ [][Next]_phase
=============================================================================
