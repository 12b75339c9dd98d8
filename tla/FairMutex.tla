------------------------------ MODULE FairMutex ------------------------------
(***************************************************************************)
(* What the ticket and the MCS lock promise beyond mutual exclusion: once  *)
(* a thread has joined the queue, it is overtaken by nobody.               *)
(***************************************************************************)
CONSTANT Threads

VARIABLES
  phase,   \* of each thread: "out", "trying", "queued" or "in"
  ahead    \* the threads that joined before it and have not left

fvars == <<phase, ahead>>

Turn(t, ph) == phase' = [phase EXCEPT ![t] = ph]

Request(t) == phase[t] = "out" /\ Turn(t, "trying") /\ UNCHANGED ahead

Join(t) ==
  /\ phase[t] = "trying"
  /\ Turn(t, "queued")
  /\ ahead' = [ahead EXCEPT ![t] = {u \in Threads : phase[u] \in {"queued", "in"}}]

Enter(t) == phase[t] = "queued" /\ ahead[t] = {} /\ Turn(t, "in") /\ UNCHANGED ahead

Leave(t) ==
  /\ phase[t] = "in"
  /\ Turn(t, "out")
  /\ ahead' = [u \in Threads |-> ahead[u] \ {t}]

Init ==
  /\ phase = [t \in Threads |-> "out"]
  /\ ahead = [t \in Threads |-> {}]

Next == \E t \in Threads : Request(t) \/ Join(t) \/ Enter(t) \/ Leave(t)

Spec == Init /\ [][Next]_fvars
=============================================================================
