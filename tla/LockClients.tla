----------------------------- MODULE LockClients -----------------------------
(***************************************************************************)
(* What the locks of atomic_ops.h have in common: the threads that use a   *)
(* lock, and where each of them is in the lock's code.  at[t] names the    *)
(* access to shared memory that t performs next: a label of the acquire    *)
(* or the release function of one lock, "in" between the two calls, or     *)
(* "out" when t has nothing to do with the lock.                           *)
(***************************************************************************)
CONSTANT Threads

VARIABLE at

\* In the acquire function, before the access that fixes t's turn.
Trying  == {"tas", "look", "tatas", "load", "cas", "clear", "swap"}
\* In the acquire function, with its turn fixed.
Queued  == {"wait", "flag", "link", "spin"}
\* Between the calls, or in the release function.
Holding == {"in", "serve", "detach", "await", "pass"}

Waiting(t) == at[t] \in Trying \cup Queued
Holds(t)   == at[t] \in Holding
Member(t)  == at[t] \in Queued \cup Holding

Move(t, label) == at' = [at EXCEPT ![t] = label]

ClientsInit == at = [t \in Threads |-> "out"]

\* No two threads are between acquire and release, however many threads
\* compete and wherever in the code of the lock each of them was stopped.
MutualExclusion == \A t, u \in Threads : Holds(t) /\ Holds(u) => t = u
=============================================================================
