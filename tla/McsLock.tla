------------------------------- MODULE McsLock -------------------------------
(***************************************************************************)
(* The MCS lock: a linked queue of the threads' own nodes.  L points to    *)
(* the last node; a thread spins on the flag in its node until the thread  *)
(* before it clears it.  A thread's node is named by the thread.           *)
(***************************************************************************)
EXTENDS LockClients

CONSTANT NIL      \* the null pointer
ASSUME NilAssumption == NIL \notin Threads

VARIABLES
  L,          \* the lock word: the last node of the queue
  flag, next, \* the fields of the nodes
  pred        \* mcs_acquire's pred

mcsVars == <<at, L, flag, next, pred>>

McsAcquire(t) == at[t] = "out" /\ Move(t, "clear") /\ UNCHANGED <<L, flag, next, pred>>

\* Mutant of McsClear: the successor of the last time is left in the node.
NextLeft(t) == at[t] = "clear" /\ Move(t, "swap") /\ UNCHANGED <<L, flag, next, pred>>

\* I->next = 0
McsClear(t) ==
  /\ at[t] = "clear"
  /\ next' = [next EXCEPT ![t] = NIL]
  /\ Move(t, "swap")
  /\ UNCHANGED <<L, flag, pred>>

\* pred = swap(L, I)
McsSwap(t) ==
  /\ at[t] = "swap"
  /\ pred' = [pred EXCEPT ![t] = L]
  /\ L' = t
  /\ Move(t, "flag")
  /\ UNCHANGED <<flag, next>>

\* Mutant of McsFlag: the flag is left as it was.
McsFlagLeft(t) ==
  /\ at[t] = "flag"
  /\ Move(t, IF pred[t] = NIL THEN "in" ELSE "link")
  /\ UNCHANGED <<L, flag, next, pred>>

\* The lock was free, or I->flag = true
McsFlag(t) ==
  /\ at[t] = "flag"
  /\ \/ pred[t] = NIL /\ Move(t, "in") /\ UNCHANGED flag
     \/ pred[t] # NIL /\ Move(t, "link") /\ flag' = [flag EXCEPT ![t] = TRUE]
  /\ UNCHANGED <<L, next, pred>>

\* pred->next = I
McsLink(t) ==
  /\ at[t] = "link"
  /\ next' = [next EXCEPT ![pred[t]] = t]
  /\ Move(t, "spin")
  /\ UNCHANGED <<L, flag, pred>>

McsSpin(t) ==
  /\ at[t] = "spin"
  /\ ~flag[t]
  /\ Move(t, "in")
  /\ UNCHANGED <<L, flag, next, pred>>

\* I->next == 0: nobody has linked to this node yet.
McsRelease(t) ==
  /\ at[t] = "in"
  /\ Move(t, IF next[t] = NIL THEN "detach" ELSE "pass")
  /\ UNCHANGED <<L, flag, next, pred>>

\* Mutant of McsDetach: L is cleared without comparing.
DetachBlind(t) ==
  /\ at[t] = "detach"
  /\ L' = NIL /\ Move(t, "out")
  /\ UNCHANGED <<flag, next, pred>>

\* bool_cas(L, I, 0) empties the queue, or somebody is about to link.
McsDetach(t) ==
  /\ at[t] = "detach"
  /\ \/ L = t /\ L' = NIL /\ Move(t, "out")
     \/ L # t /\ UNCHANGED L /\ Move(t, "await")
  /\ UNCHANGED <<flag, next, pred>>

McsAwait(t) ==
  /\ at[t] = "await"
  /\ next[t] # NIL
  /\ Move(t, "pass")
  /\ UNCHANGED <<L, flag, next, pred>>

\* I->next->flag = false; nobody writes I->next any more.
McsPass(t) ==
  /\ at[t] = "pass"
  /\ flag' = [flag EXCEPT ![next[t]] = FALSE]
  /\ Move(t, "out")
  /\ UNCHANGED <<L, next, pred>>

\* The nodes are not initialised before mcs_acquire.
McsInit ==
  /\ ClientsInit
  /\ L = NIL
  /\ flag \in [Threads -> BOOLEAN]
  /\ next \in [Threads -> Threads \cup {NIL}]
  /\ pred = [t \in Threads |-> NIL]

McsStep(t) ==
  \/ McsClear(t) \/ McsSwap(t) \/ McsFlag(t) \/ McsLink(t) \/ McsSpin(t)
  \/ McsRelease(t) \/ McsDetach(t) \/ McsAwait(t) \/ McsPass(t)

McsNext == \E t \in Threads : McsAcquire(t) \/ McsStep(t)

McsSpec == McsInit /\ [][McsNext]_mcsVars
=============================================================================
