------------------------------ MODULE SpinLocks ------------------------------
(***************************************************************************)
(* Threads that share one lock of atomic_ops.h, of any of the three kinds, *)
(* and the specifications that the kinds implement.                        *)
(***************************************************************************)
EXTENDS TasLock, TicketLock, McsLockFifo

VARIABLE kind     \* the lock the program was written with

lockVars == <<fifoVars, word, dispenser, ticket, served, kind>>

TasOnly    == UNCHANGED <<dispenser, ticket, served, L, flag, next, pred, ahead, kind>>
TicketOnly == UNCHANGED <<word, L, flag, next, pred, ahead, kind>>
McsOnly    == UNCHANGED <<word, dispenser, ticket, served, kind>>

Init ==
  /\ kind \in {"tas", "ticket", "mcs"}
  /\ TasInit /\ TicketInit /\ FifoInit
  /\ kind # "ticket" => next_ticket = 0
  /\ kind # "mcs" => \A t \in Threads : ~flag[t] /\ next[t] = NIL

Call(t) ==
  \/ kind = "tas" /\ TasCall(t) /\ TasOnly
  \/ kind = "ticket" /\ TicketAcquire(t) /\ TicketOnly
  \/ kind = "mcs" /\ McsAcquire(t) /\ Record /\ McsOnly

Step(t) ==
  \/ kind = "tas" /\ TasStep(t) /\ TasOnly
  \/ kind = "ticket" /\ TicketStep(t) /\ TicketOnly
  \/ kind = "mcs" /\ McsStep(t) /\ Record /\ McsOnly

Next == \E t \in Threads : Call(t) \/ Step(t)

\* A thread that has called acquire is scheduled again and again until it
\* has released the lock; nothing is said of which of two exchanges wins.
Fairness == \A t \in Threads : WF_lockVars(Step(t))

Spec == Init /\ [][Next]_lockVars /\ Fairness
-----------------------------------------------------------------------------
(* Properties *)

\* The inductive invariant of the lock in use.
LockInv ==
  /\ kind = "tas" => TasInv
  /\ kind = "ticket" => TicketInv
  /\ kind = "mcs" => FifoInv

MutexPhase(t) ==
  IF Holds(t) THEN "in" ELSE IF Waiting(t) THEN "trying" ELSE "out"

QueuePhase(t) ==
  IF kind = "tas" \/ at[t] = "out" THEN "out"
  ELSE IF at[t] \in Trying THEN "trying"
  ELSE IF at[t] \in Queued THEN "queued" ELSE "in"

QueueAhead ==
  IF kind = "ticket" THEN TicketAhead
  ELSE IF kind = "mcs" THEN ahead ELSE [t \in Threads |-> {}]

M == INSTANCE Mutex WITH phase <- [t \in Threads |-> MutexPhase(t)]
F == INSTANCE FairMutex WITH phase <- [t \in Threads |-> QueuePhase(t)],
                            ahead <- QueueAhead

\* Every kind of lock is a mutex: seen through where the threads are, each
\* step enters a free lock, leaves it, or changes nothing.
IsMutex == M!Spec

\* The ticket and the MCS lock serve in the order of the drawn numbers and
\* of the swaps: a thread enters only when all that joined before have left.
IsFair == F!Spec

\* Somebody waits, so somebody will hold the lock: no hand-over, failed
\* exchange or half-made link can leave a free lock with nobody entering.
Progress == (\E t \in Threads : Waiting(t)) ~> (\E t \in Threads : Holds(t))

\* A thread whose turn is fixed gets the lock, and with MCS, whose first
\* exchange cannot fail, so does every thread that tries.  (The loop of fai
\* and the test-and-set lock may starve a thread.)
TurnComes ==
  \A t \in Threads :
    (at[t] \in Queued \cup {"clear", "swap"}) ~> (at[t] = "in")
=============================================================================
