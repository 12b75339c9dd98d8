---------------------------- MODULE ExperimentsInv ----------------------------
(***************************************************************************)
(* The inductive invariant of the experiment programs.                     *)
(***************************************************************************)
EXTENDS Experiments

\* The threads that a run makes: its workers, and the killer if it has one.
Crew == 0 .. Parties - 1

Before  == {"unborn", "born", "arrive", "parked"}
Leaving == {"finish", "reparked"}
Left    == {"read", "exit"}

\* Threads are made in the order of their numbers.
Born ==
  /\ spawned <= Parties
  /\ main = "spawn" => spawned < Parties
  /\ \A t \in Threads : t >= spawned => pc[t] = "unborn"

\* Nobody passes a barrier before all have come to it.
Barrier ==
  /\ \A t \in parked : pc[t] \in {"parked", "reparked"}
  /\ \A t, u \in Crew : pc[t] \in Before \/ pc[u] \notin Before
  /\ Timing => \A t, u \in Crew : pc[t] \in Left => pc[u] \in Left

\* Who may be where.
Places ==
  \A t \in Threads :
    /\ pc[t] \in InLoop \cup {"start"} => t \in Workers
    /\ pc[t] \in Leaving \cup {"read"} => Timing
    /\ pc[t] \in {"sleep", "after"} => ~Timing
    /\ pc[t] = "lock" => Locked
    /\ Timing /\ pc[t] \in InLoop \ {"test"} => op[t] \in Roles(t)
    /\ Timing /\ pc[t] \in Leaving \cup Left =>
         \A o \in Roles(t) : counter[Key(o)] >= Limit

Holding(t) ==
  Locked /\ (pc[t] \in {"operate", "pop", "unlock"} \/ (pc[t] = "count" /\ op[t] = POP))

\* The lock is held by the thread that is in the locked part of its loop.
LockHeld ==
  /\ at = [t \in Threads |-> IF pc[t] = "lock" THEN "tas"
                             ELSE IF Holding(t) THEN "in" ELSE "out"]
  /\ \A t \in Threads : Holding(t) => word = 1
  /\ \A t, u \in Threads : Holding(t) /\ Holding(u) => t = u
  /\ \A t \in Threads : pc[t] = "pop" => Locked /\ ~Shoves /\ op[t] = POP /\ items > 0

\* A thread has begun an operation that a counter does not show yet.
Owes(t) ==
  \/ pc[t] \in {"lock", "operate", "pop", "count"}
  \/ pc[t] = "unlock" /\ op[t] = PUSH

Underway(o) == {t \in Team(o) : Key(op[t]) = Key(o) /\ Owes(t)}

\* What is counted and what is still to be counted.
Share(o) ==
  IF Limit = 0 THEN counter[Key(o)] = 0 /\ Underway(o) = {}
  ELSE counter[Key(o)] + Cardinality(Underway(o)) <= Limit - 1 + Cardinality(Team(o))

Shares == Timing => \A o \in Op : Share(o)

\* A popper alone finds nothing to pop.
Alone ==
  run.thread_count = 1 /\ Timing /\ run.workflow # RANDOM /\ Limit > 0 =>
    /\ items = 0
    /\ counter[POP] = 0
    /\ pc[0] \in Before \cup {"start", "test", "lock", "operate", "unlock"}

\* The clock was read by thread 0 after the last barrier, and main is done
\* when the threads it joins are.
Finished ==
  /\ \A t \in Threads : pc[t] = "read" => t = 0
  /\ timer = "read" => Timing /\ pc[0] = "exit"
  /\ main = "done" => pc[0] = "exit"

\* Where an operation is being done, what it is and how it may have ended.
Doing ==
  \A t \in Threads :
    /\ pc[t] = "unlock" => Locked
    /\ pc[t] = "count" => Timing
    /\ pc[t] = "after" => Shoves
    /\ Shoves /\ pc[t] \in {"lock", "operate", "unlock", "after"} =>
         op[t] = Chosen(t, end[t])
    /\ Shoves /\ pc[t] \in {"unlock", "after"} =>
         ret[t] \in {OK, IF op[t] = PUSH THEN FULL ELSE EMPTY}

\* The throughput runs under the lock: a pop is counted twice as soon as it
\* has been released, and once before.
Releasing(o) == {t \in Workers : op[t] = o /\ pc[t] = "unlock"}

Doubled ==
  Locked /\ ~Timing /\ ~Shoves =>
    Total(POP) + Cardinality(Releasing(POP)) >=
      2 * (Total(PUSH) + Cardinality(Releasing(PUSH)) - items)

\* A throughput run is done when all of its workers are.
Ended == main = "done" /\ ~Timing => \A t \in Workers : pc[t] = "exit"

IInv ==
  /\ TypeOK
  /\ Born /\ Barrier /\ Places /\ LockHeld /\ Shares /\ Alone /\ Finished
  /\ Doing /\ Conserved /\ Doubled /\ Ended
=============================================================================
