--------------------------- MODULE ExperimentsProofs ---------------------------
(***************************************************************************)
(* Proofs about the experiment programs, for any number of threads, any    *)
(* set of options and any number of operations.                            *)
(***************************************************************************)
EXTENDS ExperimentsInv, FiniteSetTheorems, TLAPS

\* What the options of a run are.
LEMMA RunFacts ==
  ASSUME TypeOK
  PROVE  /\ MaxThreads \in Nat \ {0} /\ run.thread_count \in 1 .. MaxThreads
         /\ Timing \in BOOLEAN /\ Locked \in BOOLEAN /\ Shoves \in BOOLEAN
         /\ Timing => ~Shoves
         /\ Parties = run.thread_count + Boost /\ Boost \in {0, 1}
         /\ Timing => Parties = run.thread_count
         /\ Parties \in 1 .. MaxThreads + 1
         /\ 0 \in Workers /\ Workers \subseteq Crew /\ Crew \subseteq Threads
         /\ OpCount \in Nat /\ Limit \in Nat
<1>1. run \in Options /\ (run.workflow = SHOVE => run.experiment = THROUGHPUT)
  BY CommandsAssumption DEF TypeOK
<1>2. MaxThreads \in Nat \ {0} /\ run.thread_count \in 1 .. MaxThreads
  BY <1>1, ThreadsAssumption DEF Options
<1>3. OpCount \in Nat
  <2>1. \A m, n \in Nat : m * n \in Nat
    OBVIOUS
  <2>2. QED
    BY <1>2, <2>1, NumbersAssumption DEF OpCount
<1>4. Limit \in Nat
  BY <1>3 DEF Limit
<1>5. QED
  BY <1>1, <1>2, <1>3, <1>4
     DEF Timing, Locked, Shoves, Parties, Boost, Workers, Crew, Threads, Options, TIMING,
         THROUGHPUT

\* No step changes the options, nor what follows from them.
LEMMA RunKept ==
  ASSUME [Next]_vars
  PROVE  /\ run' = run /\ Timing' = Timing /\ Locked' = Locked /\ Shoves' = Shoves
         /\ Parties' = Parties /\ Crew' = Crew /\ Workers' = Workers
         /\ Limit' = Limit /\ \A o : Key(o)' = Key(o) /\ Team(o)' = Team(o)
         /\ \A t : Roles(t)' = Roles(t)
<1>1. run' = run
  BY DEF Next, Step, Nonblock, Rest, Spawn, Join, ReadArgs, Arrive, Clock, Kill, TimingTest,
         ThroughputTest, Count, Acquire, MutexRelease, ShoveTest, ShoveRelease, ShoveAfter,
         NonblockOperate, MutexOperate, MutexPop, ShoveNonblock, ShoveMutex, vars
<1>2. QED
  BY <1>1 DEF Timing, Locked, Shoves, Parties, Boost, Crew, Workers, Limit, OpCount, Key, Team,
              Roles

\* Where a thread may be.
Label ==
  {"unborn", "born", "arrive", "parked", "start", "sleep", "finish", "reparked", "read",
   "exit"} \cup InLoop

LEMMA ScoreType ==
  ASSUME NEW t \in Threads, NEW n \in Nat, TypeOK, Score(t, n)
  PROVE  tally' \in [Threads -> [Op -> Nat]]
<1>1. op[t] \in Op /\ tally[t] \in [Op -> Nat] /\ tally \in [Threads -> [Op -> Nat]]
  BY DEF TypeOK
<1>2. [tally[t] EXCEPT ![op[t]] = @ + n] \in [Op -> Nat]
  BY <1>1
<1>3. tally' = [tally EXCEPT ![t] = [tally[t] EXCEPT ![op[t]] = @ + n]]
  BY DEF Score
<1>4. QED
  BY <1>1, <1>2, <1>3

LEMMA BeginType ==
  ASSUME NEW t \in Threads, NEW e \in End, NEW o \in Op, TypeOK, Begin(t, e, o)
  PROVE  /\ pc' \in [Threads -> Label] /\ op' \in [Threads -> Op] /\ end' \in [Threads -> End]
         /\ at' \in [Threads -> {"out", "tas", "in"}] /\ word' \in {0, 1}
  BY DEF Begin, Goto, Lock!TasAcquire, Lock!Move, TypeOK, lock, InLoop, Label

\* An answer leaves as many elements and as much room as there were.
LEMMA ApplyType ==
  ASSUME NEW t \in Threads, NEW stat \in Answers(t), TypeOK, Apply(t, stat)
  PROVE  stat \in {OK, EMPTY, FULL} /\ items' \in Nat /\ room' \in [End -> Nat]
<1>1. end[t] \in End /\ op[t] \in {PUSH, POP} /\ room[end[t]] \in Nat /\ items \in Nat
  BY DEF TypeOK, Op
<1>2. stat \in {OK, EMPTY, FULL}
  BY DEF Answers
<1>3. CASE stat = OK /\ op[t] = PUSH
  <2>1. room[end[t]] # 0
    BY <1>3 DEF Answers, OK, FULL
  <2>2. QED
    <3>1. items' = items + 1 /\ room' = [room EXCEPT ![end[t]] = room[end[t]] - 1]
      BY <1>3 DEF Apply
    <3>2. room[end[t]] - 1 \in Nat /\ room \in [End -> Nat]
      BY <1>1, <2>1 DEF TypeOK
    <3>3. QED
      BY <1>1, <1>2, <3>1, <3>2
<1>4. CASE stat = OK /\ op[t] = POP
  <2>1. items # 0
    BY <1>4 DEF Answers, OK, EMPTY, PUSH, POP
  <2>2. QED
    BY <1>1, <1>2, <1>4, <2>1 DEF Apply, TypeOK, PUSH, POP
<1>5. CASE stat # OK
  BY <1>2, <1>5 DEF Apply, TypeOK, deque
<1>6. QED
  BY <1>1, <1>3, <1>4, <1>5

LEMMA ShoveOnType ==
  ASSUME NEW t \in Threads, NEW stat, TypeOK, ShoveOn(t, stat)
  PROVE  /\ shove' \in [Threads -> [End -> BOOLEAN]] /\ tally' \in [Threads -> [Op -> Nat]]
         /\ pc' \in [Threads -> Label] /\ op' \in [Threads -> Op] /\ end' \in [Threads -> End]
         /\ at' \in [Threads -> {"out", "tas", "in"}] /\ word' \in {0, 1}
<1>1. shove' \in [Threads -> [End -> BOOLEAN]]
  <2>1. end[t] \in End /\ shove[t] \in [End -> BOOLEAN] /\ shove \in [Threads -> [End -> BOOLEAN]]
    BY DEF TypeOK
  <2>2. [shove[t] EXCEPT ![end[t]] = IF stat = OK THEN @ ELSE ~@] \in [End -> BOOLEAN]
    BY <2>1
  <2>3. shove' = [shove EXCEPT ![t] =
                    [shove[t] EXCEPT ![end[t]] = IF stat = OK THEN @ ELSE ~@]]
    BY DEF ShoveOn
  <2>4. QED
    BY <2>1, <2>2, <2>3
<1>2. tally' \in [Threads -> [Op -> Nat]]
  BY ScoreType DEF ShoveOn
<1>3. CASE end[t] = LEFT
  <2>1. Begin(t, RIGHT, Chosen(t, RIGHT)) /\ Chosen(t, RIGHT) \in Op /\ RIGHT \in End
    BY <1>3 DEF ShoveOn, Chosen, Op, End
  <2>2. QED
    BY <1>1, <1>2, <2>1, BeginType
<1>4. CASE end[t] # LEFT
  BY <1>1, <1>2, <1>4 DEF ShoveOn, Goto, TypeOK, lock, InLoop, Label
<1>5. QED
  BY <1>3, <1>4

LEMMA TypeNext == IInv /\ [Next]_vars => TypeOK'
<1> SUFFICES ASSUME IInv, [Next]_vars PROVE TypeOK'
  OBVIOUS
<1>0. TypeOK /\ Born /\ LockHeld
  BY DEF IInv
<1> USE <1>0 DEF Goto
<1>1. CASE Spawn
  <2>1. spawned \in Threads /\ spawned + 1 \in Threads \cup {MaxThreads + 1}
    <3>1. Parties \in 1 .. MaxThreads + 1 /\ MaxThreads \in Nat
      BY RunFacts
    <3>2. spawned \in 0 .. MaxThreads + 1 /\ spawned < Parties
      BY <1>1, <3>1 DEF Spawn, Born, Threads, TypeOK
    <3>3. QED
      BY <3>1, <3>2 DEF Threads
  <2>2. pc' \in [Threads -> Label] /\ main' \in {"spawn", "join", "done"}
    BY <1>1, <2>1 DEF Spawn, TypeOK, Label
  <2>3. QED
    BY <1>1, <2>1, <2>2 DEF Spawn, TypeOK, Label, lock, deque, scores
<1>2. CASE Join
  BY <1>2 DEF Join, TypeOK, lock, deque, scores
<1>3. ASSUME NEW t \in Threads, ReadArgs(t) PROVE TypeOK'
  BY <1>3 DEF ReadArgs, TypeOK, control, lock, deque, scores, InLoop
<1>4. ASSUME NEW t \in Threads, Arrive(t) PROVE TypeOK'
  <2>1. \A u \in Threads : Beyond(u) \in Label
    BY DEF Beyond, Label, InLoop
  <2>2. pc' \in [Threads -> Label] /\ parked' \subseteq Threads
    <3>1. pc \in [Threads -> Label]
      BY DEF TypeOK, Label
    <3>2. pc' = [u \in Threads |-> IF u \in parked \cup {t} THEN Beyond(u) ELSE pc[u]]
            \/ pc' = [pc EXCEPT ![t] = IF pc[t] = "arrive" THEN "parked" ELSE "reparked"]
      BY <1>4 DEF Arrive
    <3>3. parked' = {} \/ parked' = parked \cup {t}
      BY <1>4 DEF Arrive
    <3>4. QED
      BY <2>1, <3>1, <3>2, <3>3 DEF TypeOK, Label
  <2>3. QED
    BY <1>4, <2>2 DEF Arrive, TypeOK, Label, lock, deque, scores
<1>5. ASSUME NEW t \in Threads, Clock(t) PROVE TypeOK'
  BY <1>5 DEF Clock, TypeOK, lock, deque, scores, InLoop
<1>6. ASSUME NEW t \in Threads, Kill(t) PROVE TypeOK'
  BY <1>6 DEF Kill, TypeOK, lock, deque, scores, InLoop
<1>7. ASSUME NEW t \in Threads, TimingTest(t) PROVE TypeOK'
  BY <1>7 DEF TimingTest, Begin, LeaveLoop, Roles, Lock!TasAcquire, Lock!Move, TypeOK, control, lock,
     deque, scores, InLoop, Op, End
<1>8. ASSUME NEW t \in Threads, ThroughputTest(t) PROVE TypeOK'
  BY <1>8 DEF ThroughputTest, Begin, LeaveLoop, Roles, Lock!TasAcquire, Lock!Move, TypeOK, control,
     lock, deque, scores, InLoop, Op, End
<1>9. ASSUME NEW t \in Threads, Count(t) PROVE TypeOK'
  <2>1. Key(op[t]) \in {"all"} \cup Op
    BY DEF Key, TypeOK
  <2>2. counter' \in [{"all"} \cup Op -> Nat]
    BY <1>9, <2>1 DEF Count, TypeOK
  <2>3. QED
    BY <1>9, <2>2 DEF Count, TypeOK, control, lock, deque, InLoop
<1>10. ASSUME NEW t \in Threads, Acquire(t) PROVE TypeOK'
  BY <1>10 DEF Acquire, Lock!Tas, Lock!Found, Lock!Move, TypeOK, control, lock, deque, scores, InLoop
<1>11. ASSUME NEW t \in Threads, MutexRelease(t) PROVE TypeOK'
  <2>1. tally' \in [Threads -> [Op -> Nat]]
    BY <1>11, ScoreType DEF MutexRelease, TypeOK
  <2>2. QED
    BY <1>11, <2>1 DEF MutexRelease, Lock!TasRelease, Lock!Move, TypeOK, control, deque, InLoop
<1>12. ASSUME NEW t \in Threads, ShoveTest(t) PROVE TypeOK'
  BY <1>12 DEF ShoveTest, Begin, LeaveLoop, Chosen, Lock!TasAcquire, Lock!Move, TypeOK, control, lock,
     deque, scores, InLoop, Op, End
<1>13. ASSUME NEW t \in Threads, ShoveRelease(t) PROVE TypeOK'
  BY <1>13 DEF ShoveRelease, Lock!TasRelease, Lock!Move, TypeOK, control, lock, deque, scores, InLoop
<1>14. ASSUME NEW t \in Threads, ShoveAfter(t) PROVE TypeOK'
  BY <1>14, ShoveOnType DEF ShoveAfter, TypeOK, Label, control, deque
<1>15. ASSUME NEW t \in Threads, NonblockOperate(t) PROVE TypeOK'
  <2>1. tally' \in [Threads -> [Op -> Nat]]
    BY <1>15, ScoreType DEF NonblockOperate, TypeOK
  <2>2. items' \in Nat /\ room' = room
    BY <1>15 DEF NonblockOperate, Take, TypeOK, deque, Op
  <2>3. pc' \in [Threads -> Label]
    BY <1>15 DEF NonblockOperate, TypeOK, Label, InLoop
  <2>4. QED
    BY <1>15, <2>1, <2>2, <2>3 DEF NonblockOperate, TypeOK, Label, control, lock
<1>16. ASSUME NEW t \in Threads, MutexOperate(t) PROVE TypeOK'
  BY <1>16 DEF MutexOperate, Take, TypeOK, control, lock, deque, scores, InLoop
<1>17. ASSUME NEW t \in Threads, MutexPop(t) PROVE TypeOK'
  <2>1. tally' \in [Threads -> [Op -> Nat]]
    BY <1>17, ScoreType DEF MutexPop, TypeOK
  <2>2. items' \in Nat /\ room' = room
    BY <1>17 DEF MutexPop, Take, LockHeld, TypeOK
  <2>3. QED
    BY <1>17, <2>1, <2>2 DEF MutexPop, TypeOK, control, lock, InLoop
<1>18. ASSUME NEW t \in Threads, ShoveNonblock(t) PROVE TypeOK'
  BY <1>18, ShoveOnType, ApplyType DEF ShoveNonblock, TypeOK, Label, control
<1>19. ASSUME NEW t \in Threads, ShoveMutex(t) PROVE TypeOK'
  BY <1>19, ApplyType DEF ShoveMutex, TypeOK, control, lock, InLoop
<1>20. CASE UNCHANGED vars
  BY <1>20 DEF TypeOK, vars, control, lock, deque, scores
<1>21. QED
  BY <1>1, <1>2, <1>3, <1>4, <1>5, <1>6, <1>7, <1>8, <1>9, <1>10, <1>11, <1>12, <1>13, <1>14,
     <1>15, <1>16, <1>17, <1>18, <1>19, <1>20
     DEF Next, Step, Nonblock, Rest

-----------------------------------------------------------------------------
(* The barriers *)

\* Where a step other than pthread_barrier_wait takes its thread.
LEMMA Moves ==
  ASSUME IInv, NEW t \in Threads, Step(t), ~Arrive(t)
  PROVE  /\ UNCHANGED <<main, spawned, parked>>
         /\ \E l \in Label :
              /\ pc' = [pc EXCEPT ![t] = l]
              /\ \/ pc[t] = "born" /\ l = "arrive"
                 \/ /\ pc[t] \in {"start", "sleep", "read"} \cup InLoop
                    /\ l \in {"finish", "exit"} \cup InLoop
              /\ l \in InLoop => pc[t] \in {"start"} \cup InLoop
              /\ l = "exit" /\ Timing => pc[t] \in {"read", "sleep"}
              /\ pc[t] = "read" => l = "exit"
              /\ pc[t] = "start" => l = "test"
              /\ l = "lock" => Locked
              /\ l = "after" => ~Timing
              /\ l = "finish" => Timing /\ \A o \in Roles(t) : counter[Key(o)] >= Limit
<1> USE DEF Goto, Label, InLoop, control
<1>0. TypeOK /\ pc \in [Threads -> Label] /\ (pc[t] = "lock" => Locked)
  BY DEF IInv, TypeOK, Places
<1>1. CASE ReadArgs(t)
  BY <1>1 DEF ReadArgs
<1>2. CASE Clock(t)
  BY <1>2 DEF Clock
<1>3. CASE Kill(t)
  BY <1>3 DEF Kill
<1>4. CASE TimingTest(t)
  <2>1. CASE \E o \in Roles(t) : MoreWanted(o) /\ Begin(t, LEFT, o)
    BY <1>4, <2>1 DEF TimingTest, Begin
  <2>2. CASE (\A o \in Roles(t) : ~MoreWanted(o)) /\ LeaveLoop(t, "finish")
    <3>1. \A o \in Roles(t) : counter[Key(o)] \in Nat
      BY <1>0 DEF Roles, Key, TypeOK, Op
    <3>2. \A o \in Roles(t) : counter[Key(o)] >= Limit
      BY <2>2, <3>1, <1>0, RunFacts DEF MoreWanted
    <3>3. QED
      BY <1>4, <2>2, <3>2 DEF TimingTest, LeaveLoop
  <2>3. QED
    BY <1>4, <2>1, <2>2 DEF TimingTest
<1>5. CASE ThroughputTest(t)
  BY <1>5 DEF ThroughputTest, Begin, LeaveLoop
<1>6. CASE Count(t)
  <2>1. Goto(t, "unlock") \/ Goto(t, "test")
    BY <1>6 DEF Count
  <2>2. QED
    BY <1>0, <1>6, <2>1 DEF Count
<1>7. CASE Acquire(t)
  <2>1. Goto(t, "operate") \/ Goto(t, "lock")
    BY <1>7 DEF Acquire
  <2>2. QED
    BY <1>0, <1>7, <2>1 DEF Acquire
<1>8. CASE MutexRelease(t)
  BY <1>8 DEF MutexRelease
<1>9. CASE ShoveTest(t)
  BY <1>0, <1>9, RunFacts DEF ShoveTest, Begin, LeaveLoop
<1>10. CASE ShoveRelease(t)
  BY <1>0, <1>10, RunFacts DEF ShoveRelease
<1>11. CASE ShoveAfter(t)
  BY <1>11 DEF ShoveAfter, ShoveOn, Begin
<1>12. CASE NonblockOperate(t)
  BY <1>12 DEF NonblockOperate
<1>13. CASE MutexOperate(t)
  BY <1>13 DEF MutexOperate
<1>14. CASE MutexPop(t)
  BY <1>14 DEF MutexPop
<1>15. CASE ShoveNonblock(t)
  BY <1>15 DEF ShoveNonblock, ShoveOn, Begin
<1>16. CASE ShoveMutex(t)
  BY <1>16 DEF ShoveMutex
<1>17. QED
  BY <1>1, <1>2, <1>3, <1>4, <1>5, <1>6, <1>7, <1>8, <1>9, <1>10, <1>11, <1>12, <1>13, <1>14,
     <1>15, <1>16 DEF Step, Nonblock, Rest

\* A thread waits at the barrier until the last of the crew comes, and then
\* all of them pass together, from the same barrier.
LEMMA ArriveTogether ==
  ASSUME IInv, NEW t \in Threads, Arrive(t)
  PROVE  \/ /\ parked' = {}
            /\ pc' = [u \in Threads |-> IF u \in Crew THEN Beyond(u) ELSE pc[u]]
            /\ \/ pc[t] = "arrive" /\ \A u \in Crew : pc[u] \in {"arrive", "parked"}
               \/ pc[t] = "finish" /\ \A u \in Crew : pc[u] \in Leaving
         \/ /\ parked' = parked \cup {t}
            /\ pc' = [pc EXCEPT ![t] = IF pc[t] = "arrive" THEN "parked" ELSE "reparked"]
<1>0. TypeOK /\ Born /\ Barrier
  BY DEF IInv
<1> DEFINE all == parked \cup {t}
<1>1. pc[t] \in {"arrive", "finish"}
  BY DEF Arrive
<1>2. all \subseteq Crew
  <2>1. \A u \in all : u \in Threads /\ pc[u] # "unborn"
    BY <1>0, <1>1 DEF TypeOK, Barrier
  <2>2. \A u \in all : u \in Nat /\ u < Parties
    BY <1>0, <2>1, RunFacts DEF Born, Threads, TypeOK
  <2>3. QED
    BY <1>0, <2>2, RunFacts DEF Crew
<1>3. CASE Cardinality(all) = Parties
  <2>1. IsFiniteSet(Crew) /\ Cardinality(Crew) = Parties
    BY <1>0, RunFacts, FS_Interval DEF Crew
  <2>2. all = Crew
    BY <1>2, <1>3, <2>1, FS_Subset
  <2>3. \A u \in Crew : u = t \/ pc[u] \in {"parked", "reparked"}
    BY <1>0, <2>2 DEF Barrier
  <2>4. t \in Crew /\ \A u \in Crew : (pc[t] \in Before <=> pc[u] \in Before)
    BY <1>0, <2>2 DEF Barrier
  <2>5. QED
    BY <1>1, <1>3, <2>2, <2>3, <2>4 DEF Arrive, Before, Leaving
<1>4. CASE Cardinality(all) # Parties
  BY <1>4 DEF Arrive, Goto
<1>5. QED
  BY <1>3, <1>4

LEMMA BornNext == IInv /\ [Next]_vars => Born'
<1> SUFFICES ASSUME IInv, [Next]_vars PROVE Born'
  OBVIOUS
<1>0. TypeOK /\ Born /\ Barrier /\ Parties' = Parties
  BY RunKept DEF IInv
<1> spawned \in Nat
  BY <1>0, ThreadsAssumption DEF TypeOK, Threads
<1>1. CASE Spawn
  BY <1>0, <1>1, RunFacts DEF Spawn, Born, TypeOK, Parties, Threads
<1>2. CASE Join
  BY <1>0, <1>2 DEF Join, Born
<1>3. ASSUME NEW t \in Threads, Arrive(t) PROVE Born'
  <2>1. \A u \in Threads : u >= spawned => pc[u] = "unborn" /\ u # t
    BY <1>0, <1>3 DEF Arrive, Born
  <2>2. \A u \in Threads : u >= spawned => pc'[u] = "unborn"
    BY <1>0, <1>3, <2>1, ArriveTogether DEF TypeOK, Leaving
  <2>3. QED
    BY <1>0, <1>3, <2>2 DEF Arrive, Born
<1>4. ASSUME NEW t \in Threads, Step(t), ~Arrive(t) PROVE Born'
  BY <1>0, <1>4, Moves DEF Born, TypeOK, InLoop
<1>5. CASE UNCHANGED vars
  BY <1>0, <1>5 DEF Born, vars, control
<1>6. QED
  BY <1>1, <1>2, <1>3, <1>4, <1>5 DEF Next

LEMMA BarrierNext == IInv /\ [Next]_vars => Barrier'
<1> SUFFICES ASSUME IInv, [Next]_vars PROVE Barrier'
  OBVIOUS
<1>0. /\ TypeOK /\ Born /\ Barrier /\ Places
      /\ Crew' = Crew /\ Timing' = Timing /\ Crew \subseteq Threads
  BY RunKept, RunFacts DEF IInv
<1> USE DEF Before, Left, Leaving
<1>1. CASE Spawn
  <2>1. spawned \in Crew /\ pc[spawned] = "unborn"
    BY <1>0, <1>1, RunFacts DEF Spawn, Born, TypeOK, Crew, Threads
  <2>2. pc' = [pc EXCEPT ![spawned] = "born"] /\ parked' = parked
    BY <1>1 DEF Spawn
  <2>3. QED
    BY <1>0, <2>1, <2>2 DEF Barrier, TypeOK
<1>2. CASE Join
  BY <1>0, <1>2 DEF Join, Barrier
<1>3. ASSUME NEW t \in Threads, Arrive(t) PROVE Barrier'
  <2>1. CASE /\ parked' = {}
             /\ pc' = [u \in Threads |-> IF u \in Crew THEN Beyond(u) ELSE pc[u]]
             /\ pc[t] = "arrive" /\ \A u \in Crew : pc[u] \in {"arrive", "parked"}
    <3>1. \A u \in Crew : pc'[u] \in {"sleep", "start", "test"}
      BY <1>0, <2>1 DEF Beyond
    <3>2. QED
      BY <1>0, <2>1, <3>1 DEF Barrier
  <2>2. CASE /\ parked' = {}
             /\ pc' = [u \in Threads |-> IF u \in Crew THEN Beyond(u) ELSE pc[u]]
             /\ pc[t] = "finish" /\ \A u \in Crew : pc[u] \in Leaving
    <3>1. \A u \in Crew : pc'[u] \in {"read", "exit"}
      BY <1>0, <2>2 DEF Beyond
    <3>2. QED
      BY <1>0, <2>2, <3>1 DEF Barrier
  <2>3. CASE /\ parked' = parked \cup {t}
             /\ pc' = [pc EXCEPT ![t] = IF pc[t] = "arrive" THEN "parked" ELSE "reparked"]
    BY <1>0, <1>3, <2>3 DEF Arrive, Barrier, TypeOK
  <2>4. QED
    BY <1>3, <2>1, <2>2, <2>3, ArriveTogether
<1>4. ASSUME NEW t \in Threads, Step(t), ~Arrive(t) PROVE Barrier'
  <2>1. PICK l \in Label :
          /\ pc' = [pc EXCEPT ![t] = l]
          /\ \/ pc[t] = "born" /\ l = "arrive"
             \/ /\ pc[t] \in {"start", "sleep", "read"} \cup InLoop
                /\ l \in {"finish", "exit"} \cup InLoop
          /\ l = "exit" /\ Timing => pc[t] \in {"read", "sleep"}
          /\ pc[t] = "read" => l = "exit"
    BY <1>4, Moves
  <2>2. parked' = parked /\ t \notin parked
    BY <1>0, <1>4, <2>1, Moves DEF Barrier, InLoop
  <2>3. \A u \in parked : pc'[u] = pc[u]
    BY <1>0, <2>1, <2>2 DEF TypeOK
  <2>4. pc[t] \in Before <=> l \in Before
    BY <2>1 DEF InLoop
  <2>5. Timing => (l \in Left <=> pc[t] \in Left)
    BY <1>0, <2>1 DEF InLoop, Places
  <2>6. \A u \in Crew : pc'[u] = IF u = t THEN l ELSE pc[u]
    BY <1>0, <2>1 DEF TypeOK
  <2>7. QED
    BY <1>0, <2>2, <2>3, <2>4, <2>5, <2>6 DEF Barrier
<1>5. CASE UNCHANGED vars
  BY <1>0, <1>5 DEF Barrier, vars, control
<1>6. QED
  BY <1>1, <1>2, <1>3, <1>4, <1>5 DEF Next

-----------------------------------------------------------------------------
(* Who is in the loop, and in the lock *)

\* What a step of t does to its operation and to the counters.
LEMMA Counts ==
  ASSUME IInv, NEW t \in Threads, Step(t)
  PROVE  /\ \A u \in Threads : u # t => op'[u] = op[u]
         /\ Timing /\ pc[t] # "test" => op' = op
         /\ Timing /\ pc[t] = "test" /\ pc'[t] # "finish" =>
              op'[t] \in Roles(t) /\ MoreWanted(op'[t])
         /\ counter' = IF pc[t] = "count" THEN [counter EXCEPT ![Key(op[t])] = @ + 1]
                                          ELSE counter
<1>0. TypeOK /\ (pc[t] = "after" => ~Timing)
  BY DEF IInv, Places
<1> USE DEF TypeOK, Goto, control, scores, InLoop
<1>1. CASE ReadArgs(t) \/ Arrive(t) \/ Clock(t) \/ Kill(t)
  BY <1>1 DEF ReadArgs, Arrive, Clock, Kill
<1>2. CASE TimingTest(t)
  BY <1>0, <1>2 DEF TimingTest, Begin, LeaveLoop
<1>3. CASE ThroughputTest(t) \/ ShoveTest(t)
  BY <1>0, <1>3, RunFacts DEF ThroughputTest, ShoveTest, Begin, LeaveLoop
<1>4. CASE Count(t) \/ Acquire(t) \/ MutexRelease(t)
  BY <1>4 DEF Count, Acquire, MutexRelease
<1>5. CASE ShoveRelease(t) \/ ShoveMutex(t)
  BY <1>5 DEF ShoveRelease, ShoveMutex
<1>6. CASE ShoveAfter(t) \/ ShoveNonblock(t)
  <2>1. ~Timing
    BY <1>0, <1>6, RunFacts DEF ShoveAfter, ShoveNonblock
  <2>2. ShoveOn(t, ret[t]) \/ \E stat : ShoveOn(t, stat)
    BY <1>6 DEF ShoveAfter, ShoveNonblock
  <2>3. \A u \in Threads : u # t => op'[u] = op[u]
    BY <1>0, <2>2 DEF ShoveOn, Begin
  <2>4. QED
    BY <1>6, <2>1, <2>3 DEF ShoveAfter, ShoveNonblock
<1>7. CASE NonblockOperate(t) \/ MutexOperate(t) \/ MutexPop(t)
  BY <1>7 DEF NonblockOperate, MutexOperate, MutexPop
<1>8. QED
  BY <1>1, <1>2, <1>3, <1>4, <1>5, <1>6, <1>7 DEF Step, Nonblock, Rest

\* Counters do not go back.
LEMMA CountersGrow ==
  ASSUME IInv, NEW t \in Threads, Step(t), NEW o \in Op
  PROVE  counter[Key(o)] \in Nat /\ counter'[Key(o)] \in Nat /\ counter'[Key(o)] >= counter[Key(o)]
<1>1. counter \in [{"all"} \cup Op -> Nat] /\ Key(o) \in {"all"} \cup Op /\ op[t] \in Op
  BY DEF IInv, TypeOK, Key
<1>2. Key(op[t]) \in {"all"} \cup Op
  BY <1>1 DEF Key
<1>3. CASE pc[t] = "count"
  <2>1. counter' = [counter EXCEPT ![Key(op[t])] = @ + 1]
    BY <1>3, Counts
  <2>2. QED
    BY <1>1, <1>2, <2>1
<1>4. CASE pc[t] # "count"
  <2>1. counter' = counter
    BY <1>4, Counts
  <2>2. QED
    BY <1>1, <2>1
<1>5. QED
  BY <1>3, <1>4

LEMMA PlacesNext == IInv /\ [Next]_vars => Places'
<1> SUFFICES ASSUME IInv, [Next]_vars PROVE Places'
  OBVIOUS
<1>0. TypeOK /\ Born /\ Places
  BY DEF IInv
<1>a. /\ Timing' = Timing /\ Locked' = Locked /\ Workers' = Workers /\ Limit' = Limit
      /\ \A o : Key(o)' = Key(o)
      /\ \A u : Roles(u)' = Roles(u)
  BY RunKept
<1>b. \A u \in Threads : Roles(u) \subseteq Op
  BY DEF Roles, Op
<1> USE DEF Leaving, Left
<1>1. CASE Spawn
  <2>1. pc' = [pc EXCEPT ![spawned] = "born"] /\ counter' = counter /\ op' = op
    BY <1>1 DEF Spawn, scores
  <2>2. QED
    BY <1>0, <1>a, <2>1 DEF Places, TypeOK, InLoop
<1>2. CASE Join
  BY <1>0, <1>a, <1>2 DEF Join, Places, scores
<1>3. ASSUME NEW t \in Threads, Arrive(t) PROVE Places'
  <2>0. counter' = counter /\ op' = op
    BY <1>3 DEF Arrive, scores
  <2>1. CASE /\ pc' = [u \in Threads |-> IF u \in Crew THEN Beyond(u) ELSE pc[u]]
             /\ \A u \in Crew : pc[u] \in {"arrive", "parked"}
    <3>1. \A u \in Crew :
            IF u = Killer THEN pc'[u] = "sleep" ELSE pc'[u] \in {"start", "test"}
      BY <1>0, <2>1, RunFacts DEF Beyond
    <3>2. \A u \in Crew : IF u = Killer THEN ~Timing ELSE u \in Workers
      BY <1>0, RunFacts DEF Crew, Killer, Workers
    <3>3. QED
      BY <1>0, <1>a, <2>0, <2>1, <3>1, <3>2 DEF Places, TypeOK, InLoop
  <2>2. CASE /\ pc' = [u \in Threads |-> IF u \in Crew THEN Beyond(u) ELSE pc[u]]
             /\ \A u \in Crew : pc[u] \in Leaving
    <3>1. \A u \in Crew : pc'[u] \in {"read", "exit"}
      BY <1>0, <2>2, RunFacts DEF Beyond
    <3>2. QED
      BY <1>0, <1>a, <2>0, <2>2, <3>1 DEF Places, TypeOK, InLoop
  <2>3. CASE pc' = [pc EXCEPT ![t] = IF pc[t] = "arrive" THEN "parked" ELSE "reparked"]
    BY <1>0, <1>a, <1>3, <2>0, <2>3 DEF Arrive, Places, TypeOK, InLoop
  <2>4. QED
    BY <1>3, <2>1, <2>2, <2>3, ArriveTogether
<1>4. ASSUME NEW t \in Threads, Step(t), ~Arrive(t) PROVE Places'
  <2>1. PICK l \in Label :
          /\ pc' = [pc EXCEPT ![t] = l]
          /\ \/ pc[t] = "born" /\ l = "arrive"
             \/ /\ pc[t] \in {"start", "sleep", "read"} \cup InLoop
                /\ l \in {"finish", "exit"} \cup InLoop
          /\ l \in InLoop => pc[t] \in {"start"} \cup InLoop
          /\ l = "exit" /\ Timing => pc[t] \in {"read", "sleep"}
          /\ l = "finish" => Timing /\ \A o \in Roles(t) : counter[Key(o)] >= Limit
          /\ pc[t] = "start" => l = "test"
          /\ l = "lock" => Locked
          /\ l = "after" => ~Timing
    BY <1>4, Moves
  <2>2. \A u \in Threads, o \in Op : counter[Key(o)] >= Limit => counter'[Key(o)] >= Limit
    BY <1>0, <1>4, RunFacts, CountersGrow
  <2>3. ASSUME NEW u \in Threads \ {t} PROVE Places!(u)'
    BY <1>0, <1>a, <1>b, <1>4, <2>1, <2>2, <2>3, Counts DEF Places, TypeOK
  <2>4. Places!(t)'
    <3>1. pc'[t] = l
      BY <1>0, <2>1 DEF TypeOK
    <3>2. Timing /\ l \in InLoop \ {"test"} => op'[t] \in Roles(t)
      BY <1>0, <1>4, <2>1, <3>1, Counts DEF Places, InLoop
    <3>3. Timing /\ l \in Leaving \cup Left => \A o \in Roles(t) : counter[Key(o)] >= Limit
      BY <1>0, <2>1 DEF Places, InLoop
    <3>4. QED
      BY <1>0, <1>a, <1>b, <2>1, <2>2, <3>1, <3>2, <3>3 DEF Places, InLoop
  <2>5. QED
    BY <2>3, <2>4 DEF Places
<1>5. CASE UNCHANGED vars
  BY <1>0, <1>a, <1>5 DEF Places, vars, scores
<1>6. QED
  BY <1>1, <1>2, <1>3, <1>4, <1>5 DEF Next

\* What the invariant says of the lock, for one thread.
LEMMA AtOf ==
  ASSUME IInv, NEW t \in Threads
  PROVE  /\ at[t] = "tas" <=> pc[t] = "lock"
         /\ at[t] = "in" <=> Holding(t)
         /\ at[t] = "out" <=> pc[t] # "lock" /\ ~Holding(t)
  BY DEF IInv, LockHeld, Holding

\* Where the lock has a thread that is at pc[t] of its loop.
Where(t) == IF pc[t] = "lock" THEN "tas" ELSE IF Holding(t) THEN "in" ELSE "out"

\* What a step does to the lock, and to the deque behind it.
LEMMA LockMoves ==
  ASSUME IInv, NEW t \in Threads, Step(t), ~Arrive(t)
  PROVE  /\ at' = [at EXCEPT ![t] = Where(t)']
         /\ at[t] # "in" /\ at'[t] = "in" => word = 0
         /\ at'[t] = "in" => word' = 1
         /\ word' # word /\ word' # 1 => at[t] = "in" /\ at'[t] = "out"
         /\ pc'[t] = "pop" => Locked /\ ~Shoves /\ op'[t] = POP /\ items' > 0
         /\ Locked /\ items' # items => at[t] = "in"
<1>0. /\ TypeOK /\ Locked' = Locked /\ op[t] \in {PUSH, POP}
      /\ (pc[t] = "lock" => Locked) /\ (pc[t] = "pop" => Locked /\ op[t] = POP)
      /\ (Holding(t) => word = 1)
  BY RunKept DEF IInv, Next, TypeOK, Places, LockHeld, Op
<1>a. /\ at \in [Threads -> {"out", "tas", "in"}] /\ pc \in [Threads -> Label]
      /\ at[t] = Where(t) /\ items \in Nat
  BY <1>0 DEF IInv, TypeOK, LockHeld, Where, Label
<1> USE DEF Where, Goto, Label, InLoop, Holding, PUSH, POP
<1>1. CASE ReadArgs(t)
  BY <1>0, <1>a, <1>1 DEF ReadArgs, lock, deque
<1>2. CASE Clock(t)
  BY <1>0, <1>a, <1>2 DEF Clock, lock, deque
<1>3. CASE Kill(t)
  BY <1>0, <1>a, <1>3 DEF Kill, lock, deque
<1>4. CASE TimingTest(t)
  BY <1>0, <1>a, <1>4 DEF TimingTest, Begin, LeaveLoop, Lock!TasAcquire, Lock!Move, lock, deque
<1>5. CASE ThroughputTest(t)
  BY <1>0, <1>a, <1>5 DEF ThroughputTest, Begin, LeaveLoop, Lock!TasAcquire, Lock!Move, lock, deque
<1>6. CASE Count(t)
  BY <1>0, <1>a, <1>6 DEF Count, lock, deque
<1>7. CASE Acquire(t)
  BY <1>0, <1>a, <1>7 DEF Acquire, Lock!Tas, Lock!Found, Lock!Move, deque
<1>8. CASE MutexRelease(t)
  BY <1>0, <1>a, <1>8 DEF MutexRelease, Lock!TasRelease, Lock!Move, deque
<1>9. CASE ShoveTest(t)
  BY <1>0, <1>a, <1>9 DEF ShoveTest, Begin, LeaveLoop, Lock!TasAcquire, Lock!Move, lock, deque
<1>10. CASE ShoveRelease(t)
  BY <1>0, <1>a, <1>10 DEF ShoveRelease, Lock!TasRelease, Lock!Move, deque
<1>11. CASE ShoveAfter(t)
  BY <1>0, <1>a, <1>11 DEF ShoveAfter, ShoveOn, Begin, Lock!TasAcquire, Lock!Move, lock, deque
<1>12. CASE NonblockOperate(t)
  BY <1>0, <1>a, <1>12 DEF NonblockOperate, lock, deque
<1>13. CASE MutexOperate(t)
  BY <1>0, <1>a, <1>13 DEF MutexOperate, Take, lock, deque, TypeOK
<1>14. CASE MutexPop(t)
  BY <1>0, <1>a, <1>14 DEF MutexPop, lock
<1>15. CASE ShoveNonblock(t)
  BY <1>0, <1>a, <1>15 DEF ShoveNonblock, ShoveOn, Begin, Lock!TasAcquire, Lock!Move, lock
<1>16. CASE ShoveMutex(t)
  BY <1>0, <1>a, <1>16 DEF ShoveMutex, lock
<1>17. QED
  BY <1>1, <1>2, <1>3, <1>4, <1>5, <1>6, <1>7, <1>8, <1>9, <1>10, <1>11, <1>12, <1>13, <1>14,
     <1>15, <1>16 DEF Step, Nonblock, Rest

\* A step of t leaves the places of the others in the lock as they are.
LEMMA LockHeldNext == IInv /\ [Next]_vars => LockHeld'
<1> SUFFICES ASSUME IInv, [Next]_vars PROVE LockHeld'
  OBVIOUS
<1>0. TypeOK /\ Places /\ LockHeld /\ Locked' = Locked /\ Shoves' = Shoves
  BY RunKept DEF IInv
<1> USE DEF Holding
<1>1. CASE Spawn
  <2>1. pc' = [pc EXCEPT ![spawned] = "born"] /\ UNCHANGED <<op, at, word, items>>
    BY <1>1 DEF Spawn, lock, deque
  <2>2. CASE spawned \in Threads
    <3>1. pc[spawned] = "unborn"
      BY <1>1, <2>2, RunFacts DEF IInv, Born, TypeOK, Threads
    <3>2. QED
      BY <1>0, <2>1, <2>2, <3>1 DEF LockHeld, TypeOK
  <2>3. CASE spawned \notin Threads
    BY <1>0, <2>1, <2>3 DEF LockHeld, TypeOK
  <2>4. QED
    BY <2>2, <2>3
<1>2. CASE Join
  BY <1>0, <1>2 DEF Join, LockHeld, lock, deque
<1>3. ASSUME NEW t \in Threads, Arrive(t) PROVE LockHeld'
  <2>1. UNCHANGED <<op, at, word, items>>
    BY <1>3 DEF Arrive, lock, deque
  <2>2. \A u \in Threads : Beyond(u) \in {"sleep", "start", "test", "read", "exit"}
    BY DEF Beyond
  <2>3. \A u \in Threads :
          pc'[u] = pc[u] \/ /\ pc[u] \in {"arrive", "parked", "finish", "reparked"}
                            /\ pc'[u] \in {"sleep", "start", "test", "read", "exit", "parked",
                                           "reparked"}
    BY <1>0, <1>3, <2>2, ArriveTogether DEF Arrive, TypeOK, Leaving
  <2>4. \A u \in Threads :
          /\ pc'[u] = "lock" <=> pc[u] = "lock"
          /\ Holding(u)' <=> Holding(u)
          /\ pc'[u] = "pop" <=> pc[u] = "pop"
    <3> TAKE u \in Threads
    <3>1. CASE pc'[u] = pc[u]
      BY <1>0, <2>1, <3>1
    <3>2. CASE /\ pc[u] \in {"arrive", "parked", "finish", "reparked"}
               /\ pc'[u] \in {"sleep", "start", "test", "read", "exit", "parked", "reparked"}
      BY <3>2
    <3>3. QED
      BY <2>3, <3>1, <3>2
  <2> HIDE DEF Holding
  <2>5. QED
    BY <1>0, <2>1, <2>4 DEF LockHeld
<1>4. ASSUME NEW t \in Threads, Step(t), ~Arrive(t) PROVE LockHeld'
  <2>1. /\ at' = [at EXCEPT ![t] = Where(t)']
        /\ at[t] # "in" /\ at'[t] = "in" => word = 0
        /\ at'[t] = "in" => word' = 1
        /\ word' # word /\ word' # 1 => at[t] = "in" /\ at'[t] = "out"
        /\ pc'[t] = "pop" => Locked /\ ~Shoves /\ op'[t] = POP /\ items' > 0
        /\ Locked /\ items' # items => at[t] = "in"
    BY <1>4, LockMoves
  <2>2. at'[t] = Where(t)' /\ \E l \in Label : pc' = [pc EXCEPT ![t] = l]
    BY <1>0, <1>4, <2>1, Moves DEF TypeOK
  <2>3. \A u \in Threads \ {t} :
          /\ pc'[u] = pc[u] /\ at'[u] = at[u]
          /\ Holding(u)' <=> Holding(u)
    BY <1>0, <1>4, <2>1, <2>2, Counts DEF TypeOK
  <2>4. Holding(t)' <=> at'[t] = "in"
    BY <1>0, <2>2 DEF Where
  <2> HIDE DEF Holding
  <2>5. \A u \in Threads : at[u] = "in" <=> Holding(u)
    BY AtOf
  <2>6. at' = [u \in Threads |-> IF pc'[u] = "lock" THEN "tas"
                                 ELSE IF Holding(u)' THEN "in" ELSE "out"]
    <3>1. at'[t] = IF pc'[t] = "lock" THEN "tas" ELSE IF Holding(t)' THEN "in" ELSE "out"
      BY <2>2 DEF Where
    <3>2. DOMAIN at' = Threads /\ at' \in [Threads -> {"out", "tas", "in"}]
      BY <1>0, <2>1 DEF TypeOK, Where
    <3>3. QED
      BY <1>0, <2>3, <3>1, <3>2 DEF LockHeld
  <2>7. \A u \in Threads : Holding(u)' => word' = 1
    BY <1>0, <2>1, <2>3, <2>4, <2>5 DEF LockHeld
  <2>8. \A u, v \in Threads : Holding(u)' /\ Holding(v)' => u = v
    BY <1>0, <2>1, <2>3, <2>4, <2>5 DEF LockHeld
  <2>9. \A u \in Threads : pc'[u] = "pop" => Locked /\ ~Shoves /\ op'[u] = POP /\ items' > 0
    <3>1. ASSUME NEW u \in Threads \ {t}, pc'[u] = "pop" PROVE Locked /\ ~Shoves /\ op'[u] = POP /\ items' > 0
      <4>1. pc[u] = "pop" /\ Locked /\ ~Shoves /\ items > 0 /\ Holding(u) /\ op'[u] = POP
        BY <1>0, <1>4, <2>3, <3>1, Counts DEF LockHeld, Holding
      <4>2. items' = items
        BY <1>0, <2>1, <2>5, <4>1 DEF LockHeld
      <4>3. QED
        BY <4>1, <4>2
    <3>2. QED
      BY <2>1, <2>2, <3>1
  <2>10. QED
    BY <1>0, <2>6, <2>7, <2>8, <2>9 DEF LockHeld
<1>5. CASE UNCHANGED vars
  BY <1>0, <1>5 DEF LockHeld, vars, lock, deque
<1>6. QED
  BY <1>1, <1>2, <1>3, <1>4, <1>5 DEF Next

-----------------------------------------------------------------------------
(* The counters *)

\* In a timing run an operation begins at the test of the counter only.
LEMMA OwesFromTest ==
  ASSUME IInv, NEW t \in Threads, Step(t), Timing, pc[t] # "test", Owes(t)'
  PROVE  Owes(t)
<1>0. /\ TypeOK /\ ~Shoves /\ op' = op /\ op[t] \in {PUSH, POP} /\ pc[t] # "after"
  BY RunFacts, Counts DEF IInv, TypeOK, Op, Places
<1> USE <1>0 DEF Owes, Goto, TypeOK, PUSH, POP
<1>1. CASE ReadArgs(t) \/ Clock(t) \/ Kill(t)
  BY <1>1 DEF ReadArgs, Clock, Kill
<1>2. CASE Arrive(t)
  <2>1. \A u \in Threads : Beyond(u) \in {"sleep", "start", "test", "read", "exit"}
    BY DEF Beyond
  <2>2. QED
    BY <1>2, <2>1, ArriveTogether DEF Arrive
<1>3. CASE Acquire(t)
  BY <1>3 DEF Acquire
<1>4. CASE Count(t)
  BY <1>4 DEF Count
<1>5. CASE MutexRelease(t)
  BY <1>5 DEF MutexRelease
<1>6. CASE NonblockOperate(t) \/ MutexOperate(t) \/ MutexPop(t)
  BY <1>6 DEF NonblockOperate, MutexOperate, MutexPop
<1>7. QED
  BY <1>1, <1>2, <1>3, <1>4, <1>5, <1>6
     DEF Step, Nonblock, Rest, TimingTest, ThroughputTest, ShoveTest, ShoveRelease, ShoveAfter,
         ShoveNonblock, ShoveMutex

LEMMA TeamFinite ==
  ASSUME TypeOK, NEW o \in Op
  PROVE  /\ IsFiniteSet(Team(o)) /\ Cardinality(Team(o)) \in Nat
         /\ IsFiniteSet(Underway(o)) /\ Cardinality(Underway(o)) \in Nat
<1>1. IsFiniteSet(Workers)
  <2>1. 0 \in Int /\ run.thread_count - 1 \in Int
    BY RunFacts
  <2>2. QED
    BY <2>1, FS_Interval DEF Workers
<1>2. IsFiniteSet(Team(o)) /\ Cardinality(Team(o)) \in Nat
  BY <1>1, FS_Subset, FS_CardinalityType DEF Team
<1>3. QED
  BY <1>2, FS_Subset, FS_CardinalityType DEF Underway

\* The share of o is kept if no counter and no worker's debt grows.
LEMMA ShareKept ==
  ASSUME IInv, [Next]_vars, Timing, NEW o \in Op,
         counter'[Key(o)] = counter[Key(o)], Underway(o)' \subseteq Underway(o)
  PROVE  Share(o)'
<1>1. TypeOK /\ counter[Key(o)] \in Nat /\ Limit \in Nat
  BY RunFacts DEF IInv, TypeOK, Key
<1>2. /\ IsFiniteSet(Underway(o)) /\ Cardinality(Underway(o)) \in Nat
      /\ Cardinality(Team(o)) \in Nat
  BY <1>1, TeamFinite
<1>3. Cardinality(Underway(o)') \in Nat /\ Cardinality(Underway(o)') <= Cardinality(Underway(o))
  BY <1>2, FS_Subset, FS_CardinalityType
<1>4. Limit' = Limit /\ Key(o)' = Key(o) /\ Team(o)' = Team(o)
  BY RunKept
<1>5. QED
  BY <1>1, <1>2, <1>3, <1>4 DEF IInv, Shares, Share

LEMMA SharesNext == IInv /\ [Next]_vars => Shares'
<1> SUFFICES ASSUME IInv, [Next]_vars, Timing, NEW o \in Op PROVE Share(o)'
  BY RunKept DEF Shares
<1>0. /\ TypeOK /\ Places /\ Limit \in Nat
      /\ counter[Key(o)] \in Nat /\ counter'[Key(o)] \in Nat
  <2>1. TypeOK'
    BY TypeNext
  <2>2. QED
    BY <2>1, RunFacts DEF IInv, TypeOK, Key
<1>a. /\ Limit' = Limit /\ Team(o)' = Team(o) /\ \A u : Key(u)' = Key(u)
      /\ Team(o) \subseteq Threads
  BY <1>0, RunKept, RunFacts DEF Team
<1>1. CASE Spawn
  <2>1. counter' = counter /\ op' = op /\ pc' = [pc EXCEPT ![spawned] = "born"]
    BY <1>1 DEF Spawn, scores
  <2>2. Underway(o)' \subseteq Underway(o)
    BY <1>0, <1>a, <2>1 DEF Underway, Owes, TypeOK
  <2>3. QED
    BY <1>a, <2>1, <2>2, ShareKept
<1>2. CASE Join \/ UNCHANGED vars
  <2>1. counter' = counter /\ op' = op /\ pc' = pc
    BY <1>2 DEF Join, scores, vars
  <2>2. Underway(o)' \subseteq Underway(o)
    BY <1>0, <1>a, <2>1 DEF Underway, Owes
  <2>3. QED
    BY <1>a, <2>1, <2>2, ShareKept
<1>3. ASSUME NEW t \in Threads, Step(t) PROVE Share(o)'
  <2>0. /\ \A u \in Threads \ {t} : op'[u] = op[u]
        /\ pc[t] # "test" => op' = op
        /\ pc[t] = "test" /\ pc'[t] # "finish" => op'[t] \in Roles(t) /\ MoreWanted(op'[t])
        /\ counter' = IF pc[t] = "count" THEN [counter EXCEPT ![Key(op[t])] = @ + 1] ELSE counter
    BY <1>3, Counts
  <2>1. \A u \in Threads \ {t} : Owes(u)' => Owes(u)
    <3>1. CASE Arrive(t)
      <4>1. \A u \in Threads : Beyond(u) \in {"sleep", "start", "test", "read", "exit"}
        BY DEF Beyond
      <4>2. \A u \in Threads \ {t} :
              pc'[u] = pc[u] \/ pc'[u] \in {"sleep", "start", "test", "read", "exit"}
        BY <1>0, <3>1, <4>1, ArriveTogether DEF TypeOK
      <4>3. QED
        BY <2>0, <4>2 DEF Owes
    <3>2. CASE ~Arrive(t)
      <4>1. \A u \in Threads \ {t} : pc'[u] = pc[u]
        BY <1>0, <1>3, <3>2, Moves DEF TypeOK
      <4>2. QED
        BY <2>0, <4>1 DEF Owes
    <3>3. QED
      BY <3>1, <3>2
  <2>2. Underway(o)' \ {t} \subseteq Underway(o)
    BY <1>a, <2>0, <2>1 DEF Underway
  <2>3. /\ IsFiniteSet(Team(o)) /\ Cardinality(Team(o)) \in Nat
        /\ IsFiniteSet(Underway(o)) /\ Cardinality(Underway(o)) \in Nat
        /\ Share(o)
    BY <1>0, TeamFinite DEF IInv, Shares
  <2>4. CASE pc[t] = "count" /\ Key(op[t]) = Key(o)
    <3>1. t \in Underway(o)
      <4>1. t \in Workers /\ op[t] \in Roles(t)
        BY <1>0, <2>4 DEF Places, InLoop
      <4>2. o \in Roles(t)
        BY <2>4, <4>1 DEF Roles, Key, Op, RANDOM, PUSH, POP
      <4>3. QED
        BY <2>4, <4>1, <4>2 DEF Underway, Team, Owes
    <3>2. ~Owes(t)'
      <4>1. Count(t)
        BY <1>3, <2>4
           DEF Step, Nonblock, Rest, ReadArgs, Arrive, Clock, Kill, TimingTest, ThroughputTest,
               Acquire, MutexRelease, ShoveTest, ShoveRelease, ShoveAfter, NonblockOperate,
               MutexOperate, MutexPop, ShoveNonblock, ShoveMutex
      <4>2. QED
        BY <1>0, <2>0, <2>4, <4>1 DEF Count, Goto, Owes, TypeOK, PUSH, POP
    <3>3. Underway(o)' \subseteq Underway(o) \ {t}
      BY <2>2, <3>2 DEF Underway
    <3>4. /\ IsFiniteSet(Underway(o) \ {t})
          /\ Cardinality(Underway(o) \ {t}) = Cardinality(Underway(o)) - 1
      BY <2>3, <3>1, FS_RemoveElement
    <3>5. /\ Cardinality(Underway(o)') \in Nat
          /\ Cardinality(Underway(o)') <= Cardinality(Underway(o)) - 1
      BY <3>3, <3>4, FS_Subset, FS_CardinalityType
    <3>6. counter'[Key(o)] = counter[Key(o)] + 1
      BY <1>0, <2>0, <2>4 DEF TypeOK, Key
    <3>7. QED
      BY <1>0, <1>a, <2>3, <3>1, <3>5, <3>6 DEF Share
  <2>5. CASE pc[t] = "test" /\ pc'[t] # "finish" /\ Key(op'[t]) = Key(o)
    <3>1. counter'[Key(o)] = counter[Key(o)] /\ counter[Key(o)] < Limit
      BY <2>0, <2>5 DEF MoreWanted
    <3>2. Underway(o)' \subseteq Team(o)
      BY <1>a DEF Underway
    <3>3. t \notin Underway(o)
      BY <2>5 DEF Underway, Owes
    <3>4. Cardinality(Underway(o)') <= Cardinality(Team(o)) /\ Cardinality(Underway(o)') \in Nat
      BY <2>3, <3>2, FS_Subset, FS_CardinalityType
    <3>5. QED
      BY <1>0, <1>a, <2>3, <3>1, <3>4 DEF Share
  <2>6. CASE /\ ~(pc[t] = "count" /\ Key(op[t]) = Key(o))
             /\ ~(pc[t] = "test" /\ pc'[t] # "finish" /\ Key(op'[t]) = Key(o))
    <3>1. counter'[Key(o)] = counter[Key(o)]
      BY <1>0, <2>0, <2>6 DEF TypeOK, Key
    <3>2. t \in Underway(o)' => t \in Underway(o)
      BY <1>a, <1>3, <2>0, <2>6, OwesFromTest DEF Underway, Owes
    <3>3. Underway(o)' \subseteq Underway(o)
      BY <2>2, <3>2
    <3>4. QED
      BY <1>a, <3>1, <3>3, ShareKept
  <2>7. QED
    BY <2>4, <2>5, <2>6
<1>4. QED
  BY <1>1, <1>2, <1>3 DEF Next

\* The popper that is alone stays alone with an empty deque.
LEMMA AloneNext == IInv /\ [Next]_vars => Alone'
<1> SUFFICES ASSUME IInv, [Next]_vars,
                    run.thread_count = 1, Timing, run.workflow # RANDOM, Limit > 0
             PROVE  /\ items' = 0 /\ counter'[POP] = 0
                    /\ pc'[0] \in Before \cup {"start", "test", "lock", "operate", "unlock"}
  BY RunKept DEF Alone
<1>0. /\ TypeOK /\ Born /\ Places /\ Parties = 1 /\ ~Shoves /\ 0 \in Threads
      /\ Crew = {0} /\ 0 \in Workers /\ Workers = {0}
  BY RunFacts DEF IInv, Crew, Workers
<1>a. /\ items = 0 /\ counter[POP] = 0
      /\ pc[0] \in Before \cup {"start", "test", "lock", "operate", "unlock"}
  BY DEF IInv, Alone
<1>b. Roles(0) = {POP} /\ Key(POP) = POP
  BY <1>0 DEF Roles, Key
<1>c. \A t \in Threads \ {0} : pc[t] = "unborn"
  BY <1>0, RunFacts DEF Born, Threads, TypeOK
<1>d. pc[0] \in {"lock", "operate", "unlock"} => op[0] = POP
  BY <1>0, <1>b DEF Places, InLoop
<1> USE DEF Before
<1>1. CASE Spawn
  BY <1>0, <1>1, <1>a, RunFacts DEF Spawn, Born, TypeOK, deque, scores
<1>2. CASE Join \/ UNCHANGED vars
  BY <1>2, <1>a DEF Join, vars, deque, scores
<1>3. ASSUME NEW t \in Threads, Step(t)
      PROVE  /\ items' = 0 /\ counter'[POP] = 0
             /\ pc'[0] \in Before \cup {"start", "test", "lock", "operate", "unlock"}
  <2>1. t = 0
    BY <1>3, <1>c
       DEF Step, Nonblock, Rest, ReadArgs, Arrive, Clock, Kill, TimingTest, ThroughputTest, Count,
           Acquire, MutexRelease, ShoveTest, ShoveRelease, ShoveAfter, NonblockOperate,
           MutexOperate, MutexPop, ShoveNonblock, ShoveMutex
  <2>2. counter' = counter
    BY <1>3, <1>a, <2>1, Counts
  <2>3. CASE Arrive(0)
    <3>1. items' = items
      BY <2>3 DEF Arrive, deque
    <3>2. pc[0] = "arrive" /\ Beyond(0) = "start"
      BY <1>a, <2>3, <1>0 DEF Arrive, Beyond, Killer
    <3>3. QED
      BY <1>0, <1>a, <2>2, <2>3, <3>1, <3>2, ArriveTogether DEF TypeOK
  <2>4. CASE TimingTest(0)
    <3>1. MoreWanted(POP)
      BY <1>0, <1>a, <1>b, RunFacts DEF MoreWanted
    <3>2. QED
      BY <1>0, <1>a, <1>b, <2>2, <2>4, <3>1
         DEF TimingTest, Begin, LeaveLoop, Goto, TypeOK, deque
  <2>5. CASE NonblockOperate(0)
    BY <1>0, <1>a, <1>d, <2>2, <2>5 DEF NonblockOperate, Goto, TypeOK, deque
  <2>6. CASE MutexOperate(0)
    BY <1>0, <1>a, <1>d, <2>2, <2>6 DEF MutexOperate, Goto, TypeOK, deque, PUSH, POP
  <2>7. CASE MutexRelease(0)
    BY <1>0, <1>a, <1>d, <2>2, <2>7 DEF MutexRelease, Goto, TypeOK, deque, PUSH, POP
  <2>8. CASE ReadArgs(0) \/ Clock(0) \/ Acquire(0)
    BY <1>0, <1>a, <2>2, <2>8 DEF ReadArgs, Clock, Acquire, Goto, TypeOK, deque
  <2>9. QED
    BY <1>0, <1>3, <1>a, <2>1, <2>3, <2>4, <2>5, <2>6, <2>7, <2>8
       DEF Step, Nonblock, Rest, Kill, ThroughputTest, Count, MutexPop, ShoveTest, ShoveRelease,
           ShoveAfter, ShoveNonblock, ShoveMutex
<1>4. QED
  BY <1>1, <1>2, <1>3 DEF Next

LEMMA FinishedNext == IInv /\ [Next]_vars => Finished'
<1> SUFFICES ASSUME IInv, [Next]_vars PROVE Finished'
  OBVIOUS
<1>0. /\ TypeOK /\ Places /\ Finished /\ Timing' = Timing /\ 0 \in Workers /\ 0 \in Threads
      /\ spawned \in Nat /\ (pc[0] # "unborn" => spawned # 0)
  <2>1. spawned \in Nat
    BY ThreadsAssumption DEF IInv, TypeOK, Threads
  <2>2. QED
    BY <2>1, RunKept, RunFacts DEF IInv, Born, Threads
<1>1. CASE Spawn
  <2>1. pc' = [pc EXCEPT ![spawned] = "born"] /\ timer' = timer /\ main' # "done"
    BY <1>1 DEF Spawn
  <2>2. timer = "read" => spawned # 0
    BY <1>0 DEF Finished
  <2>3. QED
    BY <1>0, <2>1, <2>2 DEF Finished, TypeOK
<1>2. CASE Join
  BY <1>0, <1>2 DEF Join, Finished
<1>3. ASSUME NEW t \in Threads, Arrive(t) PROVE Finished'
  <2>1. timer' = timer /\ main' = main
    BY <1>3 DEF Arrive
  <2>2. pc[0] = "exit" => pc'[0] = "exit"
    BY <1>0, <1>3, ArriveTogether, RunFacts DEF Arrive, TypeOK, Leaving
  <2>3. \A u \in Threads : pc'[u] = "read" => u = 0
    <3>1. \A u \in Threads : Beyond(u) = "read" => u = 0
      BY DEF Beyond
    <3>2. QED
      BY <1>0, <1>3, <3>1, ArriveTogether DEF TypeOK, Finished
  <2>4. QED
    BY <1>0, <2>1, <2>2, <2>3 DEF Finished
<1>4. ASSUME NEW t \in Threads, Step(t), ~Arrive(t) PROVE Finished'
  <2>1. main' = main
    BY <1>4, Moves
  <2>2. pc[0] = "exit" => pc'[0] = "exit"
    BY <1>0, <1>4, Moves DEF TypeOK, InLoop
  <2>3. \A u \in Threads : pc'[u] = "read" => u = 0
    BY <1>0, <1>4, Moves DEF TypeOK, InLoop, Finished
  <2>4. timer' = timer \/ timer' = "on" \/ (pc[t] = "read" /\ pc'[t] = "exit")
    BY <1>0, <1>4
       DEF Step, Nonblock, Rest, ReadArgs, Clock, Kill, TimingTest, ThroughputTest, Count, Acquire,
           MutexRelease, ShoveTest, ShoveRelease, ShoveAfter, NonblockOperate, MutexOperate,
           MutexPop, ShoveNonblock, ShoveMutex, Goto, control, TypeOK
  <2>5. timer' = "read" => Timing /\ pc'[0] = "exit"
    BY <1>0, <2>2, <2>4 DEF Finished, Places
  <2>6. QED
    BY <1>0, <2>1, <2>2, <2>3, <2>5 DEF Finished
<1>5. CASE UNCHANGED vars
  BY <1>0, <1>5 DEF Finished, vars, control
<1>6. QED
  BY <1>1, <1>2, <1>3, <1>4, <1>5 DEF Next

-----------------------------------------------------------------------------
(* The books: what is in the deque and what has been counted *)

\* Two sets that differ in x at most.
LEMMA SameButOne ==
  ASSUME NEW S, NEW T, NEW x, IsFiniteSet(S), S \ {x} = T \ {x}
  PROVE  /\ Cardinality(S) \in Nat /\ Cardinality(T) \in Nat
         /\ Cardinality(T) + (IF x \in S THEN 1 ELSE 0) =
              Cardinality(S) + (IF x \in T THEN 1 ELSE 0)
<1> DEFINE R == S \ {x}
<1>1. IsFiniteSet(R) /\ Cardinality(R) \in Nat /\ Cardinality(S) \in Nat
  BY FS_RemoveElement, FS_CardinalityType
<1>2. Cardinality(S) = Cardinality(R) + (IF x \in S THEN 1 ELSE 0)
  BY <1>1, FS_RemoveElement
<1>3. Cardinality(T) = Cardinality(R) + (IF x \in T THEN 1 ELSE 0)
  <2>1. CASE x \in T
    <3>1. T = R \cup {x} /\ x \notin R
      BY <2>1
    <3>2. QED
      BY <1>1, <2>1, <3>1, FS_AddElement
  <2>2. CASE x \notin T
    <3>1. T = R
      BY <2>2
    <3>2. QED
      BY <1>1, <2>2, <3>1
  <2>3. QED
    BY <2>1, <2>2
<1>4. QED
  BY <1>1, <1>2, <1>3

LEMMA WorkersFinite ==
  ASSUME TypeOK
  PROVE  IsFiniteSet(Workers) /\ \A S \in SUBSET Workers : IsFiniteSet(S)
<1>1. IsFiniteSet(Workers)
  <2>1. run.thread_count - 1 \in Int
    BY RunFacts
  <2>2. QED
    BY <2>1, FS_Interval DEF Workers
<1>2. QED
  BY <1>1, FS_Subset

LEMMA CountedFinite ==
  ASSUME TypeOK, NEW o \in Op
  PROVE  IsFiniteSet(Counted(o)) /\ Total(o) \in Nat
<1> DEFINE part == [u \in Workers |-> {u} \X (1 .. tally[u][o])]
           parts == {part[u] : u \in Workers}
<1>1. \A p \in parts : IsFiniteSet(p)
  <2> SUFFICES ASSUME NEW u \in Workers PROVE IsFiniteSet(part[u])
    OBVIOUS
  <2>1. IsFiniteSet({u})
    BY FS_Singleton
  <2>2. tally[u][o] \in Int
    BY RunFacts DEF TypeOK
  <2>3. IsFiniteSet(1 .. tally[u][o])
    BY <2>2, FS_Interval
  <2>4. IsFiniteSet({u} \X (1 .. tally[u][o]))
    BY <2>1, <2>3, FS_Product
  <2>5. QED
    BY <2>4
<1>2. IsFiniteSet(parts)
  <2>1. part \in Surjection(Workers, parts)
    BY DEF Surjection
  <2>2. QED
    BY <2>1, WorkersFinite, FS_Surjection
<1>3. Counted(o) = UNION parts
  BY DEF Counted
<1>4. QED
  BY <1>1, <1>2, <1>3, FS_UNION, FS_CardinalityType DEF Total

\* A worker's count adds one to the sum of its operation's counts.
LEMMA TotalGrows ==
  ASSUME TypeOK, NEW t \in Workers, Score(t, 1), Workers' = Workers, NEW o \in Op
  PROVE  Total(o)' = Total(o) + IF o = op[t] THEN 1 ELSE 0
<1>1. t \in Threads /\ tally \in [Threads -> [Op -> Nat]] /\ op[t] \in Op /\ Workers \subseteq Threads
  BY RunFacts DEF TypeOK
<1>2. \A u \in Workers :
        tally'[u][o] = IF u = t /\ o = op[t] THEN tally[t][o] + 1 ELSE tally[u][o]
  BY <1>1 DEF Score
<1> DEFINE n == tally[t][o] + 1
<1>3. n \in Nat /\ n - 1 = tally[t][o] /\ \A u \in Workers : tally[u][o] \in Nat
  BY <1>1
<1>4. IsFiniteSet(Counted(o)) /\ Total(o) \in Nat
  BY CountedFinite
<1>5. CASE o # op[t]
  <2>1. Counted(o)' = Counted(o)
    BY <1>2, <1>5 DEF Counted
  <2>2. QED
    BY <1>4, <1>5, <2>1 DEF Total
<1>6. CASE o = op[t]
  <2>1. 1 .. n = (1 .. tally[t][o]) \cup {n} /\ n \notin 1 .. tally[t][o]
    BY <1>3
  <2>2. Counted(o)' = Counted(o) \cup {<<t, n>>}
    BY <1>2, <1>6, <2>1 DEF Counted
  <2>3. <<t, n>> \notin Counted(o)
    BY <2>1 DEF Counted
  <2>4. QED
    BY <1>4, <1>6, <2>2, <2>3, FS_AddElement DEF Total
<1>7. QED
  BY <1>5, <1>6

LEMMA TotalKept ==
  ASSUME UNCHANGED tally, Workers' = Workers, NEW o
  PROVE  Total(o)' = Total(o)
BY DEF Total, Counted

\* What the other threads owe does not change in a step of t.
LEMMA OthersOwe ==
  ASSUME IInv, [Next]_vars, NEW t \in Threads, Step(t), NEW o \in Op
  PROVE  /\ Pending(o)' \ {t} = Pending(o) \ {t}
         /\ Releasing(o)' \ {t} = Releasing(o) \ {t}
         /\ IsFiniteSet(Pending(o)) /\ IsFiniteSet(Releasing(o))
<1>0. /\ TypeOK /\ Workers' = Workers /\ Locked' = Locked /\ Shoves' = Shoves
      /\ Workers \subseteq Threads
  BY RunKept, RunFacts DEF IInv
<1>1. \A u \in Threads : u # t => op'[u] = op[u]
  BY Counts
<1>2. \A u \in Threads : u # t =>
        \/ pc'[u] = pc[u]
        \/ /\ pc'[u] \in {"sleep", "start", "test", "read", "exit"}
           /\ pc[u] \in {"arrive", "parked"} \cup Leaving
  <2>1. CASE Arrive(t)
    <3>1. \A u \in Threads : Beyond(u) \in {"sleep", "start", "test", "read", "exit"}
      BY DEF Beyond
    <3>2. QED
      BY <1>0, <2>1, <3>1, ArriveTogether DEF TypeOK
  <2>2. CASE ~Arrive(t)
    BY <1>0, <2>2, Moves DEF TypeOK
  <2>3. QED
    BY <2>1, <2>2
<1>3. \A u \in Threads : u # t => ret'[u] = ret[u]
  <2>1. ret' = ret \/ ret' = [ret EXCEPT ![t] = ret'[t]]
    BY <1>0 DEF Step, Nonblock, Rest, ReadArgs, Arrive, Clock, Kill, TimingTest, ThroughputTest,
                Count, Acquire, MutexRelease, ShoveTest, ShoveRelease, ShoveAfter,
                NonblockOperate, MutexOperate, MutexPop, ShoveNonblock, ShoveMutex, scores, TypeOK
  <2>2. QED
    BY <1>0, <2>1 DEF TypeOK
<1>4. \A u \in Threads : u # t =>
        (Uncounted(u)' <=> Uncounted(u)) /\ (pc'[u] = "unlock" <=> pc[u] = "unlock")
  BY <1>0, <1>1, <1>2, <1>3 DEF Uncounted, Leaving
<1>5. QED
  BY <1>0, <1>1, <1>4, WorkersFinite DEF Pending, Releasing

\* The books stay as they are when nothing is done, counted or begun.
LEMMA BooksKept ==
  ASSUME IInv, [Next]_vars, UNCHANGED <<items, room, tally, shove>>,
         Timing => counter' = counter, \A o \in Op : Pending(o)' = Pending(o)
  PROVE  Conserved'
<1>1. /\ run' = run /\ Timing' = Timing /\ Shoves' = Shoves /\ Locked' = Locked
      /\ Workers' = Workers
  BY RunKept
<1>2. \A o : Total(o)' = Total(o)
  BY <1>1, TotalKept
<1>3. Turned' = Turned
  BY <1>1 DEF Turned
<1>4. Pending(PUSH)' = Pending(PUSH) /\ Pending(POP)' = Pending(POP) /\ Conserved
  BY DEF Op, IInv
<1>5. QED
  BY <1>1, <1>2, <1>3, <1>4 DEF Conserved

\* What an operation adds to the elements of the deque.
Gain(o) == IF o = PUSH THEN 1 ELSE -1

\* A step of a timing run does an operation, counts one, or does neither.
LEMMA TimingDeed ==
  ASSUME IInv, [Next]_vars, Timing, NEW t \in Threads, Step(t)
  PROVE  \/ /\ items' = items /\ counter' = counter
            /\ Uncounted(t)' <=> Uncounted(t)
            /\ Uncounted(t) => op'[t] = op[t]
         \/ /\ items' = items + Gain(op[t]) /\ counter' = counter
            /\ ~Uncounted(t) /\ Uncounted(t)' /\ op'[t] = op[t] /\ t \in Workers
         \/ /\ items' = items /\ counter' = [counter EXCEPT ![Key(op[t])] = @ + 1]
            /\ Uncounted(t) /\ ~Uncounted(t)' /\ op'[t] = op[t] /\ t \in Workers
<1>0. /\ TypeOK /\ Timing' = Timing /\ Locked' = Locked /\ Shoves' = Shoves /\ ~Shoves
      /\ (pc[t] = "unlock" => Locked) /\ (pc[t] \in InLoop => t \in Workers)
      /\ (pc[t] = "pop" => Locked /\ op[t] = POP) /\ (pc[t] # "after")
  BY RunKept, RunFacts DEF IInv, Doing, Places, LockHeld
<1> USE DEF Uncounted, Goto, TypeOK, InLoop, PUSH, POP, Op, Gain
<1>1. CASE ReadArgs(t) \/ Clock(t) \/ Kill(t) \/ Acquire(t)
  BY <1>0, <1>1 DEF ReadArgs, Clock, Kill, Acquire, deque, scores
<1>2. CASE Arrive(t)
  <2>1. Beyond(t) \notin {"count", "unlock"}
    BY DEF Beyond
  <2>2. pc'[t] \notin {"count", "unlock"}
    BY <1>0, <1>2, <2>1, ArriveTogether DEF Arrive
  <2>3. QED
    BY <1>0, <1>2, <2>2 DEF Arrive, deque, scores
<1>3. CASE TimingTest(t)
  BY <1>0, <1>3 DEF TimingTest, Begin, LeaveLoop, deque, scores
<1>4. CASE Count(t)
  BY <1>0, <1>4 DEF Count, deque
<1>5. CASE MutexRelease(t)
  BY <1>0, <1>5 DEF MutexRelease, deque
<1>6. CASE NonblockOperate(t)
  BY <1>0, <1>6 DEF NonblockOperate, Take, deque
<1>7. CASE MutexOperate(t)
  BY <1>0, <1>7 DEF MutexOperate, Take, deque, scores
<1>8. CASE MutexPop(t)
  BY <1>0, <1>8 DEF MutexPop, Take
<1>9. QED
  BY <1>0, <1>1, <1>2, <1>3, <1>4, <1>5, <1>6, <1>7, <1>8
     DEF Step, Nonblock, Rest, ThroughputTest, ShoveTest, ShoveRelease, ShoveAfter, ShoveNonblock,
         ShoveMutex

\* How the sets of those who owe a count change with what t owes.
LEMMA PendingStep ==
  ASSUME IInv, [Next]_vars, NEW t \in Threads, Step(t), NEW o \in Op
  PROVE  /\ Cardinality(Pending(o)) \in Nat /\ Cardinality(Pending(o)') \in Nat
         /\ Cardinality(Pending(o)') + (IF t \in Workers /\ op[t] = o /\ Uncounted(t) THEN 1 ELSE 0)
            = Cardinality(Pending(o)) + (IF t \in Workers /\ op'[t] = o /\ Uncounted(t)' THEN 1 ELSE 0)
<1>1. Pending(o)' \ {t} = Pending(o) \ {t} /\ IsFiniteSet(Pending(o)) /\ Workers' = Workers
  BY OthersOwe, RunKept
<1>2. /\ t \in Pending(o) <=> t \in Workers /\ op[t] = o /\ Uncounted(t)
      /\ t \in Pending(o)' <=> t \in Workers /\ op'[t] = o /\ Uncounted(t)'
  BY <1>1 DEF Pending
<1>3. QED
  BY <1>1, <1>2, SameButOne

LEMMA TimingBooks ==
  ASSUME IInv, [Next]_vars, Timing, NEW t \in Threads, Step(t)
  PROVE  Conserved'
<1>0. /\ Timing' = Timing /\ run' = run /\ ~Shoves' /\ items \in Nat
      /\ counter \in [{"all"} \cup Op -> Nat] /\ op[t] \in Op /\ Conserved
  <2>1. TypeOK /\ Conserved
    BY DEF IInv
  <2>2. Timing' = Timing /\ run' = run /\ ~Shoves
    BY <2>1, RunKept, RunFacts
  <2>3. ~Shoves'
    BY <2>2 DEF Shoves
  <2>4. QED
    BY <2>1, <2>2, <2>3 DEF TypeOK
<1> DEFINE p == Cardinality(Pending(PUSH))
           q == Cardinality(Pending(POP))
           n == (IF t \in Workers /\ op'[t] = PUSH /\ Uncounted(t)' THEN 1 ELSE 0)
                  - (IF t \in Workers /\ op[t] = PUSH /\ Uncounted(t) THEN 1 ELSE 0)
           m == (IF t \in Workers /\ op'[t] = POP /\ Uncounted(t)' THEN 1 ELSE 0)
                  - (IF t \in Workers /\ op[t] = POP /\ Uncounted(t) THEN 1 ELSE 0)
<1>1. p \in Nat /\ q \in Nat /\ p' = p + n /\ q' = q + m /\ n \in Int /\ m \in Int
  <2>1. PUSH \in Op /\ POP \in Op
    BY DEF Op
  <2>2. QED
    BY <2>1, PendingStep
<1>2. \/ items' = items /\ counter' = counter /\ n = 0 /\ m = 0
      \/ items' = items + Gain(op[t]) /\ counter' = counter
           /\ n = (IF op[t] = PUSH THEN 1 ELSE 0) /\ m = (IF op[t] = POP THEN 1 ELSE 0)
      \/ items' = items /\ counter' = [counter EXCEPT ![Key(op[t])] = @ + 1]
           /\ n = (IF op[t] = PUSH THEN -1 ELSE 0) /\ m = (IF op[t] = POP THEN -1 ELSE 0)
  BY <1>0, TimingDeed DEF Op
<1> HIDE DEF n, m, p, q
<1>3. CASE run.workflow # RANDOM
  <2>1. items = counter[PUSH] - counter[POP] + (p - q) /\ Key(op[t]) = op[t]
    BY <1>0, <1>3 DEF Conserved, Key, p, q
  <2>2. /\ counter[PUSH] \in Nat /\ counter[POP] \in Nat
        /\ op[t] = PUSH \/ op[t] = POP
        /\ counter' = [counter EXCEPT ![Key(op[t])] = @ + 1] =>
             counter'[PUSH] = counter[PUSH] + (IF op[t] = PUSH THEN 1 ELSE 0)
             /\ counter'[POP] = counter[POP] + (IF op[t] = POP THEN 1 ELSE 0)
    BY <1>0, <2>1 DEF Op, PUSH, POP
  <2>3. items' = counter'[PUSH] - counter'[POP] + (p' - q')
    BY <1>0, <1>1, <1>2, <2>1, <2>2 DEF Gain, PUSH, POP
  <2>4. QED
    BY <1>0, <1>3, <2>3 DEF Conserved, p, q
<1>4. CASE run.workflow = RANDOM
  <2>1. (items + counter["all"] + (p - q)) % 2 = 0 /\ Key(op[t]) = "all"
    BY <1>0, <1>4 DEF Conserved, Key, p, q
  <2>2. /\ counter["all"] \in Nat
        /\ op[t] = PUSH \/ op[t] = POP
        /\ counter' = [counter EXCEPT ![Key(op[t])] = @ + 1] => counter'["all"] = counter["all"] + 1
    BY <1>0, <2>1 DEF Op
  <2> DEFINE x == items + counter["all"] + (p - q)
  <2>3. x \in Int /\ (x' = x \/ x' = x + 2 \/ x' = x - 2)
    <3>1. x \in Int /\ x' = items' + counter'["all"] + (p' - q')
      BY <1>0, <1>1, <2>2
    <3>2. CASE op[t] = PUSH
      BY <1>0, <1>1, <1>2, <2>1, <2>2, <3>1, <3>2 DEF Gain, PUSH, POP
    <3>3. CASE op[t] = POP
      BY <1>0, <1>1, <1>2, <2>1, <2>2, <3>1, <3>3 DEF Gain, PUSH, POP
    <3>4. QED
      BY <2>2, <3>2, <3>3
  <2>4. \A y \in Int : y % 2 = 0 => (y + 2) % 2 = 0 /\ (y - 2) % 2 = 0
    OBVIOUS
  <2>5. x' % 2 = 0
    <3> HIDE DEF x
    <3>1. x % 2 = 0
      BY <2>1 DEF x
    <3>2. QED
      BY <2>3, <2>4, <3>1
  <2>6. QED
    BY <1>0, <1>4, <2>5 DEF Conserved, p, q
<1>5. QED
  BY <1>3, <1>4

LEMMA TurnedFinite ==
  ASSUME TypeOK
  PROVE  IsFiniteSet(Turned) /\ Cardinality(Turned) \in Nat
<1>1. IsFiniteSet(End)
  <2>1. IsFiniteSet({LEFT}) /\ End = {LEFT} \cup {RIGHT}
    BY FS_Singleton DEF End
  <2>2. QED
    BY <2>1, FS_AddElement
<1>2. IsFiniteSet(Workers \X End)
  BY <1>1, WorkersFinite, FS_Product
<1>3. QED
  BY <1>2, FS_Subset, FS_CardinalityType DEF Turned

\* A worker's place among those that were turned round.
LEMMA TurnedStep ==
  ASSUME TypeOK, Workers' = Workers, NEW t \in Workers, NEW b \in BOOLEAN,
         shove' = [shove EXCEPT ![t][end[t]] = b]
  PROVE  /\ Cardinality(Turned) \in Nat /\ Cardinality(Turned') \in Nat
         /\ Cardinality(Turned') + (IF shove[t][end[t]] THEN 0 ELSE 1)
            = Cardinality(Turned) + (IF b THEN 0 ELSE 1)
<1> DEFINE w == <<t, end[t]>>
<1>1. t \in Threads /\ end[t] \in End /\ shove \in [Threads -> [End -> BOOLEAN]]
  BY RunFacts DEF TypeOK
<1>3. IsFiniteSet(Turned)
  BY TurnedFinite
<1>4. \A u \in Workers, e \in End :
        <<u, e>> # w => shove'[u][e] = shove[u][e]
  <2>1. Workers \subseteq Threads
    BY RunFacts
  <2>2. QED
    BY <1>1, <2>1
<1>5. shove'[t][end[t]] = b
  BY <1>1
<1>6. Turned' \ {w} = Turned \ {w}
  <2>1. \A x \in Workers \X End : x # w => shove'[x[1]][x[2]] = shove[x[1]][x[2]]
    BY <1>4
  <2>2. QED
    BY <2>1 DEF Turned
<1>7. (w \in Turned <=> ~shove[t][end[t]]) /\ (w \in Turned' <=> ~b)
  BY <1>1, <1>5 DEF Turned
<1>8. QED
  BY <1>3, <1>6, <1>7, SameButOne

\* What an answer did to the deque, and to the room of its ends.
LEMMA ApplyGain ==
  ASSUME TypeOK, NEW t \in Threads, NEW stat \in Answers(t), Apply(t, stat)
  PROVE  /\ stat \in {OK, IF op[t] = PUSH THEN FULL ELSE EMPTY}
         /\ items \in Nat /\ items' \in Nat
         /\ items' = items + IF stat = OK THEN Gain(op[t]) ELSE 0
         /\ room[LEFT] + room[RIGHT] + items = 2 * Room =>
              room'[LEFT] + room'[RIGHT] + items' = 2 * Room
         /\ \A e \in End : room'[e] \in Nat
<1>1. /\ room \in [End -> Nat] /\ end[t] \in End /\ op[t] \in Op /\ items \in Nat /\ Room \in Nat
      /\ room[LEFT] \in Nat /\ room[RIGHT] \in Nat
  BY NumbersAssumption DEF TypeOK, End
<1>2. stat \in {OK, IF op[t] = PUSH THEN FULL ELSE EMPTY}
  BY DEF Answers
<1>3. items' \in Nat /\ room' \in [End -> Nat]
  BY ApplyType
<1>4. items' = items + IF stat = OK THEN Gain(op[t]) ELSE 0
  BY <1>1 DEF Apply, Gain, deque
<1>5. room'[LEFT] + room'[RIGHT] + items' = room[LEFT] + room[RIGHT] + items
  <2>1. CASE stat = OK
    <3> DEFINE n == Gain(op[t])
    <3>1. n \in Int /\ items' = items + n /\ room' = [room EXCEPT ![end[t]] = @ - n]
      BY <2>1 DEF Apply, Gain
    <3> HIDE DEF n
    <3>2. CASE end[t] = LEFT
      BY <1>1, <3>1, <3>2 DEF End, LEFT, RIGHT
    <3>3. CASE end[t] = RIGHT
      BY <1>1, <3>1, <3>3 DEF End, LEFT, RIGHT
    <3>4. QED
      BY <1>1, <3>2, <3>3 DEF End
  <2>2. CASE stat # OK
    BY <2>2 DEF Apply, deque
  <2>3. QED
    BY <2>1, <2>2
<1>6. QED
  BY <1>1, <1>2, <1>3, <1>4, <1>5

\* The direction of a worker after the answer stat.
Turn(t, stat) == shove' = [shove EXCEPT ![t][end[t]] = IF stat = OK THEN @ ELSE ~@]

\* A step of a shoving run does an operation, counts one and turns the worker
\* round, does both, or does neither.
LEMMA ShoveDeed ==
  ASSUME IInv, [Next]_vars, Shoves, NEW t \in Threads, Step(t)
  PROVE  \/ /\ UNCHANGED <<items, room, tally, shove>>
            /\ Uncounted(t)' <=> Uncounted(t)
            /\ Uncounted(t) => op'[t] = op[t]
         \/ \E stat \in Answers(t) :
              /\ Apply(t, stat) /\ UNCHANGED <<tally, shove>>
              /\ ~Uncounted(t) /\ (Uncounted(t)' <=> stat = OK) /\ op'[t] = op[t]
              /\ t \in Workers
         \/ /\ Turn(t, ret[t]) /\ Score(t, 1) /\ UNCHANGED <<items, room>>
            /\ (Uncounted(t) <=> ret[t] = OK) /\ ~Uncounted(t)'
            /\ pc[t] = "after" /\ t \in Workers
         \/ \E stat \in Answers(t) :
              /\ Apply(t, stat) /\ Turn(t, stat) /\ Score(t, 1)
              /\ ~Uncounted(t) /\ ~Uncounted(t)'
              /\ pc[t] = "operate" /\ t \in Workers
<1>0. /\ TypeOK /\ Locked' = Locked /\ ~Timing /\ (pc[t] \in InLoop => t \in Workers)
      /\ (pc[t] \notin {"pop", "count"}) /\ Shoves'
  <2>1. TypeOK /\ Shoves' = Shoves
    BY RunKept DEF IInv
  <2>2. Locked' = Locked /\ ~Timing /\ (pc[t] \in InLoop => t \in Workers)
        /\ pc[t] \notin {"pop", "count"}
    BY <2>1, RunKept, RunFacts DEF IInv, Places, LockHeld, Doing
  <2>3. Shoves'
    BY RunKept DEF Shoves
  <2>4. QED
    BY <2>1, <2>2, <2>3
<1>1. pc \in [Threads -> Label] /\ op \in [Threads -> Op] /\ ret \in [Threads -> {OK, EMPTY, FULL}]
  BY <1>0 DEF TypeOK, Label
<1> USE DEF Uncounted, Goto, InLoop
<1>2. CASE ReadArgs(t) \/ Clock(t) \/ Kill(t) \/ Acquire(t)
  BY <1>0, <1>1, <1>2 DEF ReadArgs, Clock, Kill, Acquire, deque, scores
<1>3. CASE Arrive(t)
  <2>1. Beyond(t) \notin {"after", "unlock"}
    BY DEF Beyond
  <2>2. pc'[t] \notin {"after", "unlock"}
    BY <1>1, <1>3, <2>1, ArriveTogether DEF Arrive
  <2>3. QED
    BY <1>0, <1>1, <1>3, <2>2 DEF Arrive, deque, scores
<1>4. CASE ShoveTest(t)
  BY <1>0, <1>1, <1>4 DEF ShoveTest, Begin, LeaveLoop, deque, scores
<1>5. CASE Count(t)
  BY <1>0, <1>5 DEF Count
<1>6. CASE ShoveRelease(t)
  BY <1>0, <1>1, <1>6 DEF ShoveRelease, deque, scores
<1>7. CASE ShoveMutex(t)
  <2>1. PICK stat \in Answers(t) : Apply(t, stat) /\ ret' = [ret EXCEPT ![t] = stat]
    BY <1>7 DEF ShoveMutex
  <2>2. ~Uncounted(t) /\ (Uncounted(t)' <=> stat = OK) /\ op'[t] = op[t]
    BY <1>0, <1>1, <1>7, <2>1 DEF ShoveMutex
  <2>3. QED
    BY <1>0, <1>7, <2>1, <2>2 DEF ShoveMutex
<1>8. ASSUME NEW stat, ShoveOn(t, stat) PROVE pc'[t] \notin {"unlock", "after"}
  BY <1>0, <1>1, <1>8 DEF ShoveOn, Begin
<1>9. CASE ShoveAfter(t)
  BY <1>0, <1>1, <1>8, <1>9 DEF ShoveAfter, ShoveOn, Turn, deque
<1>10. CASE ShoveNonblock(t)
  <2>1. PICK stat \in Answers(t) : Apply(t, stat) /\ ShoveOn(t, stat)
    BY <1>10 DEF ShoveNonblock
  <2>2. ~Uncounted(t) /\ ~Uncounted(t)' /\ pc[t] = "operate"
    BY <1>0, <1>1, <1>8, <1>10, <2>1 DEF ShoveNonblock
  <2>3. QED
    BY <1>0, <1>10, <2>1, <2>2 DEF ShoveNonblock, ShoveOn, Turn
<1>11. QED
  BY <1>0, <1>2, <1>3, <1>4, <1>5, <1>6, <1>7, <1>9, <1>10
     DEF Step, Nonblock, Rest, TimingTest, ThroughputTest, MutexRelease, NonblockOperate,
         MutexOperate, MutexPop

LEMMA ShoveBooks ==
  ASSUME IInv, [Next]_vars, Shoves, NEW t \in Threads, Step(t)
  PROVE  Conserved'
<1>0. /\ TypeOK /\ Workers' = Workers /\ items \in Nat /\ op[t] \in Op /\ end[t] \in End
      /\ shove \in [Threads -> [End -> BOOLEAN]] /\ ~Timing' /\ Shoves' /\ PUSH \in Op /\ POP \in Op
  <2>1. TypeOK
    BY DEF IInv
  <2>2. Workers' = Workers /\ ~Timing /\ run' = run
    BY <2>1, RunKept, RunFacts
  <2>3. ~Timing' /\ Shoves'
    BY <2>2 DEF Timing, Shoves
  <2>4. QED
    BY <2>1, <2>2, <2>3 DEF TypeOK, Op
<1> DEFINE p == Cardinality(Pending(PUSH))
           q == Cardinality(Pending(POP))
           c == Cardinality(Turned)
           m == Total(PUSH)
           n == Total(POP)
           d(o) == (IF t \in Workers /\ op'[t] = o /\ Uncounted(t)' THEN 1 ELSE 0)
                     - (IF t \in Workers /\ op[t] = o /\ Uncounted(t) THEN 1 ELSE 0)
           dp == d(PUSH)
           dq == d(POP)
<1>1. /\ items = m - n + (p - q) - c /\ room[LEFT] + room[RIGHT] + items = 2 * Room
      /\ \A e \in End : room[e] >= 0
  BY DEF IInv, Conserved
<1>2. /\ p \in Nat /\ q \in Nat /\ p' \in Nat /\ q' \in Nat
      /\ p' = p + dp /\ q' = q + dq /\ dp \in Int /\ dq \in Int
  BY <1>0, PendingStep
<1>3. SUFFICES /\ items' = m' - n' + (p' - q') - c' /\ items' \in Nat
               /\ room'[LEFT] + room'[RIGHT] + items' = 2 * Room
               /\ \A e \in End : room'[e] >= 0
  <2>1. \A i \in Nat : i >= 0
    OBVIOUS
  <2>2. QED
    BY <1>0, <2>1 DEF Conserved
<1>4. \A stat : Turn(t, stat) /\ t \in Workers =>
        c \in Nat /\ c' \in Nat
        /\ c' + (IF shove[t][end[t]] THEN 0 ELSE 1) =
             c + (IF shove[t][end[t]] = (stat = OK) THEN 0 ELSE 1)
  <2> SUFFICES ASSUME NEW stat, Turn(t, stat), t \in Workers
               PROVE  c \in Nat /\ c' \in Nat
                      /\ c' + (IF shove[t][end[t]] THEN 0 ELSE 1) =
                           c + (IF shove[t][end[t]] = (stat = OK) THEN 0 ELSE 1)
    OBVIOUS
  <2> DEFINE b == IF stat = OK THEN shove[t][end[t]] ELSE ~shove[t][end[t]]
  <2>1. t \in Threads /\ shove[t][end[t]] \in BOOLEAN
    BY <1>0
  <2>2. b \in BOOLEAN /\ shove' = [shove EXCEPT ![t][end[t]] = b]
    BY <2>1 DEF Turn
  <2>3. b <=> (shove[t][end[t]] = (stat = OK))
    BY <2>1
  <2> HIDE DEF b
  <2>4. QED
    BY <1>0, <2>2, <2>3, TurnedStep
<1>5. Score(t, 1) /\ t \in Workers =>
        /\ m' = m + (IF op[t] = PUSH THEN 1 ELSE 0)
        /\ n' = n + (IF op[t] = POP THEN 1 ELSE 0)
  BY <1>0, TotalGrows
<1>6. UNCHANGED tally => m' = m /\ n' = n
  BY <1>0, TotalKept
<1>7. UNCHANGED shove => c' = c
  BY <1>0 DEF Turned
<1>8. m \in Nat /\ n \in Nat /\ c \in Nat
  BY <1>0, CountedFinite, TurnedFinite
<1>9. op[t] = PUSH \/ op[t] = POP
  BY <1>0 DEF Op
<1>11. \A stat \in Answers(t) : Apply(t, stat) =>
         /\ stat \in {OK, IF op[t] = PUSH THEN FULL ELSE EMPTY}
         /\ items' \in Nat /\ items' = items + IF stat = OK THEN Gain(op[t]) ELSE 0
         /\ room'[LEFT] + room'[RIGHT] + items' = 2 * Room
         /\ \A e \in End : room'[e] >= 0
  BY <1>0, <1>1, ApplyGain
<1>12. pc[t] \in {"operate", "after"} =>
         /\ op[t] = PUSH <=> shove[t][end[t]]
         /\ pc[t] = "after" => ret[t] \in {OK, IF op[t] = PUSH THEN FULL ELSE EMPTY}
  BY DEF IInv, Doing, Chosen, PUSH, POP
<1> HIDE DEF m, n, c, p, q, dp, dq
<1>13. CASE /\ UNCHANGED <<items, room, tally, shove>>
            /\ Uncounted(t)' <=> Uncounted(t)
            /\ Uncounted(t) => op'[t] = op[t]
  <2>1. dp = 0 /\ dq = 0
    BY <1>13 DEF dp, dq
  <2>2. p' = p /\ q' = q
    BY <1>2, <2>1
  <2>3. QED
    BY <1>0, <1>1, <1>6, <1>7, <1>13, <2>2
<1>14. ASSUME NEW stat \in Answers(t), Apply(t, stat), UNCHANGED <<tally, shove>>,
              ~Uncounted(t), Uncounted(t)' <=> stat = OK, op'[t] = op[t], t \in Workers
       PROVE  items' = m' - n' + (p' - q') - c'
  <2>3. CASE stat = OK /\ op[t] = PUSH
    <3>1. dp = 1 /\ dq = 0 /\ items' = items + 1
      BY <1>11, <1>14, <2>3 DEF Gain, PUSH, POP, dp, dq
    <3>2. QED
      BY <1>0, <1>1, <1>2, <1>6, <1>7, <1>8, <1>14, <3>1
  <2>4. CASE stat = OK /\ op[t] = POP
    <3>1. dp = 0 /\ dq = 1 /\ items' = items - 1
      BY <1>0, <1>11, <1>14, <2>4 DEF Gain, PUSH, POP, dp, dq
    <3>2. QED
      BY <1>0, <1>1, <1>2, <1>6, <1>7, <1>8, <1>14, <3>1
  <2>5. CASE stat # OK
    <3>1. dp = 0 /\ dq = 0 /\ items' = items
      BY <1>0, <1>11, <1>14, <2>5 DEF dp, dq
    <3>2. QED
      BY <1>0, <1>1, <1>2, <1>6, <1>7, <1>8, <1>14, <3>1
  <2>6. QED
    BY <1>9, <2>3, <2>4, <2>5
\* The change of c and of the totals, for an operation that is counted.
<1>15. ASSUME NEW stat, Turn(t, stat), Score(t, 1), t \in Workers,
              op[t] = PUSH <=> shove[t][end[t]],
              stat \in {OK, IF op[t] = PUSH THEN FULL ELSE EMPTY}
       PROVE  m' - n' - c' = (m - n) - c + (IF stat = OK THEN Gain(op[t]) ELSE 0)
              /\ c' \in Nat /\ m' \in Nat /\ n' \in Nat
  <2>1. CASE stat = OK
    <3>1. c' = c
      BY <1>0, <1>4, <1>8, <1>15, <2>1
    <3>2. QED
      BY <1>5, <1>8, <1>9, <1>15, <2>1, <3>1 DEF Gain, PUSH, POP
  <2>2. CASE stat # OK /\ op[t] = PUSH
    <3>1. c' = c + 1
      BY <1>0, <1>4, <1>8, <1>15, <2>2
    <3>2. QED
      BY <1>5, <1>8, <1>15, <2>2, <3>1 DEF PUSH, POP
  <2>3. CASE stat # OK /\ op[t] = POP
    <3>1. c' + 1 = c
      BY <1>0, <1>4, <1>8, <1>15, <2>3 DEF PUSH, POP
    <3>2. QED
      BY <1>4, <1>5, <1>8, <1>15, <2>3, <3>1 DEF PUSH, POP
  <2>4. QED
    BY <1>9, <2>1, <2>2, <2>3
<1>16. CASE /\ Turn(t, ret[t]) /\ Score(t, 1) /\ UNCHANGED <<items, room>>
            /\ (Uncounted(t) <=> ret[t] = OK) /\ ~Uncounted(t)'
            /\ pc[t] = "after" /\ t \in Workers
  <2>1. /\ m' - n' - c' = (m - n) - c + (IF ret[t] = OK THEN Gain(op[t]) ELSE 0)
        /\ c' \in Nat /\ m' \in Nat /\ n' \in Nat
    BY <1>12, <1>15, <1>16
  <2> DEFINE g == IF ret[t] = OK THEN Gain(op[t]) ELSE 0
  <2>2. g \in Int /\ dp - dq = -g
    BY <1>9, <1>16 DEF Gain, PUSH, POP, dp, dq
  <2>3. items' = m' - n' + (p' - q') - c'
    <3>1. m' - n' - c' = (m - n) - c + g
      BY <2>1
    <3> HIDE DEF g
    <3>2. QED
      BY <1>0, <1>1, <1>2, <1>8, <1>16, <2>1, <2>2, <3>1
  <2>4. QED
    BY <1>0, <1>1, <1>16, <2>3
<1>17. ASSUME NEW stat \in Answers(t), Apply(t, stat), Turn(t, stat), Score(t, 1),
              ~Uncounted(t), ~Uncounted(t)', pc[t] = "operate", t \in Workers
       PROVE  items' = m' - n' + (p' - q') - c'
  <2>1. /\ m' - n' - c' = (m - n) - c + (IF stat = OK THEN Gain(op[t]) ELSE 0)
        /\ c' \in Nat /\ m' \in Nat /\ n' \in Nat
    BY <1>11, <1>12, <1>15, <1>17
  <2> DEFINE g == IF stat = OK THEN Gain(op[t]) ELSE 0
  <2>2. g \in Int /\ dp = 0 /\ dq = 0
    BY <1>17 DEF Gain, dp, dq
  <2>3. items' = items + g /\ m' - n' - c' = (m - n) - c + g
    BY <1>11, <1>17, <2>1
  <2> HIDE DEF g
  <2>4. QED
    BY <1>0, <1>1, <1>2, <1>8, <2>1, <2>2, <2>3
<1>18. QED
  BY <1>11, <1>13, <1>14, <1>16, <1>17, ShoveDeed

\* In a throughput run without the lock an operation and its count are one.
LEMMA FreeBooks ==
  ASSUME IInv, [Next]_vars, ~Timing, ~Shoves, NEW t \in Threads, Step(t)
  PROVE  Conserved'
<1>0. /\ TypeOK /\ ~Timing' /\ ~Shoves' /\ Locked' = Locked /\ Workers' = Workers /\ op[t] \in Op
      /\ (pc[t] \in InLoop => t \in Workers) /\ items \in Nat /\ PUSH \in Op /\ POP \in Op
  <2>1. TypeOK /\ run' = run /\ Locked' = Locked /\ Workers' = Workers
    BY RunKept DEF IInv
  <2>2. ~Timing' /\ ~Shoves'
    BY <2>1 DEF Timing, Shoves
  <2>3. QED
    BY <2>1, <2>2 DEF IInv, Places, TypeOK, Op
<1>1. SUFFICES ASSUME ~Locked PROVE items' = Total(PUSH)' - Total(POP)'
  BY <1>0 DEF Conserved
<1>2. /\ items = Total(PUSH) - Total(POP) /\ Total(PUSH) \in Nat /\ Total(POP) \in Nat
      /\ pc[t] \notin {"unlock", "pop", "after"}
  BY <1>0, <1>1, CountedFinite DEF IInv, Conserved, Doing, LockHeld
<1>3. CASE NonblockOperate(t) /\ ~(UNCHANGED <<deque, tally>>)
  <2>1. Score(t, 1) /\ items' = items + Gain(op[t]) /\ t \in Workers
    BY <1>0, <1>3 DEF NonblockOperate, Take, Gain, InLoop
  <2>2. \A o \in Op : Total(o)' = Total(o) + IF o = op[t] THEN 1 ELSE 0
    BY <1>0, <2>1, TotalGrows
  <2>3. QED
    BY <1>0, <1>2, <2>1, <2>2 DEF Gain, Op, PUSH, POP
<1>4. CASE ~NonblockOperate(t) \/ UNCHANGED <<deque, tally>>
  <2>1. UNCHANGED <<items, tally>>
    BY <1>0, <1>1, <1>2, <1>4
       DEF Step, Nonblock, Rest, ReadArgs, Arrive, Clock, Kill, TimingTest, ThroughputTest, Count,
           Acquire, MutexRelease, ShoveTest, ShoveRelease, ShoveAfter, NonblockOperate,
           MutexOperate, MutexPop, ShoveNonblock, ShoveMutex, deque, scores
  <2>2. QED
    BY <1>0, <1>2, <2>1, TotalKept
<1>5. QED
  BY <1>3, <1>4

\* A step that is none of a thread's owes nothing new.
LEMMA NobodyOwes ==
  ASSUME IInv, [Next]_vars, Spawn \/ Join \/ UNCHANGED vars, NEW o \in Op
  PROVE  Pending(o)' = Pending(o) /\ Releasing(o)' = Releasing(o)
<1>1. /\ TypeOK /\ Workers' = Workers /\ Locked' = Locked /\ Shoves' = Shoves /\ Workers \subseteq Threads
      /\ op' = op /\ ret' = ret
  <2>1. TypeOK /\ op' = op /\ ret' = ret
    BY DEF IInv, Spawn, Join, vars, scores
  <2>2. QED
    BY <2>1, RunKept, RunFacts
<1>2. \A u \in Threads : pc'[u] = pc[u] \/ (pc[u] = "unborn" /\ pc'[u] = "born")
  <2>1. CASE Spawn
    <3>1. spawned \in Threads /\ pc[spawned] = "unborn"
      BY <1>1, <2>1, RunFacts DEF Spawn, IInv, Born, TypeOK, Threads
    <3>2. QED
      BY <1>1, <2>1, <3>1 DEF Spawn, TypeOK
  <2>2. CASE ~Spawn
    BY <2>2 DEF Join, vars
  <2>3. QED
    BY <2>1, <2>2
<1>3. \A u \in Threads :
        (Uncounted(u)' <=> Uncounted(u)) /\ (pc'[u] = "unlock" <=> pc[u] = "unlock")
  BY <1>1, <1>2 DEF Uncounted
<1>4. QED
  BY <1>1, <1>3 DEF Pending, Releasing

LEMMA ConservedNext == IInv /\ [Next]_vars => Conserved'
<1> SUFFICES ASSUME IInv, [Next]_vars PROVE Conserved'
  OBVIOUS
<1>1. CASE Spawn \/ Join \/ UNCHANGED vars
  <2>1. UNCHANGED <<items, room, tally, shove, counter>>
    BY <1>1 DEF Spawn, Join, vars, deque, scores
  <2>2. QED
    BY <1>1, <2>1, NobodyOwes, BooksKept
<1>2. ASSUME NEW t \in Threads, Step(t) PROVE Conserved'
  BY <1>2, TimingBooks, ShoveBooks, FreeBooks
<1>3. QED
  BY <1>1, <1>2 DEF Next

\* Under the lock a push is counted when it is released, a pop before that
\* and then once more.
LEMMA DoubledNext == IInv /\ [Next]_vars => Doubled'
<1> SUFFICES ASSUME IInv, [Next]_vars PROVE Doubled'
  OBVIOUS
<1> SUFFICES ASSUME Locked, ~Timing, ~Shoves PROVE Doubled'
  <2>1. Timing' = Timing /\ Locked' = Locked /\ Shoves' = Shoves
    BY RunKept
  <2>2. QED
    BY <2>1 DEF Doubled
<1>0. /\ TypeOK /\ Workers' = Workers /\ items \in Nat /\ PUSH \in Op /\ POP \in Op
  <2>1. TypeOK /\ Workers' = Workers
    BY RunKept DEF IInv
  <2>2. QED
    BY <2>1 DEF TypeOK, Op
<1> DEFINE m == Total(PUSH)
           n == Total(POP)
           p == Cardinality(Releasing(PUSH))
           q == Cardinality(Releasing(POP))
<1>1. /\ m \in Nat /\ n \in Nat /\ n + q >= 2 * (m + p - items)
  BY <1>0, CountedFinite DEF IInv, Doubled
<1>2. SUFFICES n' + q' >= 2 * (m' + p' - items')
  BY DEF Doubled
<1>3. CASE Spawn \/ Join \/ UNCHANGED vars
  <2>1. UNCHANGED <<items, tally>>
    BY <1>3 DEF Spawn, Join, vars, deque, scores
  <2>2. p' = p /\ q' = q /\ m' = m /\ n' = n
    BY <1>0, <1>3, <2>1, NobodyOwes, TotalKept
  <2> HIDE DEF m, n, p, q
  <2>3. QED
    BY <1>1, <2>1, <2>2
<1>4. ASSUME NEW t \in Threads, Step(t) PROVE n' + q' >= 2 * (m' + p' - items')
  <2> DEFINE d(o) == (IF t \in Workers /\ op'[t] = o /\ pc'[t] = "unlock" THEN 1 ELSE 0)
                       - (IF t \in Workers /\ op[t] = o /\ pc[t] = "unlock" THEN 1 ELSE 0)
             dp == d(PUSH)
             dq == d(POP)
  <2>1. /\ p \in Nat /\ q \in Nat /\ p' \in Nat /\ q' \in Nat
        /\ p' = p + dp /\ q' = q + dq /\ dp \in Int /\ dq \in Int
    <3>1. ASSUME NEW o \in Op
          PROVE  /\ Cardinality(Releasing(o)) \in Nat /\ Cardinality(Releasing(o)') \in Nat
                 /\ Cardinality(Releasing(o)') = Cardinality(Releasing(o)) + d(o)
      <4>1. Releasing(o)' \ {t} = Releasing(o) \ {t} /\ IsFiniteSet(Releasing(o))
        BY <1>4, <3>1, OthersOwe
      <4>2. /\ t \in Releasing(o) <=> t \in Workers /\ op[t] = o /\ pc[t] = "unlock"
            /\ t \in Releasing(o)' <=> t \in Workers /\ op'[t] = o /\ pc'[t] = "unlock"
        BY <1>0 DEF Releasing
      <4>3. QED
        BY <4>1, <4>2, SameButOne
    <3>2. QED
      BY <1>0, <3>1
  <2>2. /\ pc[t] \in InLoop => t \in Workers
        /\ pc[t] = "pop" => op[t] = POP
        /\ pc[t] \notin {"count", "after"} /\ op[t] \in Op /\ pc \in [Threads -> Label]
        /\ op \in [Threads -> Op]
    BY <1>0 DEF IInv, Places, LockHeld, Doing, TypeOK, Label
  <2>3. Score(t, 1) /\ t \in Workers =>
          /\ m' = m + (IF op[t] = PUSH THEN 1 ELSE 0)
          /\ n' = n + (IF op[t] = POP THEN 1 ELSE 0)
    BY <1>0, TotalGrows
  <2>4. UNCHANGED tally => m' = m /\ n' = n
    BY <1>0, TotalKept
  <2>5. op[t] = PUSH \/ op[t] = POP
    BY <2>2 DEF Op
  <2> HIDE DEF m, n, p, q, dp, dq
  <2>6. CASE MutexOperate(t)
    <3>1. CASE op[t] = PUSH
      <4>1. items' = items + 1 /\ UNCHANGED tally /\ dp = 1 /\ dq = 0
        BY <2>2, <2>6, <3>1 DEF MutexOperate, Take, Goto, scores, InLoop, dp, dq, PUSH, POP
      <4>2. QED
        BY <1>0, <1>1, <2>1, <2>4, <4>1
    <3>2. CASE op[t] = POP
      <4>1. items' = items /\ UNCHANGED tally /\ dp = 0 /\ dq \in {0, 1}
        BY <2>2, <2>6, <3>2 DEF MutexOperate, Goto, scores, deque, InLoop, dp, dq, PUSH, POP
      <4>2. QED
        BY <1>0, <1>1, <2>1, <2>4, <4>1
    <3>3. QED
      BY <2>5, <3>1, <3>2
  <2>7. CASE MutexPop(t)
    <3>1. /\ items' = items - 1 /\ Score(t, 1) /\ t \in Workers /\ op[t] = POP
          /\ dp = 0 /\ dq = 1
      BY <1>0, <2>2, <2>7 DEF MutexPop, Take, Goto, InLoop, dp, dq, PUSH, POP
    <3>2. m' = m /\ n' = n + 1
      BY <1>1, <2>3, <3>1 DEF PUSH, POP
    <3>3. QED
      BY <1>0, <1>1, <2>1, <3>1, <3>2
  <2>8. CASE MutexRelease(t)
    <3>1. /\ items' = items /\ Score(t, 1) /\ t \in Workers
          /\ dp = -(IF op[t] = PUSH THEN 1 ELSE 0) /\ dq = -(IF op[t] = POP THEN 1 ELSE 0)
      BY <1>0, <2>2, <2>8 DEF MutexRelease, Goto, InLoop, deque, dp, dq, PUSH, POP
    <3>2. QED
      BY <1>0, <1>1, <2>1, <2>3, <2>5, <3>1 DEF PUSH, POP
  <2>9. CASE ~MutexOperate(t) /\ ~MutexPop(t) /\ ~MutexRelease(t)
    <3>1. UNCHANGED <<items, tally>> /\ dp = 0 /\ dq = 0
      <4>1. CASE Arrive(t)
        <5>1. Beyond(t) # "unlock"
          BY DEF Beyond
        <5>2. pc[t] # "unlock" /\ pc'[t] # "unlock"
          BY <2>2, <4>1, <5>1, ArriveTogether DEF Arrive
        <5>3. QED
          BY <4>1, <5>2 DEF Arrive, deque, scores, dp, dq
      <4>2. CASE ReadArgs(t) \/ Clock(t) \/ Kill(t) \/ Acquire(t)
        BY <2>2, <4>2 DEF ReadArgs, Clock, Kill, Acquire, Goto, deque, scores, dp, dq
      <4>3. CASE ThroughputTest(t)
        BY <2>2, <4>3 DEF ThroughputTest, Begin, LeaveLoop, Goto, deque, scores, dp, dq
      <4>4. QED
        BY <1>4, <2>2, <2>9, <4>1, <4>2, <4>3
           DEF Step, Nonblock, Rest, TimingTest, Count, ShoveTest, ShoveRelease, ShoveAfter,
               NonblockOperate, ShoveNonblock, ShoveMutex
    <3>2. QED
      BY <1>0, <1>1, <2>1, <2>4, <3>1
  <2>10. QED
    BY <2>6, <2>7, <2>8, <2>9
<1>5. QED
  BY <1>3, <1>4 DEF Next

\* An operation keeps the direction it began in until it is answered.
LEMMA DoingNext == IInv /\ [Next]_vars => Doing'
<1> SUFFICES ASSUME IInv, [Next]_vars PROVE Doing'
  OBVIOUS
<1>0. /\ TypeOK /\ run' = run /\ Doing
      /\ pc \in [Threads -> Label] /\ op \in [Threads -> Op] /\ end \in [Threads -> End]
      /\ ret \in [Threads -> {OK, EMPTY, FULL}] /\ shove \in [Threads -> [End -> BOOLEAN]]
  BY RunKept DEF IInv, TypeOK, Label
<1>1. /\ Timing' <=> Timing
      /\ Shoves' <=> Shoves
      /\ Locked' <=> Locked
  BY <1>0 DEF Timing, Shoves, Locked
<1> DEFINE Good(u) ==
      /\ pc[u] = "unlock" => Locked
      /\ pc[u] = "count" => Timing
      /\ pc[u] = "after" => Shoves
      /\ Shoves /\ pc[u] \in {"lock", "operate", "unlock", "after"} => op[u] = Chosen(u, end[u])
      /\ Shoves /\ pc[u] \in {"unlock", "after"} =>
           ret[u] \in {OK, IF op[u] = PUSH THEN FULL ELSE EMPTY}
<1>2. \A u \in Threads : Good(u)
  BY <1>0 DEF Doing
<1>3. SUFFICES ASSUME NEW u \in Threads PROVE Good(u)'
  BY DEF Doing
<1>4. ASSUME pc'[u] = pc[u] \/ pc'[u] \notin {"lock", "operate", "count", "unlock", "after"},
             op'[u] = op[u], end'[u] = end[u], ret'[u] = ret[u], shove'[u] = shove[u]
      PROVE  Good(u)'
  BY <1>1, <1>2, <1>4 DEF Chosen
<1>5. CASE Spawn \/ Join \/ UNCHANGED vars
  BY <1>0, <1>4, <1>5 DEF Spawn, Join, vars, scores
<1>6. ASSUME NEW t \in Threads, Arrive(t) PROVE Good(u)'
  <2>1. Beyond(u) \notin {"lock", "operate", "count", "unlock", "after"}
    BY DEF Beyond
  <2>2. pc'[u] = pc[u] \/ pc'[u] \notin {"lock", "operate", "count", "unlock", "after"}
    BY <1>0, <1>6, <2>1 DEF Arrive, Goto
  <2>3. QED
    BY <1>4, <1>6, <2>2 DEF Arrive, scores
<1>7. ASSUME NEW t \in Threads, Step(t), ~Arrive(t), t # u PROVE Good(u)'
  <2>1. pc'[u] = pc[u]
    BY <1>0, <1>7, Moves DEF Label
  <2>2. op'[u] = op[u]
    BY <1>7, Counts
  <2>3. end'[u] = end[u] /\ ret'[u] = ret[u] /\ shove'[u] = shove[u]
    BY <1>0, <1>7
       DEF Step, Nonblock, Rest, ReadArgs, Clock, Kill, TimingTest, ThroughputTest, Count,
           Acquire, MutexRelease, ShoveTest, ShoveRelease, ShoveAfter, NonblockOperate,
           MutexOperate, MutexPop, ShoveNonblock, ShoveMutex, ShoveOn, Begin, LeaveLoop, scores
  <2>4. QED
    BY <1>4, <2>1, <2>2, <2>3
<1>8. ASSUME Step(u), ~Arrive(u) PROVE Good(u)'
  <2> USE DEF Goto
  <2>0. (Timing => ~Shoves) /\ (pc[u] = "pop" => Locked /\ ~Shoves)
    BY <1>0, RunFacts DEF IInv, LockHeld
  <2>1. CASE ReadArgs(u) \/ Clock(u) \/ Kill(u)
    BY <1>0, <1>4, <2>1 DEF ReadArgs, Clock, Kill, scores
  <2>2. CASE Count(u) \/ MutexRelease(u) \/ NonblockOperate(u) \/ MutexOperate(u) \/ MutexPop(u)
    <3>1. ~Shoves /\ (pc'[u] = "unlock" => Locked) /\ (pc'[u] = "count" => Timing)
          /\ pc'[u] # "after"
      BY <1>0, <1>2, <2>0, <2>2 DEF Count, MutexRelease, NonblockOperate, MutexOperate, MutexPop
    <3>2. QED
      BY <1>1, <3>1
  <2>3. CASE TimingTest(u) \/ ThroughputTest(u)
    <3>1. ~Shoves /\ pc'[u] \in {"lock", "operate", "finish", "exit"}
      BY <1>0, <2>0, <2>3 DEF TimingTest, ThroughputTest, Begin, LeaveLoop
    <3>2. QED
      BY <1>1, <3>1
  <2>4. CASE ShoveTest(u)
    <3>1. CASE Begin(u, LEFT, Chosen(u, LEFT))
      <4>1. /\ op'[u] = Chosen(u, LEFT) /\ end'[u] = LEFT /\ shove' = shove
            /\ pc'[u] \in {"lock", "operate"}
        BY <1>0, <2>4, <3>1 DEF ShoveTest, Begin, scores
      <4>2. QED
        BY <1>1, <4>1 DEF Chosen
    <3>2. CASE LeaveLoop(u, "exit")
      BY <1>0, <1>4, <2>4, <3>2 DEF ShoveTest, LeaveLoop, scores
    <3>3. QED
      BY <2>4, <3>1, <3>2 DEF ShoveTest
  <2>5. CASE Acquire(u)
    <3>1. /\ pc[u] = "lock" /\ pc'[u] \in {"lock", "operate"} /\ op' = op /\ end' = end
          /\ shove' = shove
      BY <1>0, <2>5 DEF Acquire, scores
    <3>2. QED
      BY <1>1, <1>2, <3>1 DEF Chosen
  <2>6. CASE ShoveMutex(u)
    <3>1. PICK stat \in Answers(u) : Apply(u, stat) /\ ret' = [ret EXCEPT ![u] = stat]
      BY <2>6 DEF ShoveMutex
    <3>2. stat \in {OK, IF op[u] = PUSH THEN FULL ELSE EMPTY}
      BY <1>0, <3>1, ApplyGain
    <3>3. /\ pc[u] = "operate" /\ pc'[u] = "unlock" /\ op' = op /\ end' = end /\ shove' = shove
          /\ ret'[u] = stat /\ Locked
      BY <1>0, <2>6, <3>1 DEF ShoveMutex
    <3>4. QED
      BY <1>1, <1>2, <3>2, <3>3 DEF Chosen
  <2>7. CASE ShoveRelease(u)
    <3>1. /\ pc[u] = "unlock" /\ pc'[u] = "after" /\ op' = op /\ end' = end /\ shove' = shove
          /\ ret' = ret /\ Shoves
      BY <1>0, <2>7 DEF ShoveRelease, scores
    <3>2. QED
      BY <1>1, <1>2, <3>1 DEF Chosen
  <2>8. CASE ShoveAfter(u) \/ ShoveNonblock(u)
    <3>1. PICK stat : ShoveOn(u, stat)
      BY <2>8 DEF ShoveAfter, ShoveNonblock
    <3>2. CASE end[u] = LEFT
      <4>1. shove'[u][RIGHT] = shove[u][RIGHT]
        BY <1>0, <3>1, <3>2 DEF ShoveOn, LEFT, RIGHT, End
      <4>2. /\ op'[u] = Chosen(u, RIGHT) /\ end'[u] = RIGHT /\ pc'[u] \in {"lock", "operate"}
        BY <1>0, <3>1, <3>2 DEF ShoveOn, Begin
      <4>3. QED
        BY <1>1, <4>1, <4>2 DEF Chosen
    <3>3. CASE end[u] # LEFT
      <4>1. pc'[u] = "test"
        BY <1>0, <3>1, <3>3 DEF ShoveOn
      <4>2. QED
        BY <4>1
    <3>4. QED
      BY <3>2, <3>3
  <2>9. QED
    BY <1>8, <2>1, <2>2, <2>3, <2>4, <2>5, <2>6, <2>7, <2>8 DEF Step, Nonblock, Rest
<1>9. QED
  BY <1>5, <1>6, <1>7, <1>8 DEF Next

LEMMA EndedNext == IInv /\ [Next]_vars => Ended'
<1> SUFFICES ASSUME IInv, [Next]_vars, main' = "done", ~Timing, NEW t \in Workers
             PROVE  pc'[t] = "exit"
  BY RunKept DEF Ended
<1>0. TypeOK /\ Workers \subseteq Threads
  BY RunFacts DEF IInv
<1>1. CASE Spawn
  BY <1>1 DEF Spawn
<1>2. CASE Join
  BY <1>2 DEF Join
<1>3. CASE UNCHANGED vars
  BY <1>3 DEF vars, control, IInv, Ended
<1>4. ASSUME NEW u \in Threads, Step(u) PROVE pc'[t] = "exit"
  <2>1. CASE Arrive(u)
    <3>1. pc[t] = "exit"
      BY <2>1 DEF Arrive, IInv, Ended
    <3>2. t \in Crew /\ t \in Threads /\ pc[u] \in {"arrive", "finish"}
      BY <1>0, <2>1, RunFacts DEF Arrive
    <3>3. \/ \E v \in Crew :
               /\ pc[v] = "exit"
               /\ \/ \A w \in Crew : pc[w] \in {"arrive", "parked"}
                  \/ \A w \in Crew : pc[w] \in Leaving
          \/ pc' = [pc EXCEPT ![u] = IF pc[u] = "arrive" THEN "parked" ELSE "reparked"]
      BY <2>1, <3>1, <3>2, ArriveTogether
    <3>4. QED
      BY <1>0, <3>1, <3>2, <3>3 DEF TypeOK, Leaving
  <2>2. CASE ~Arrive(u)
    <3>1. pc[t] = "exit"
      BY <1>4, <2>2, Moves DEF IInv, Ended
    <3>2. QED
      BY <1>0, <1>4, <2>2, <3>1, Moves DEF TypeOK, InLoop
  <2>3. QED
    BY <2>1, <2>2
<1>5. QED
  BY <1>1, <1>2, <1>3, <1>4 DEF Next

-----------------------------------------------------------------------------
(* Theorems *)

LEMMA IInvInit == Init => IInv
<1> SUFFICES ASSUME Init PROVE IInv
  OBVIOUS
<1>1. TypeOK
  <2>1. 0 \in Threads
    BY ThreadsAssumption DEF Threads
  <2>2. /\ room \in [End -> Nat] /\ counter \in [{"all"} \cup Op -> Nat]
        /\ tally \in [Threads -> [Op -> Nat]] /\ shove \in [Threads -> [End -> BOOLEAN]]
    BY NumbersAssumption DEF Init
  <2>3. at \in [Threads -> {"out", "tas", "in"}] /\ word \in {0, 1}
    BY DEF Init, Lock!TasInit, Lock!ClientsInit
  <2>4. QED
    BY <2>1, <2>2, <2>3 DEF Init, TypeOK, End, Op, InLoop
<1>2. Born /\ Barrier /\ Places /\ Finished
  BY <1>1, RunFacts DEF Init, Born, Barrier, Places, Finished, Before, Leaving, Left, InLoop, Threads
<1>3. LockHeld
  BY <1>1 DEF Init, LockHeld, Holding, Lock!TasInit, Lock!ClientsInit
<1>4. Shares
  <2> SUFFICES ASSUME NEW o \in Op PROVE Share(o)
    BY DEF Shares
  <2>1. counter[Key(o)] = 0
    BY DEF Init, Key
  <2>2. Underway(o) = {}
    BY <1>1, RunFacts DEF Init, Underway, Owes, Team
  <2>3. QED
    BY <1>1, <2>1, <2>2, RunFacts, TeamFinite, FS_EmptySet DEF Share
<1>5. Alone
  BY <1>1, RunFacts DEF Init, Alone, Before, Op, Threads
<1>6. Doing /\ Ended
  BY <1>1 DEF Init, Doing, Ended
<1>7. \A o \in Op : Pending(o) = {} /\ Releasing(o) = {} /\ Counted(o) = {}
  BY <1>1, RunFacts DEF Init, Pending, Uncounted, Releasing, Counted
<1>8. /\ Cardinality(Pending(PUSH)) = 0 /\ Cardinality(Pending(POP)) = 0
      /\ Cardinality(Releasing(PUSH)) = 0 /\ Cardinality(Releasing(POP)) = 0
      /\ Total(PUSH) = 0 /\ Total(POP) = 0
  BY <1>7, FS_EmptySet DEF Op, Total
<1>9. Conserved /\ Doubled
  <2>1. Turned = {} /\ Cardinality(Turned) = 0
    <3>1. Turned = {}
      BY <1>1, RunFacts DEF Init, Turned
    <3>2. QED
      BY <3>1, FS_EmptySet
  <2>2. /\ items = 0 /\ room = [e \in End |-> Room] /\ Room \in Nat
        /\ counter = [c \in {"all"} \cup Op |-> 0]
    BY NumbersAssumption DEF Init
  <2>3. /\ room[LEFT] = Room /\ room[RIGHT] = Room
        /\ counter[PUSH] = 0 /\ counter[POP] = 0 /\ counter["all"] = 0
    BY <2>2 DEF End, Op
  <2>4. QED
    BY <1>8, <2>1, <2>2, <2>3 DEF Conserved, Doubled
<1>10. QED
  BY <1>1, <1>2, <1>3, <1>4, <1>5, <1>6, <1>9 DEF IInv

LEMMA IInvNext == IInv /\ [Next]_vars => IInv'
  BY TypeNext, BornNext, BarrierNext, PlacesNext, LockHeldNext, SharesNext, AloneNext, FinishedNext,
     DoingNext, ConservedNext, DoubledNext, EndedNext
     DEF IInv

\* The inductive invariant holds in every state of every run.
THEOREM ExperimentsInvariance == Spec => []IInv
  BY IInvInit, IInvNext, PTL DEF Spec

\* The variables keep their types; in particular no deque is popped below
\* empty, and no end of a bounded one is pushed to beyond its room.
THEOREM ExperimentsTypes == Spec => []TypeOK
<1>1. IInv => TypeOK
  BY DEF IInv
<1>2. QED
  BY <1>1, ExperimentsInvariance, PTL

\* A timing run makes fewer operations beyond op_count than it has workers.
THEOREM OvershootBounded == Spec => []Overshoot
<1>1. IInv => Overshoot
  <2> SUFFICES ASSUME IInv, Timing, NEW o \in Op
               PROVE  counter[Key(o)] <= IF Limit = 0 THEN 0 ELSE Limit - 1 + Cardinality(Team(o))
    BY DEF Overshoot
  <2>1. Share(o) /\ counter[Key(o)] \in Nat /\ Limit \in Nat
    BY RunFacts DEF IInv, Shares, TypeOK, Key
  <2>2. Cardinality(Underway(o)) \in Nat /\ Cardinality(Team(o)) \in Nat
    BY TeamFinite DEF IInv
  <2>3. QED
    BY <2>1, <2>2 DEF Share
<1>2. QED
  BY <1>1, ExperimentsInvariance, PTL

\* What was counted is what is in the deque, whatever the threads do, in every
\* program: a shove that was refused shows in the direction of its worker.
THEOREM CountsConserved == Spec => []Conserved
<1>1. IInv => Conserved
  BY DEF IInv
<1>2. QED
  BY <1>1, ExperimentsInvariance, PTL

\* When a throughput run under the lock is done, every pop counts as two.
THEOREM PopsCountedTwice == Spec => []PopsCountTwice
<1>1. IInv => PopsCountTwice
  <2> SUFFICES ASSUME IInv, Locked, ~Timing, ~Shoves, main = "done"
               PROVE  Total(POP) >= 2 * (Total(PUSH) - items)
    BY DEF PopsCountTwice
  <2>1. Releasing(PUSH) = {} /\ Releasing(POP) = {}
    BY DEF IInv, Ended, Releasing
  <2>2. /\ Cardinality(Releasing(PUSH)) = 0 /\ Cardinality(Releasing(POP)) = 0
        /\ Total(PUSH) \in Nat /\ Total(POP) \in Nat /\ items \in Nat
    BY <2>1, FS_EmptySet, CountedFinite DEF IInv, TypeOK, Op
  <2>3. Total(POP) + 0 >= 2 * (Total(PUSH) + 0 - items)
    BY <2>2 DEF IInv, Doubled
  <2>4. QED
    BY <2>2, <2>3
<1>2. QED
  BY <1>1, ExperimentsInvariance, PTL

\* std_deque is never used by two threads and never popped from when empty.
THEOREM StdDequeSafety == Spec => []StdDequeSafe
<1>1. IInv => StdDequeSafe
  BY DEF IInv, LockHeld, StdDequeSafe, InSection, Holding
<1>2. QED
  BY <1>1, ExperimentsInvariance, PTL

\* The time that a timing run reports covers all of its operations.
THEOREM TimesEverything == Spec => []TimesAll
<1>1. IInv => TimesAll
  <2> SUFFICES ASSUME IInv, timer = "read" PROVE TimesAll
    BY DEF TimesAll
  <2>1. TypeOK /\ Timing /\ pc[0] = "exit" /\ 0 \in Crew /\ Workers \subseteq Crew /\ Crew \subseteq Threads
    BY RunFacts DEF IInv, Finished
  <2>2. \A t \in Workers : pc[t] = "exit"
    BY <2>1 DEF IInv, Barrier, Finished, Left
  <2>3. \A o \in Op : Team(o) # {} => counter[Key(o)] >= Limit
    BY <2>1, <2>2 DEF IInv, Places, Team, Left
  <2>4. QED
    BY <2>2, <2>3 DEF TimesAll
<1>2. QED
  BY <1>1, ExperimentsInvariance, PTL

\* main does not free the arguments of a thread that has yet to read them.
THEOREM ArgsStayLive == Spec => []ArgsLive
<1>1. IInv => ArgsLive
  <2> SUFFICES ASSUME IInv, main = "done", NEW t \in 0 .. spawned - 1
               PROVE  pc[t] \notin {"unborn", "born"}
    BY DEF ArgsLive
  <2>1. 0 \in Crew /\ pc[0] = "exit" /\ t \in Crew
    BY RunFacts DEF IInv, Finished, Born, Crew, TypeOK, Threads
  <2>2. QED
    BY <2>1 DEF IInv, Barrier, Before
<1>2. QED
  BY <1>1, ExperimentsInvariance, PTL

\* A timing run of the stack or queue workflow with one thread never ends.
THEOREM HangingAlone == Spec => []HangsAlone
<1>1. IInv => HangsAlone
  BY DEF IInv, Alone, Finished, HangsAlone, Before
<1>2. QED
  BY <1>1, ExperimentsInvariance, PTL
=============================================================================
