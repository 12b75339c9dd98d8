----------------------------- MODULE Experiments -----------------------------
(***************************************************************************)
(* The four programs that measure the deques: exp/nonblock.cc and          *)
(* exp/mutex.cc of unbounded/ and of herlihy/.  Worker threads meet at a   *)
(* barrier and then push to and pop from one deque, either until enough    *)
(* operations were counted or until another thread raises stop.  The mutex *)
(* programs use a sequential deque behind the test-and-set lock.           *)
(*                                                                         *)
(* All the pushed pointers are alike, so a deque is the number of its      *)
(* elements.  Under the lock, the test of std_deque.empty() and the pop    *)
(* are two steps.  An operation of a nonblocking deque is one step, which  *)
(* an obstruction-free operation need not ever take, and EMPTY may be      *)
(* false when others use the deque.  That a pop may take a link of the     *)
(* unbounded deque, and elements with it, is not modelled: what is said of *)
(* the elements of a nonblocking run holds while that does not happen.     *)
(***************************************************************************)
EXTENDS Integers, FiniteSets

CONSTANTS
  MaxThreads,     \* bound: worker threads of a run
  Commands,       \* which programs are run, and with which options
  OpsPerThread,   \* op_count as given, before it is multiplied
  Room,           \* nodes that each half of a bounded deque can lend
  MaxOps,         \* bound: operations a worker makes before stop is raised
  MaxShoves       \* bound: the same for all the workers of a shove run

TIMING     == "timing"
THROUGHPUT == "throughput"
STACK      == "stack"
QUEUE      == "queue"
RANDOM     == "random"
SHOVE      == "shove"    \* herlihy/: push until FULL, then pop until EMPTY
LEFT       == "LEFT"
RIGHT      == "RIGHT"
PUSH       == "push"
POP        == "pop"
OK         == "OK"
EMPTY      == "EMPTY"
FULL       == "FULL"

Threads == 0 .. MaxThreads
End     == {LEFT, RIGHT}
Op      == {PUSH, POP}

ASSUME ThreadsAssumption  == MaxThreads \in Nat \ {0}
ASSUME NumbersAssumption  == OpsPerThread \in Nat /\ Room \in Nat /\ MaxOps \in Nat
                               /\ MaxShoves \in Nat
\* What the options -e, -w and -t can ask of the programs of unbounded/, and
\* what is fixed in those of herlihy/.  -o is op_count, if it comes where the
\* experiment is TIMING, or else the seconds of a throughput run.
Options ==
  [locked : BOOLEAN, experiment : {TIMING, THROUGHPUT},
   workflow : {STACK, QUEUE, RANDOM, SHOVE}, thread_count : 1 .. MaxThreads]

ASSUME CommandsAssumption ==
  /\ Commands \subseteq Options
  /\ \A c \in Commands : c.workflow = SHOVE => c.experiment = THROUGHPUT

VARIABLES
  run,        \* the program, its experiment, workflow and thread count
  main,       \* where main is: it spawns, joins, and is done
  spawned,    \* threads created so far
  pc, op, end,
  parked,     \* the threads that wait at the barrier
  stop,
  at, word,   \* the lock
  items,      \* elements in the deque
  room,       \* of a bounded deque: elements that each end has place for
  counter,    \* the atomic counters all_ops, push_ops and pop_ops
  tally,      \* of each worker: pushes and pops, or what they add to its ops
  shove,      \* left_shove and right_shove of each worker
  ret,        \* push_status or pop_status of each worker
  timer       \* the clock of thread 0: "off", "on", "read"

deque   == <<items, room>>
lock    == <<at, word>>
scores  == <<counter, tally, shove, ret>>
control == <<main, spawned, parked, stop, timer>>
vars    == <<run, control, pc, op, end, lock, deque, scores>>

Lock == INSTANCE TasLock

Workers == 0 .. run.thread_count - 1
Killer  == run.thread_count

Timing   == run.experiment = TIMING
Shoves   == run.workflow = SHOVE
Locked   == run.locked
OpCount  == OpsPerThread * run.thread_count

Goto(t, label) == pc' = [pc EXCEPT ![t] = label]

-----------------------------------------------------------------------------
(* main, timing_exp and throughput_exp *)

Boost == IF Timing THEN 0 ELSE 1

\* Mutants of Parties: the killer, or a worker, is forgotten.
PartiesWithoutKiller == run.thread_count
PartiesOneLess       == run.thread_count + Boost - 1

\* The barrier is made for the workers, and for the killer if there is one.
Parties == run.thread_count + Boost

Spawn ==
  /\ main = "spawn"
  /\ pc' = [pc EXCEPT ![spawned] = "born"]
  /\ spawned' = spawned + 1
  /\ main' = IF spawned + 1 = run.thread_count + Boost THEN "join" ELSE "spawn"
  /\ UNCHANGED <<run, parked, stop, timer, op, end, lock, deque, scores>>

\* Mutant of Join: a timing run waits for nobody.
JoinNobody ==
  /\ main = "join"
  /\ ~Timing => \A t \in Workers : pc[t] = "exit"
  /\ main' = "done"
  /\ UNCHANGED <<run, spawned, parked, stop, timer, pc, op, end, lock, deque, scores>>

\* A timing run waits for thread 0 only; then targs is freed.
Join ==
  /\ main = "join"
  /\ \A t \in Workers : (t = 0 \/ ~Timing) => pc[t] = "exit"
  /\ main' = "done"
  /\ UNCHANGED <<run, spawned, parked, stop, timer, pc, op, end, lock, deque, scores>>

-----------------------------------------------------------------------------
(* The way to the loop and from it *)

\* id = args->id, or the barrier taken from the arguments.
ReadArgs(t) ==
  /\ pc[t] = "born"
  /\ Goto(t, "arrive")
  /\ UNCHANGED <<run, control, op, end, lock, deque, scores>>

\* Where a thread goes on when the barrier lets it pass.
Beyond(t) ==
  IF pc[t] \in {"arrive", "parked"}
  THEN IF t = Killer THEN "sleep" ELSE IF t = 0 THEN "start" ELSE "test"
  ELSE IF t = 0 THEN "read" ELSE "exit"

\* pthread_barrier_wait: the last to arrive lets all pass.
Arrive(t) ==
  LET all == parked \cup {t} IN
  /\ pc[t] \in {"arrive", "finish"}
  /\ IF Cardinality(all) = Parties
     THEN /\ parked' = {}
          /\ pc' = [u \in Threads |-> IF u \in all THEN Beyond(u) ELSE pc[u]]
     ELSE /\ parked' = all
          /\ Goto(t, IF pc[t] = "arrive" THEN "parked" ELSE "reparked")
  /\ UNCHANGED <<run, main, spawned, stop, timer, op, end, lock, deque, scores>>

\* Thread 0 of a timing run reads the clock before and after.
Clock(t) ==
  /\ \/ pc[t] = "start" /\ timer' = "on" /\ Goto(t, "test")
     \/ pc[t] = "read" /\ timer' = "read" /\ Goto(t, "exit")
  /\ UNCHANGED <<run, main, spawned, parked, stop, op, end, lock, deque, scores>>

\* throughput_kill and sleeper
Kill(t) ==
  /\ pc[t] = "sleep"
  /\ stop' = TRUE
  /\ Goto(t, "exit")
  /\ UNCHANGED <<run, main, spawned, parked, timer, op, end, lock, deque, scores>>

-----------------------------------------------------------------------------
(* The loops of timing_run and throughput_run *)

\* Mutant of Roles: an odd thread pushes.
RolesCeiling(t) ==
  IF run.workflow = RANDOM THEN Op
  ELSE IF t < (run.thread_count + 1) \div 2 THEN {PUSH} ELSE {POP}

\* What a worker does in the stack and queue workflows depends on its id.
Roles(t) ==
  IF run.workflow = RANDOM THEN Op
  ELSE IF t < run.thread_count \div 2 THEN {PUSH} ELSE {POP}

\* The counter that an operation adds to, and how far the workers take it.
Key(o) == IF run.workflow = RANDOM THEN "all" ELSE o
Limit  == IF run.workflow = RANDOM THEN OpCount ELSE OpCount \div 2

\* Operation o at end e comes next; the mutex programs call tas_acquire.
Begin(t, e, o) ==
  /\ end' = [end EXCEPT ![t] = e]
  /\ op'  = [op EXCEPT ![t] = o]
  /\ Goto(t, IF Locked THEN "lock" ELSE "operate")
  /\ IF Locked THEN Lock!TasAcquire(t) ELSE UNCHANGED lock

LeaveLoop(t, label) == Goto(t, label) /\ UNCHANGED <<op, end, lock>>

MoreWantedLate(o) == counter[Key(o)] <= Limit   \* mutant of MoreWanted
MoreWanted(o)     == counter[Key(o)] < Limit

\* Mutant of TimingTest: only thread 0 goes to the second barrier.
TimingTestShort(t) ==
  /\ pc[t] = "test" /\ Timing
  /\ \/ \E o \in Roles(t) : MoreWanted(o) /\ Begin(t, LEFT, o)
     \/ /\ \A o \in Roles(t) : ~MoreWanted(o)
        /\ LeaveLoop(t, IF t = 0 THEN "finish" ELSE "exit")
  /\ UNCHANGED <<run, control, deque, scores>>

TimingTest(t) ==
  /\ pc[t] = "test" /\ Timing
  /\ \/ \E o \in Roles(t) : MoreWanted(o) /\ Begin(t, LEFT, o)
     \/ (\A o \in Roles(t) : ~MoreWanted(o)) /\ LeaveLoop(t, "finish")
  /\ UNCHANGED <<run, control, deque, scores>>

Busy(t) ==
  tally[t][PUSH] + tally[t][POP] <
    IF Shoves THEN MaxShoves \div run.thread_count ELSE MaxOps

ThroughputTest(t) ==
  /\ pc[t] = "test" /\ ~Timing /\ ~Shoves
  /\ \/ ~stop /\ Busy(t) /\ \E o \in Roles(t) : Begin(t, LEFT, o)
     \/ stop /\ LeaveLoop(t, "exit")
  /\ UNCHANGED <<run, control, deque, scores>>

Take(n) == items' = items + n /\ UNCHANGED room

Score(t, n) == tally' = [tally EXCEPT ![t][op[t]] = @ + n]

\* A pop may answer EMPTY, rightly or, as the nonblocking deques do when
\* others are at work, wrongly.
MayAnswerEmpty == items = 0 \/ (~Locked /\ run.thread_count > 1)

\* The nonblocking deque: only what was pushed or popped is counted.
NonblockOperate(t) ==
  /\ pc[t] = "operate" /\ ~Locked /\ ~Shoves
  /\ \/ /\ op[t] = POP /\ MayAnswerEmpty
        /\ Goto(t, "test") /\ UNCHANGED <<deque, tally>>
     \/ /\ op[t] = POP => items > 0
        /\ Take(IF op[t] = PUSH THEN 1 ELSE -1)
        /\ IF Timing THEN Goto(t, "count") /\ UNCHANGED tally
                     ELSE Goto(t, "test") /\ Score(t, 1)
  /\ UNCHANGED <<run, control, op, end, lock, counter, shove, ret>>

\* Mutant of Count: the pop of the mutex program forgets the lock.
CountLocked(t) ==
  /\ pc[t] = "count"
  /\ counter' = [counter EXCEPT ![Key(op[t])] = @ + 1]
  /\ Goto(t, "test")
  /\ UNCHANGED <<run, control, op, end, lock, deque, tally, shove, ret>>

\* push_ops++, pop_ops++ or all_ops++; the mutex program counts a pop before
\* it releases the lock.
Count(t) ==
  /\ pc[t] = "count"
  /\ counter' = [counter EXCEPT ![Key(op[t])] = @ + 1]
  /\ Goto(t, IF Locked /\ op[t] = POP THEN "unlock" ELSE "test")
  /\ UNCHANGED <<run, control, op, end, lock, deque, tally, shove, ret>>

\* One test-and-set of tas_acquire.
Acquire(t) ==
  /\ pc[t] = "lock"
  /\ Lock!Tas(t)
  /\ Goto(t, IF at'[t] = "in" THEN "operate" ELSE "lock")
  /\ UNCHANGED <<run, control, op, end, deque, scores>>

\* Mutant of MutexOperate: the pop does not look first.
MutexOperateBlind(t) ==
  /\ pc[t] = "operate" /\ Locked /\ ~Shoves
  /\ IF op[t] = PUSH
     THEN Take(1) /\ Goto(t, "unlock")
     ELSE UNCHANGED deque /\ Goto(t, "pop")
  /\ UNCHANGED <<run, control, op, end, lock, scores>>

\* std_deque is pushed to, or looked at before it is popped from.
MutexOperate(t) ==
  /\ pc[t] = "operate" /\ Locked /\ ~Shoves
  /\ IF op[t] = PUSH
     THEN Take(1) /\ Goto(t, "unlock")
     ELSE UNCHANGED deque /\ Goto(t, IF items = 0 THEN "unlock" ELSE "pop")
  /\ UNCHANGED <<run, control, op, end, lock, scores>>

\* Mutant of MutexPop: a pop is counted like a push, after the release only.
MutexPopOnce(t) ==
  /\ pc[t] = "pop"
  /\ Take(-1)
  /\ Goto(t, IF Timing THEN "count" ELSE "unlock") /\ UNCHANGED tally
  /\ UNCHANGED <<run, control, op, end, lock, counter, shove, ret>>

\* A throughput run has counted the pop once when it releases the lock.
MutexPop(t) ==
  /\ pc[t] = "pop"
  /\ Take(-1)
  /\ IF Timing THEN Goto(t, "count") /\ UNCHANGED tally
               ELSE Goto(t, "unlock") /\ Score(t, 1)
  /\ UNCHANGED <<run, control, op, end, lock, counter, shove, ret>>

\* tas_release, and ops++ of a throughput run, whatever the pop has found.
MutexRelease(t) ==
  /\ pc[t] = "unlock" /\ ~Shoves
  /\ Lock!TasRelease(t)
  /\ Goto(t, IF Timing /\ op[t] = PUSH THEN "count" ELSE "test")
  /\ IF Timing THEN UNCHANGED tally ELSE Score(t, 1)
  /\ UNCHANGED <<run, control, op, end, deque, counter, shove, ret>>

-----------------------------------------------------------------------------
(* The loop of run in herlihy/exp: the left end, then the right end *)

Chosen(t, e) == IF shove[t][e] THEN PUSH ELSE POP

ShoveTest(t) ==
  /\ pc[t] = "test" /\ Shoves
  /\ \/ ~stop /\ Busy(t) /\ Begin(t, LEFT, Chosen(t, LEFT))
     \/ stop /\ LeaveLoop(t, "exit")
  /\ UNCHANGED <<run, control, deque, scores>>

Answers(t) ==
  IF op[t] = PUSH THEN IF room[end[t]] = 0 THEN {FULL} ELSE {OK}
  ELSE (IF items > 0 THEN {OK} ELSE {}) \cup (IF MayAnswerEmpty THEN {EMPTY} ELSE {})

\* What an answer of OK has done to the deque.
Apply(t, stat) ==
  LET n == IF op[t] = PUSH THEN 1 ELSE -1 IN
  IF stat = OK
  THEN items' = items + n /\ room' = [room EXCEPT ![end[t]] = @ - n]
  ELSE UNCHANGED deque

\* Mutant of ShoveOn: the worker turns round at FULL only.
ShoveOnFull(t, stat) ==
  /\ shove' = [shove EXCEPT ![t][end[t]] = IF stat = FULL THEN ~@ ELSE @]
  /\ Score(t, 1)
  /\ IF end[t] = LEFT THEN Begin(t, RIGHT, Chosen(t, RIGHT))
                      ELSE Goto(t, "test") /\ UNCHANGED <<op, end, lock>>

\* After an operation: the worker turns round at FULL and EMPTY, counts, and
\* goes on to the right end or back to the test of stop.
ShoveOn(t, stat) ==
  /\ shove' = [shove EXCEPT ![t][end[t]] = IF stat = OK THEN @ ELSE ~@]
  /\ Score(t, 1)
  /\ IF end[t] = LEFT THEN Begin(t, RIGHT, Chosen(t, RIGHT))
                      ELSE Goto(t, "test") /\ UNCHANGED <<op, end, lock>>

ShoveNonblock(t) ==
  /\ pc[t] = "operate" /\ Shoves /\ ~Locked
  /\ \E stat \in Answers(t) : Apply(t, stat) /\ ShoveOn(t, stat)
  /\ UNCHANGED <<run, control, counter, ret>>

ShoveMutex(t) ==
  /\ pc[t] = "operate" /\ Shoves /\ Locked
  /\ \E stat \in Answers(t) : Apply(t, stat) /\ ret' = [ret EXCEPT ![t] = stat]
  /\ Goto(t, "unlock")
  /\ UNCHANGED <<run, control, op, end, lock, counter, tally, shove>>

ShoveRelease(t) ==
  /\ pc[t] = "unlock" /\ Shoves
  /\ Lock!TasRelease(t)
  /\ Goto(t, "after")
  /\ UNCHANGED <<run, control, op, end, deque, scores>>

ShoveAfter(t) ==
  /\ pc[t] = "after"
  /\ ShoveOn(t, ret[t])
  /\ UNCHANGED <<run, control, deque, counter, ret>>

-----------------------------------------------------------------------------

Init ==
  /\ run \in Commands
  /\ main = "spawn" /\ spawned = 0
  /\ pc = [t \in Threads |-> "unborn"]
  /\ op = [t \in Threads |-> PUSH] /\ end = [t \in Threads |-> LEFT]
  /\ parked = {} /\ stop = FALSE /\ timer = "off"
  /\ Lock!TasInit
  /\ items = 0 /\ room = [e \in End |-> Room]
  /\ counter = [c \in {"all"} \cup Op |-> 0]
  /\ tally = [t \in Threads |-> [o \in Op |-> 0]]
  /\ shove = [t \in Threads |-> [e \in End |-> TRUE]]
  /\ ret = [t \in Threads |-> OK]

Nonblock(t) == NonblockOperate(t) \/ ShoveNonblock(t)

Rest(t) ==
  \/ ReadArgs(t) \/ Arrive(t) \/ Clock(t) \/ Kill(t)
  \/ TimingTest(t) \/ ThroughputTest(t) \/ Count(t)
  \/ Acquire(t) \/ MutexOperate(t) \/ MutexPop(t) \/ MutexRelease(t)
  \/ ShoveTest(t) \/ ShoveMutex(t) \/ ShoveRelease(t) \/ ShoveAfter(t)

Step(t) == Nonblock(t) \/ Rest(t)

Next == Spawn \/ Join \/ \E t \in Threads : Step(t)

\* Every thread is scheduled again and again.  An operation of a nonblocking
\* deque may go on for ever all the same.
Fairness == WF_vars(Spawn) /\ WF_vars(Join) /\ \A t \in Threads : WF_vars(Rest(t))

Spec == Init /\ [][Next]_vars /\ Fairness
-----------------------------------------------------------------------------
(* Properties *)

\* Where a worker is between the two barriers, or before stop was seen.
InLoop == {"test", "lock", "operate", "pop", "count", "unlock", "after"}

\* The types of the variables.
TypeOK ==
  /\ run \in Commands
  /\ main \in {"spawn", "join", "done"} /\ spawned \in Threads \cup {MaxThreads + 1}
  /\ pc \in [Threads -> {"unborn", "born", "arrive", "parked", "start", "sleep",
                         "finish", "reparked", "read", "exit"} \cup InLoop]
  /\ op \in [Threads -> Op] /\ end \in [Threads -> End]
  /\ parked \subseteq Threads /\ stop \in BOOLEAN /\ timer \in {"off", "on", "read"}
  /\ at \in [Threads -> {"out", "tas", "in"}] /\ word \in {0, 1}
  /\ items \in Nat /\ room \in [End -> Nat]
  /\ counter \in [{"all"} \cup Op -> Nat]
  /\ tally \in [Threads -> [Op -> Nat]]
  /\ shove \in [Threads -> [End -> BOOLEAN]]
  /\ ret \in [Threads -> {OK, EMPTY, FULL}]

\* The workers that add to the counter of o.
Team(o) == {t \in Workers : o \in Roles(t)}

\* push_ops, pop_ops and all_ops are tested before an operation and added to
\* after it: each worker but one may go past op_count by one operation, and
\* no more than that.
Overshoot ==
  Timing => \A o \in Op :
    counter[Key(o)] <= IF Limit = 0 THEN 0 ELSE Limit - 1 + Cardinality(Team(o))

\* Every operation o that a worker has counted, by its number.
Counted(o) == UNION {{t} \X (1 .. tally[t][o]) : t \in Workers}
Total(o)   == Cardinality(Counted(o))

\* An operation that has been done to the deque and is still to be counted.
Uncounted(t) ==
  IF Shoves THEN pc[t] \in {"unlock", "after"} /\ ret[t] = OK
  ELSE pc[t] = "count" \/ (Locked /\ op[t] = PUSH /\ pc[t] = "unlock")

Pending(o) == {t \in Workers : op[t] = o /\ Uncounted(t)}

\* The shoves that were refused and not yet made up for.
Turned == {w \in Workers \X End : ~shove[w[1]][w[2]]}

\* What the workers have counted is what is in the deque: nothing was pushed
\* or popped twice or uncounted, and a shove that was refused is made up for
\* by the direction that its worker goes in now.
Conserved ==
  LET pending == Cardinality(Pending(PUSH)) - Cardinality(Pending(POP)) IN
  /\ Timing /\ run.workflow # RANDOM => items = counter[PUSH] - counter[POP] + pending
  /\ Timing /\ run.workflow = RANDOM => (items + counter["all"] + pending) % 2 = 0
  /\ Shoves =>
       /\ items = Total(PUSH) - Total(POP) + pending - Cardinality(Turned)
       /\ room[LEFT] + room[RIGHT] + items = 2 * Room
       /\ items >= 0 /\ \A e \in End : room[e] >= 0
  /\ ~Timing /\ ~Shoves /\ ~Locked => items = Total(PUSH) - Total(POP)

\* A pop of a throughput run under the lock adds to ops before and after the
\* release: a run reports two operations for each element that was popped.
PopsCountTwice ==
  Locked /\ ~Timing /\ ~Shoves /\ main = "done" =>
    Total(POP) >= 2 * (Total(PUSH) - items)

InSection(t) == Locked /\ pc[t] \in {"operate", "pop", "unlock"}

\* std_deque is used by one thread at a time, and nobody pops from it when it
\* is empty, which std::deque does not allow: what empty() said still holds.
StdDequeSafe ==
  /\ \A t, u \in Threads : InSection(t) /\ InSection(u) => t = u
  /\ \A t \in Threads : pc[t] = "pop" => items > 0

\* The time that thread 0 takes ends after the last operation of all workers,
\* with as many operations counted as were asked for.
TimesAll ==
  timer = "read" =>
    /\ \A t \in Workers : pc[t] = "exit"
    /\ \A o \in Op : Team(o) # {} => counter[Key(o)] >= Limit

\* main frees targs (or leaves the frame they are in) when it is done: no
\* thread it made has yet to read its arguments.
ArgsLive ==
  main = "done" => \A t \in 0 .. spawned - 1 : pc[t] \notin {"unborn", "born"}

\* One thread alone is a popper in the stack and queue workflows, waits for
\* elements that nobody pushes, and never finishes.
HangsAlone ==
  run.thread_count = 1 /\ Timing /\ run.workflow # RANDOM /\ Limit > 0 =>
    main # "done"

\* Some thread never comes back from an operation of a nonblocking deque.
Stuck == \E t \in Threads : <>[](pc[t] = "operate" /\ ~Locked)

\* Unless an operation never returns, the killer ends a throughput run: no
\* worker is left at the barrier, in the lock or in a loop that does not see
\* stop, whatever the deque answers.
StopEnds == Stuck \/ (~Timing ~> main = "done")

\* Unless an operation never returns, a timing run ends once it has counted
\* as many operations as it was asked for: no worker is left in its loop, in
\* the lock or at the second barrier.  That the count is reached is not
\* claimed: poppers may wait for elements in vain.
TimingEnds ==
  Stuck \/ (Timing /\ (\A o \in Op : counter[Key(o)] >= Limit) ~> main = "done")
=============================================================================
