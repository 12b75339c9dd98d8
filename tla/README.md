# TLA+ models of the obstruction-free deques

This directory specifies, model-checks and proves the programs of this repository:
the bounded, array-based deque of Herlihy, Luchangco and Moir
(`herlihy/src/deque.cc`), its unbounded extension to a chain of buffers
(`unbounded/src/deque.cc`), the spin locks they are compared with
(`*/exp/atomic_ops.h`), and the experiments that measure both
(`*/exp/nonblock.cc`, `*/exp/mutex.cc`).

## 1. Inventory of the system

| component | state | operations | interacts with |
|---|---|---|---|
| bounded deque, `herlihy/src/deque.{cc,h}` | `nodes[DEF_BOUNDS]` (value and version counter), `left_hint`, `right_hint`, `size` | `left_push`, `left_pop`, `right_push`, `right_pop`, `oracle`, init, clear | its client threads, through the shared fields only |
| unbounded deque, `unbounded/src/deque.{cc,h}` | a doubly linked chain of buffers of nodes; two hints `<buffer, index>`; `size`; the heap | the same four, two oracles, init, clear | client threads; `malloc`, `free` |
| circular deque, `herlihy/src/deque_circ.*` | - | unfinished stubs, not built | nothing |
| spin locks, `*/exp/atomic_ops.h` | one word (tas, tatas), two counters (ticket), a queue of nodes (MCS) | acquire and release | their users; the mutex experiment takes tas |
| mutex experiment, `*/exp/mutex.cc` | a `std::deque`, one lock, counters, barrier, `stop` | timing runs, throughput runs, herlihy's shove loop | lock, barrier, main, the killer thread |
| nonblocking experiment, `*/exp/nonblock.cc` | counters, barrier, `stop` | the same | the deques, barrier, main, the killer thread |
| stress test, `*/test/stress.cc` | per-thread counters, two barriers | rounds of random operations, then a scan `is_consistent` | the deques |
| serial and concurrent tests, timer, plots, results, writeup | - | scenarios and data | - |

What is hard about it:

* **Two exchanges, one effect.** An operation loads two adjacent nodes, bumps the
  version of one with a first exchange and changes the value of the other with a
  second. Between any two of these four accesses other threads may complete any
  number of operations. The version counters have to make the pair act as one
  atomic step at the head, ABA included.
* **Hints lag.** Hints and `size` are updated after the effect. The oracle acts on
  hints that are wrong, even outside the array, and wrap as unsigned numbers.
* **Progress.** Obstruction freedom: a thread that runs alone has to return,
  whatever state the others were stopped in.
* **Edges of buffers.** In the unbounded deque a push attaches a buffer by
  exchanging an edge node, and pushes and pops straddle two buffers, reading
  three nodes and exchanging two of them. Buffers that lose the race are freed,
  and `malloc` may hand the same address out again.
* **Hand-over.** A lock is passed on by a handful of plain stores; a failing
  test-and-set, a wrapped counter or a link that is made late must not lose it.
* **Ending.** Workers of an experiment end because of counters that others
  increment, a `stop` flag that a thread nobody joins raises, and a barrier that
  is used twice.

What makes each component correct: the deques are linearizable to a sequential
deque, their row of nodes always reads left nulls, elements, right nulls, hints
and `size` agree with the row once all owed updates are counted, buffers are
never lost, freed in use or mistaken for elements, and lone threads return. The
locks exclude, serve in order where they promise it, and let waiting threads in.
The experiments count what was done, time all of it, and end.

## 2. Modules

| module | models | kind |
|---|---|---|
| `AtomicDeque` | what both deques promise | abstract specification |
| `BoundedDeque` | `herlihy/src/deque.cc` | one action per atomic access; properties at the end |
| `BoundedDequeInv`, `BoundedDequeHeads` | - | inductive invariants, in named parts |
| `BoundedDequeLin` | - | `BoundedDeque` as a refinement of `AtomicDeque` |
| `BoundedDequeSolo` | - | the scheduler of obstruction freedom |
| `BoundedDequeProofs`, `BoundedDequeHeadsProofs`, `BoundedDequeLinProofs` | - | theorems and proofs (TLAPS) |
| `UnboundedDeque` | `unbounded/src/deque.cc` | as `BoundedDeque`, with buffers and a heap |
| `UnboundedDequeStages` | the clients in `unbounded/test/concurrent.cc`: fill, drain, clear | a workload over `UnboundedDeque` |
| `UnboundedDequeInv`, `UnboundedDequeChain` | - | the inductive invariants of its memory (any workload) and of its chain (in stages) |
| `UnboundedDequeLin` | - | `UnboundedDeque` as a refinement of `AtomicDeque` |
| `UnboundedDequeProofs`, `UnboundedDequeChainProofs`, `UnboundedDequeLinProofs` | - | theorems and proofs |
| `LockClients` | the threads that use a lock | shared by the three locks |
| `TasLock`, `TicketLock`, `McsLock` | `exp/atomic_ops.h` | one module per kind of lock |
| `McsLockFifo` | - | `McsLock` with the order of its queue as a history variable |
| `Mutex`, `FairMutex` | what the locks promise | abstract specifications |
| `SpinLocks` | a program with one lock of any kind | composes the three, fairness, refinements |
| `SpinLocksProofs` | - | theorems and proofs (of the three locks and of the composition) |
| `Experiments` | `exp/nonblock.cc`, `exp/mutex.cc` of both directories | composes a deque, `TasLock`, barrier, main and killer |
| `ExperimentsInv`, `ExperimentsProofs` | - | inductive invariant, theorems and proofs |
| `MCBoundedDeque`, `MCBoundedDequeSolo`, `MCUnboundedDeque`, `MCUnboundedDequeStages`, `MCSpinLocks`, `MCExperiments` | - | small instances for TLC |

**Deques: correspondence with the code.** `pc[t]` names the next atomic access of
thread `t`: `oracleHint` the load of the hint, `oracleOuter`/`oracleInner` the loads of
the nodes at and next to it, `scanOuter`/`scanInner` an iteration of the oracle's
loop, `rehint` its `return deque.left_hint.load()`; then `loadInner`/`loadOuter`
(`previous`/`current` of a push, `current`/`next` of a pop), `recheck` the
`compare_val` or `compare_node` of the EMPTY test, `cas1`/`cas2` the two exchanges,
`moveHint` and `resize` the updates after them. Tests that follow an access
belong to its action. The two ends are mirror images in the source; an action
takes its direction from `end[t]`, and `Inward`/`Outward` stand for `k + 1`/`k - 1`
on the left and the converse on the right. Nodes keep value and version.
Locals are forgotten on `continue` and `return`, when the code can no longer
read them. `Clear` is `clear_bounded_deque` or `clear_deque`; their callers have no
thread left in an operation, so its guard is that all are idle.

*Bounded deque.* Indices are unsigned machine words, modulo `ULONG`. Nothing in
the code checks an index, so a load outside `nodes[]` returns any node of `Foreign`,
and an exchange that hits outside overwrites hints and size with anything.

*Unbounded deque.* `size` is a machine word, modulo `ULONG`. A hint keeps `index mod DEF_BOUNDS`: the code uses an index only
through `mod`, and the quotient is a function of the buffer's place in the chain.
`heap` is what is allocated; `Attach` is `malloc` and `init_buffer`, `Discard` the
`free` after a lost race. `right_push` loads the neighbour pointer twice
(`Reload`), the other operations once, as in the code. Following a null or an
element as a buffer pointer ends the behaviour with `crashed`. `Clear` keeps the
buffer of the left hint; `lost` remembers the buffers it neither kept nor freed.

**Locks.** `at[t]` names the next access of `t` to shared memory inside acquire or
release, or `in` and `out` between the calls. `fai` is a load and a loop of
compare-and-swaps; `now_serving += 1` and the flag stores of MCS are separate loads
and stores. MCS nodes are uninitialised at first and used again with what the
last use left in them. Backoff only spends time and changes no state.

**Experiments.** `run` is the program with its options: behind a lock or not, timing
or throughput, workload, number of workers; `-o` is `OpsPerThread` of a timing run. `main`
spawns and joins, worker threads go through both uses of the barrier, and thread number
`thread_count` of a throughput run is the killer. Under the lock `empty()` and `pop_back()`
are two steps. A nonblocking operation is one step which need not ever come, since the
deques are obstruction-free only, and EMPTY may be false when there are other workers
(findings 1 and 5). Pushed pointers are all alike, so a deque is the number of its
elements, and of a bounded deque also the room at each end. What the drivers do not show
is the loss of elements: when pushes and pops overlap, as in the stack, queue and random
workloads, a pop of the unbounded deque may take a link (finding 4). `Conserved` and the
items of nonblocking runs are about runs in which that does not happen; who overshoots,
what is timed, which arguments are live and which runs end does not depend on it. Clearing
between runs is a new behaviour; a `pthread_create` that fails ends the process and is left out.

## 3. Runs

Clients of a deque stop after `MaxCalls` calls, and experiments end or hang, so all
runs but `spin_locks` have `CHECK_DEADLOCK FALSE`. `MaxCalls` bounds the calls of a
whole behaviour, `MaxCount` the version counters: a thread about to write a larger
one waits. `MaxOps` bounds what a worker of a throughput run does before `stop`,
`MaxShoves` what the workers of a shove run do together.

| run | instance | shows |
|---|---|---|
| `bounded_random` | 2 threads, 4 nodes, 2 elements, 4 calls of any kind, `Clear` in between | type, shape, nothing decided or exchanged outside the array, effects only at the heads, linearizable (EMPTY may be false once both ends are popped from) |
| `bounded_three_threads` | 3 threads on the right end, 3 nodes, 4 calls | the inductive invariant; exact accounting of hints and size with several stalled updates; linearizable but for EMPTY |
| `bounded_solo` | 2 threads, 3 nodes, 5 calls of any kind, then one thread alone | the lone thread returns if the hint of its end is then a slot at the head or outward of it (`HintFindsHead`) |
| `unbounded_stages` | 2 threads, buffers of 4 nodes, 3 buffers, 5 calls at both ends, of which the first is a push made alone; fill, drain, refill, `Clear` | the inductive invariants of memory and chain; linked and ordered chain; no buffer leaked, freed in use or mistaken; no old node passes for a present one; exact size; linearizable, EMPTY included |
| `spin_locks` | 3 threads, each kind of lock, `W = 4`, for ever | exclusion, the invariants of the kinds, `Mutex` and `FairMutex` implemented, no lost hand-over, a fixed turn comes |
| `experiments` | timing stack 1-4 workers, timing random and throughput queue, random, shove 1-3, locked or not | counts, overshoot, clock, arguments, `std::deque` safety, which runs end and which hang |
| `bounded_false_empty` | 6 calls | **violated:** EMPTY of a deque that was never empty |
| `bounded_oracle_range` | 4 calls | **violated:** the oracle's index leaves the array |
| `bounded_not_obstruction_free` | 3 calls | **violated:** a lone thread retries for ever |
| `unbounded_stack` | left end only, 6 calls, one of them a pop of the second thread | **violated:** a pop takes the pointer that links two buffers |
| `unbounded_false_empty` | the same, but for a right pop at the end | **violated:** EMPTY of a deque that was never empty |
| `unbounded_clear_leaks` | 3 calls | **violated:** clearing two buffers frees none and loses one |

**Why the bounds are enough to be interesting.** Four nodes give one free slot on
each side: two pushes at one end reach FULL, and the two heads meet after every
pop, so all conflicts between ends occur. Four calls let one operation be
overtaken by a push and a pop that restore the values it has read (ABA), with a
call to set the scene. `ULONG = 16` leaves room between the array and the wrap, as
64 bits do. Buffers of four nodes are the smallest that have a left and a right
inner node; the second push at an end attaches a buffer, and within the five calls of
`unbounded_stages` attaching pushes race each other, at one end or at both, and
straddling pops race each other over the last elements. Its first push is made alone to
set the scene, and brings an element of its own. The scripts of the two violations
only save time: they fix who calls what, not how the steps interleave.
`Foreign` holds nulls of both kinds and an element, so an out-of-range read may
look like anything. `spin_locks` has no bound but its three threads: the ticket
counters start anywhere and wrap at 4, and nodes are reused for ever. In
`experiments` two operations per thread make every counter reach its limit with
others under way, and four workers are needed for two pushers to overshoot together.
With `Room = 1` and `MaxShoves = 10` one worker pushes, meets FULL at both ends, pops, meets
EMPTY at both and pushes again; two make six shoves each and three make four, so that one turns
round at what the others have filled or drained. In `bounded_solo` the four
calls that leave a hint outside the array (finding 3) are reached at both ends, with a
call more. Threads, elements and non-root buffers are
symmetric in the runs of the deques, which check no liveness but `bounded_solo`,
and that uses no symmetry.

**Workloads of the unbounded deque.** Pushes and pops that overlap cut the chain
(finding 4), at one end or at both, and a pop that overlaps pushes may answer a false EMPTY
(finding 5). So the passing run keeps to what `unbounded/test/concurrent.cc` does:
threads fill the deque together, drain it together, and it is cleared. After a drain has
begun, a push is made while nothing else is under way (`refill`), which covers the
serial tests. Within a stage ends, threads and interleavings are free. A push that
straddles two buffers is made in a refill only, so the races of straddling operations of
both kinds are not in this run. What `UnboundedDequeProofs` shows of the memory holds for
every workload; `UnboundedDequeChainProofs` is about the stages.

**Three threads.** `CasInRange` and `Grounded` are stated for two. With three and six
calls, an operation can exchange memory beyond the array, if that memory looks
like a null: two stalled hint updates move the index far enough for both nodes
to be foreign.

**Fairness.** `SoloSpec` has weak fairness of the one thread that is left running: the
premise of obstruction freedom, not an assumption about the operating system;
contended threads of a deque are given none, since the write-up admits livelock
(`writeup.tex:103`). `spin_locks` has weak fairness of each thread once it has called
acquire, as preemptive scheduling gives; whether a thread calls at all is open,
and nothing favours an exchange, so `TurnComes` excludes the loop of `fai` and the
test-and-set locks, where a thread may starve. `experiments` has weak fairness of
main and of every thread, but none of an operation of a nonblocking deque. `StopEnds` and
`TimingEnds` say that a run ends unless an operation never returns (`Stuck`): a throughput
run after `stop` is raised, a timing run once as many operations are counted as it was
asked for. That they ever are is not claimed: poppers may find nothing, whether elements
were lost (finding 4), nobody pushes (`HangsAlone`), or they win every exchange of the
test-and-set lock before a pusher does. The programs are built with `-O0`, so the
plain `bool stop` is read anew in every iteration.

**Refinement.** `AtomicDeque` keeps a sequence `items` and the `room` at both ends. Its
push, pop and return are separate steps, so the effect may come at any instant
between call and return. A refusal (FULL, EMPTY) is allowed if `seen[t]`: the deque
was full, or empty, at some instant of the call. The input `lenient` lets a pop
answer EMPTY at any time. `items` is mapped to the row of elements, an operation's
effect to its second exchange; `seen` and `popped` are history variables of the
`Lin` modules. `Linearizable` of the bounded deque is lenient only once pops have
been called at both ends since the last clear; `LinearizableButEmpty` is lenient
always. `Mutex` and `FairMutex` see of a lock where each thread is, and of the
queueing locks who is ahead of whom: by number for the ticket lock, by the
recorded swaps for MCS.

### Findings

1. *EMPTY need not be true* (`herlihy/src/deque.cc:59`, `:125`). Of the three reads
   behind the answer no two are simultaneous, and the last compares the value
   only. Elements moved right and back left again around a left pop make it
   answer EMPTY while the deque always held one.
2. *The oracle leaves the array* (`:152`). `writeup.tex:92` requires an index in
   `[0, SIZE - 2]` or `[1, SIZE - 1]`. A hint whose updates are owed lies beyond the
   head, and the oracle returns it unchecked. With two threads no exchange
   follows (`CasInRange`), but the read does.
3. *Not obstruction-free* (`:167`, `:187`). When the node at the hint is not a null of
   that end, the oracle returns the hint instead of searching outwards. After a
   push is stalled between its effect and its hint update, an operation that runs alone
   at that end retries until the stalled thread resumes. So it does after a `right_pop` is
   stalled before `right_hint--` and another `right_push` has moved the hint to
   `DEF_BOUNDS`, beyond the array (the left end alike, where `left_hint` wraps).
   `SoloReturns` shows that hints in the array, at the head or outward of it, do no such harm.
4. *A pop takes a link* (`unbounded/src/deque.cc:420`, `:486`). When a scan of the oracle
   comes to the end of the chain without finding the head, because others have
   moved the head past it, the oracle returns the hint it was given, tested no further. That
   hint may be long out of date: a `left_pop` then takes the right edge, the
   pointer to the next buffer, for the element to pop, replaces it by a null and
   returns it. A queue reaches the same state without the fallback: in `right_pop` at
   index 1 (`:342`) the node to be popped is the left edge, and a `left_push` that
   attaches a buffer between the oracle's test and the pop's loads makes it a pointer.
5. *EMPTY need not be true* (`:127`, `:302`). A pop answers EMPTY when it has read the other
   end's null twice, before it looks at the node next to it. At the edge of a buffer
   that node is a pointer, and the elements may be in the neighbour.
6. *Clearing leaks* (`:562`). The comment says that all buffers are freed; the loop needs a
   neighbour on both sides, and then goes left only. With two buffers none is
   freed, and the one that is not kept is lost.

Observed besides, with passing properties that state it: the locked throughput run
counts every successful pop twice (`PopsCountTwice`, `unbounded/exp/mutex.cc:342`), and a
stack or queue timing run with one thread never ends (`HangsAlone`,
`unbounded/exp/nonblock.cc:216`: nobody pushes).

## 4. Proofs

TLAPS checks every theorem below for all values of the constants that the named
assumptions allow; TLC evaluates these assumptions in the runs. Version counters
do not wrap (`MaxCount` is a constant of any size).

**Bounded deque** (`BoundedDequeProofs`; any number of threads, at least 2 nodes, any
workload and any content of foreign memory): `Invariance`, `TypeCorrect`, `ShapeHolds`
and `ChangesOnlyAtHeads`, the core of linearizability: a changed value is always an
element put over a head's null, or a head's null put over the element next to it.
`Shape` is not inductive: whether a second exchange preserves it depends on what the
thread has read. `InvLoads`: a loaded node is the present one or has a smaller
version, so equality of nodes means that nothing happened since the load.
`InvGuard`: a thread that is about to exchange has passed the head test and the FULL
test, and its two slots are both in the array or both outside. `InvAtHead`: a thread
between its exchanges whose second exchange can still succeed is at its head. For a
push this is disturbed by a pop at the same head, and `InvRivals` shows that it
cannot be: each first exchange changes the version that the other's second one
expects. `InvStale`: a pop that went on after reading the other end's null has seen
that node change, and will fail.

**Two threads on it** (`BoundedDequeHeadsProofs`): `TwoThreadsGrounded`, `TwoThreadsInRange`,
`TwoThreadsHints`, `TwoThreadsSize`. `Inv` allows any hint; with two threads there are at
most two updates owed, and `HintsOf` says what the hint is: the head, moved back by
what each thread owes. So a hint is at most one beyond its end of the array
(`Indices`), one of the two nodes an operation reads is in it (`Grounded`), the other
then decides nothing, and the step that moves a hint or the size pays exactly its
debt (`HintsOf`, `SizeOf`).

**Refinement** (`BoundedDequeLinProofs`): `GroundedRefinement`, for any number of threads:
a behaviour in which no operation decides anything by foreign memory implements
`AtomicDeque` with a lenient EMPTY; `TwoThreadsLinearizable`, with the above, drops
the condition for two threads. `seen` justifies FULL: `SeenInv` and `Answering` carry
from the read of the end node to the answer that there was an instant at which the
deque was full. The second exchange maps to `Push` or `Pop`, `Clear` to `Clear`, every
other step to a call, an answer, a return or nothing. `GroundedLinearizable` and
`TwoThreadsAtomic` add the truth of EMPTY while pops have been called at one end only:
a null of the other end is put by pops at that end alone (`NullsPut`), so if it is still there
at the second look, it was there when the head was read between the two, and the deque
was empty then (`EmptyRead`); `EmptyInv` keeps that, or that the null is gone, until the
answer.

**Memory of the unbounded deque** (`UnboundedDequeProofs`; any number of threads, any
buffer size of at least 4 nodes, any workload): `MemInvariance`, `UnboundedTypes`,
`UnboundedNoUseAfterFree`, `LoadsStayOld`. The buffers are divided in two: `Public` ones,
to which hints, edge nodes and the threads' locals may point, and those that a
thread is about to attach, which nobody else knows (`InvOwn`). An exchange that
succeeds may make its thread's buffer public and never the converse; only a
buffer that is not public is ever freed, but for `Clear`, which runs when nobody
has anything loaded (`Forgotten`). Versions of public nodes only grow, so that what
a thread has loaded stays the present content or an older version (`LoadedOlder`)
although addresses are handed out again with versions that start at 0. The proof
does not need the chain to be intact, and so also covers the workloads of findings 4 and 5.
`Placed` says what a thread knows of its place at each access. The step proof has a
lemma per action; `Quiet` and `Assembled` do the part of the threads that stand still.

**Chain of the unbounded deque** (`UnboundedDequeChainProofs`; any number of threads, buffers
of at least 4 nodes, any number of buffers; the workload in stages): `ChainInvariance`,
`ChainShape`, `ChainNoDangling`, `ChainNoLeak`, `ChainNoCrash`, `ChainSizeExact` and
`ChainPopsElements`. `ChainInv` consists of

* `InvStage`: in a fill all that is under way are pushes, in a drain pops, and a refill is
  made alone;
* `InvLinks`: the buffers that are public and not lost are the chain. Neighbours point
  at each other and are ordered, each end has a last buffer, and the links lead from any
  buffer to all others. `Reached` is the least set that is closed under links, not a
  recursion, so adding a buffer at an end needs no induction (`LinksAttach`);
* `InvHints` and `InvThreads`: where hints and threads may be, what the oracle has
  passed (`Scanning`), and what an operation may conclude from its loads (`Informed`). In
  a fill no node becomes null and in a drain no null is filled, so what was
  read of a node's kind stays true, and a link stays a link. `Aimed` says that a pop works
  next to the opposite edge only where the chain ends: what finding 4
  violates;
* `SizeExact` with the finiteness of what it counts.

The other threads' steps are covered once: `Gentle` says what every step does to the
nodes they rely on, and follows from the stage alone. The step itself has a lemma per
action, and the second exchange the weight of the proof: `OrderedPush` and `OrderedPop` keep
the order of the row, `LinksAttach` the links, `SizeAfter` the count of the elements,
with facts about the cardinality of finite sets and about the word that `size` wraps at
(`WordAdds`). `PopTakes` turns `Aimed` into
`PopsElements`.

**Refinement of the unbounded deque** (`UnboundedDequeLinProofs`; threads, buffers and workload
as for the chain): `StagedLinearizable`, that it implements `AtomicDeque` with a truthful EMPTY,
and `VacantInvariance`, which it rests on. `items` lists the values of the stored places by rank:
how many of them are at a place or left of it. So what a step does to the row is a
fact about positions in a finite total order (`Positions`, `ListsFirst`, `ListsLast`), without
induction along the chain:

* `Outcome` (of the chain's proof) says what a step does to it: nothing that counts, one
  element more or less at the end of the row, a buffer more, or a fresh deque;
* `RowOrder` is total (`OrderTotal`: of two buffers of the chain one lies left of the
  other), and a step that takes no link away keeps it (`OrderKept`);
* hence `items` stays, is appended to, or loses its first or last element:
  `UnmovedItems`, `PushedItems`, `PoppedItems`;
* a pop answers EMPTY after it has seen the null of its own end next to one of the
  other. In a drain nulls only grow inwards from the ends. `VacantInv` keeps what a
  pop has read of them through the oracle and the three reads, `NullsMeet` concludes
  that no element is left between, and `EmptySeen` that `seen` says so.

**Locks** (`SpinLocksProofs`; any number of threads, for
the ticket lock fewer than `W`): each kind excludes (`TasExcludes`, `TicketExcludes`,
`McsExcludes`), and the composition keeps `LockInv` and `MutualExclusion` and implements
`Mutex`, and `FairMutex` where it queues (`ImplementsMutex`, `ImplementsFair`). The test-and-set
invariant is inductive as it stands. The ticket invariant counts how far each number
lies behind `now_serving` modulo `W`: the numbers out form an interval, one thread
each. The MCS invariant orders the threads between swap and hand-over by the
history variable `ahead`: pointers in memory agree with that order where they exist.

**Experiments** (`ExperimentsProofs`; any number of workers, operations and room):
`ExperimentsInvariance`, `ExperimentsTypes`, `OvershootBounded`, `StdDequeSafety`,
`TimesEverything`, `ArgsStayLive`, `HangingAlone`, `CountsConserved`, `PopsCountedTwice`.
`IInv` relates counters and the operations under way (`Shares`), says who is on which
side of the barrier (`Barrier`), that the lock is held exactly in the locked part of the
loop (`LockHeld`), and what an operation is and how it may have ended where it is done
(`Doing`). `Conserved` is inductive with these; `Doubled` says of a locked throughput run that
each pop is counted once when it is made and again when it is released, and with `Ended`,
that nobody is still at work when main is done, gives `PopsCountTwice`.

*Model-checked only:* the accounting of hints and size of the bounded deque for three
threads, and liveness, which is out of the prover's reach under fairness, as is `ENABLED`.

## 5. Not modelled

* Weak memory: all atomic accesses of the deques are sequentially consistent, the
  locks rely on x86 and are taken as such.
* The padding bits that a 16-byte exchange also compares, the wrap of the 32-bit
  version counters, a `malloc` or a `pthread_create` that fails.
* Times: only the order of clock readings and operations (`TimesAll`).
* The stress test: freeze-and-scan rounds over two barriers. Its scan checks what
  `Shape` and `SizeExact` state for every state, frozen or not, and the barrier is
  modelled in `Experiments`.
* `faa`, `spin64` and `spin128` of `atomic_ops.h`, which no lock uses; the circular draft,
  which is not built; the tests, the timer, plots, results, write-up and the checks in
  `etc/`: scenarios, data and diagnostics without a protocol.

What is left to do: obstruction freedom of the unbounded oracle; the stress test's rounds
over the invariants of the deques.
