---------------------------- MODULE MCExperiments ----------------------------
(* The experiment programs with few threads. *)
EXTENDS ExperimentsInv

Command(lk, ex, wf, n) ==
  [locked |-> lk, experiment |-> ex, workflow |-> wf, thread_count |-> n]

\* The programs and their options.  The stack and the queue workflow differ
\* in the end that is popped from, so each is run with one experiment only.
Small ==
  {Command(lk, TIMING, STACK, n) : lk \in BOOLEAN, n \in 1 .. 4}
    \cup {Command(lk, TIMING, RANDOM, n) : lk \in BOOLEAN, n \in 1 .. 3}
    \cup {Command(lk, THROUGHPUT, wf, n) :
             lk \in BOOLEAN, wf \in {QUEUE, RANDOM, SHOVE}, n \in 1 .. 3}
=============================================================================
