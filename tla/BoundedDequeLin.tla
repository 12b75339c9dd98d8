---------------------------- MODULE BoundedDequeLin ----------------------------
(***************************************************************************)
(* The bounded deque implements the atomic one.  An operation takes effect *)
(* at its second compare_exchange_strong; the history variable seen        *)
(* records, for each call in progress, whether the deque was full (for a   *)
(* push) or empty (for a pop) at some instant since the call, and popped   *)
(* records at which ends pops have been called since the deque was clear.  *)
(***************************************************************************)
EXTENDS BoundedDeque

VARIABLES seen, popped

lvars == <<vars, seen, popped>>

items == LET l == HeadSlot(LEFT)
         IN  [i \in 1 .. HeadSlot(RIGHT) - l - 1 |-> nodes[l + i].value]

room == [e \in End |->
           IF e = LEFT THEN HeadSlot(LEFT) ELSE N - 1 - HeadSlot(RIGHT)]

Effective(t) == pc[t] \in {"moveHint", "resize"}

phase == [t \in Threads |-> IF pc[t] = "idle" THEN "idle"
                            ELSE IF Effective(t) THEN "done" ELSE "waiting"]

\* The answer is fixed as soon as the operation has taken effect.
answer == [t \in Threads |->
             IF Effective(t)
             THEN [stat |-> OK, val |-> IF op[t] = PUSH THEN NULL ELSE inner[t].value]
             ELSE ret[t]]

Atomic == INSTANCE AtomicDeque WITH
            ret <- answer, Bounded <- TRUE, lenient <- popped = End

Popping == {end[t] : t \in {u \in Threads : op[u] = POP /\ pc[u] # "idle"}}

LinInit == Init /\ seen = [t \in Threads |-> FALSE] /\ popped = {}
LinNext ==
  /\ Next
  /\ Atomic!Witness
  /\ popped' = IF Clear THEN {} ELSE popped \cup Popping'
LinSpec == LinInit /\ [][LinNext]_lvars

\* Every behaviour of the code is one of an atomic deque: elements come out
\* once and in order, FULL is true, and so is EMPTY as long as no pop was
\* called at the other end.
Linearizable == Atomic!Spec

\* The same for any workload, with EMPTY taken on trust.
Lenient == INSTANCE AtomicDeque WITH
             ret <- answer, Bounded <- TRUE, lenient <- TRUE
LinearizableButEmpty == Lenient!Spec

\* An EMPTY is true of some instant of the call that answers it.
EmptyIsTrue ==
  [][\A t \in Threads :
       ret[t].stat = NONE /\ ret'[t].stat = EMPTY => seen[t]]_lvars
=============================================================================
