---------------------------- MODULE UnboundedDequeLin ----------------------------
(***************************************************************************)
(* The unbounded deque against the atomic one, as in BoundedDequeLin: an   *)
(* operation takes effect at its second compare_exchange_strong, and seen  *)
(* records whether the chain held no element at some instant since a pop   *)
(* in progress was called.                                                 *)
(***************************************************************************)
EXTENDS UnboundedDequeStages, Sequences

VARIABLE seen

lvars == <<svars, seen>>

\* Place q is p or lies to its left.
UpTo(q, p) == IF q.buf = p.buf THEN q.idx <= p.idx ELSE q.buf \in Reached(p.buf, LEFT)

\* The place of p in the row of the places S.
Rank(S, p) == Cardinality({q \in S : UpTo(q, p)})

\* The values in the places S from left to right.
Row == [S \in SUBSET [buf : Buffers, idx : Inner] |->
          [n \in 1 .. Cardinality(S) |-> NodeAt(CHOOSE p \in S : Rank(S, p) = n).value]]

\* The elements from left to right.
items == Row[Stored]

room == [e \in End |-> 0]

Effective(t) == pc[t] \in {"moveHint", "resize"}

phase == [t \in Threads |-> IF pc[t] = "idle" THEN "idle"
                            ELSE IF Effective(t) THEN "done" ELSE "waiting"]

\* The answer is fixed as soon as the operation has taken effect.
answer == [t \in Threads |->
             IF Effective(t)
             THEN [stat |-> OK, val |-> IF op[t] = PUSH THEN NULL ELSE inner[t].value]
             ELSE ret[t]]

Atomic == INSTANCE AtomicDeque WITH
            ret <- answer, Bounded <- FALSE, lenient <- FALSE

LinInit == StagedInit /\ seen = [t \in Threads |-> FALSE]
LinNext == StagedNext /\ Atomic!Witness
LinSpec == LinInit /\ [][LinNext]_lvars

\* Every behaviour of the code is one of an atomic deque without a bound.
Linearizable == Atomic!Spec

\* An EMPTY is true of some instant of the call that answers it.
EmptyIsTrue ==
  [][\A t \in Threads :
       ret[t].stat = NONE /\ ret'[t].stat = EMPTY => seen[t]]_lvars
=============================================================================
