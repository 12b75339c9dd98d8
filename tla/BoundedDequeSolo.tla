--------------------------- MODULE BoundedDequeSolo ---------------------------
(***************************************************************************)
(* The bounded deque under the scheduler of the definition of obstruction  *)
(* freedom: after some point one thread runs alone, and every other thread *)
(* stays stalled wherever it was, possibly between two of its accesses.    *)
(***************************************************************************)
EXTENDS BoundedDeque

VARIABLE solo   \* the thread that runs alone, or NONE

svars == <<vars, solo>>

SoloInit == Init /\ solo = NONE

\* Interleaved steps, until a thread in the middle of a call is left alone.
Contend == solo = NONE /\ Next /\ UNCHANGED solo

Isolate(t) ==
  /\ solo = NONE
  /\ pc[t] # "idle"
  /\ solo' = t
  /\ UNCHANGED vars

RunAlone == \E t \in Threads : solo = t /\ Step(t) /\ UNCHANGED solo

SoloNext == Contend \/ RunAlone \/ \E t \in Threads : Isolate(t)

\* The thread that runs alone does run.
SoloSpec == SoloInit /\ [][SoloNext]_svars /\ WF_svars(RunAlone)

\* A thread that runs alone returns from its call.
ObstructionFree ==
  \A t \in Threads : solo = t ~> pc[t] = "idle"

\* The hint of end e is a slot of the array, at the head or outward of it:
\* where the oracle scans inwards and finds the head.  What stalled threads
\* owe the hint can break that in two ways.  A push that took effect and has
\* not moved it leaves it inward of the head.  A pop that owes its move back
\* lets a later push move the hint beyond the array.  The oracle then gives
\* the hint back as it is.
HintFindsHead(e) ==
  IF e = LEFT THEN hint[e] <= HeadSlot(e) ELSE hint[e] \in HeadSlot(e) .. N - 1

\* It does so if, once it is alone, the hint of its end leads the oracle to
\* the head; otherwise it may retry for ever (see ObstructionFree).
SoloReturns ==
  \A t \in Threads :
    solo = t /\ HintFindsHead(end[t]) ~> pc[t] = "idle"
=============================================================================
