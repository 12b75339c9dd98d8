------------------------------ MODULE AtomicDeque ------------------------------
(***************************************************************************)
(* What a deque promises its clients: each of the four operations takes    *)
(* effect at one instant between its call and its return.  A pop that      *)
(* answers EMPTY, and a push to a bounded deque that answers FULL, changes *)
(* nothing, and the answer was true at some instant since the call.  When  *)
(* nobody is in an operation, the deque may be cleared.                    *)
(***************************************************************************)
EXTENDS Integers, Sequences

CONSTANTS
  Threads, Elts, Workload,
  Bounded     \* TRUE if a push at the end of its room answers FULL

LEFT  == "LEFT"
RIGHT == "RIGHT"
PUSH  == "push"
POP   == "pop"
NULL  == "NULL"
OK    == "OK"
EMPTY == "EMPTY"
FULL  == "FULL"
NONE  == "NONE"

VARIABLES
  items,      \* the elements, from left to right
  room,       \* how many elements each end of a bounded deque has place for
  phase,      \* of a call: "idle", "waiting" for its effect, or "done"
  end, op, elt,
  ret,        \* the answer of a thread's last call
  seen,       \* its refusal has been justified since the call
  lenient     \* input: a pop may answer EMPTY although there are elements

avars == <<items, room, phase, end, op, elt, ret, seen>>

\* The deque, as it is now, has no place or no element for t's operation.
Refused(t) == IF op[t] = PUSH THEN Bounded /\ room[end[t]] = 0 ELSE items = <<>>

\* seen[t] records that t's call has been refused at some instant so far.
Witness ==
  seen' = [t \in Threads |->
             /\ phase'[t] = "waiting"
             /\ (phase[t] = "waiting" /\ seen[t]) \/ Refused(t)']

\* n more places at end e.
Widen(e, n) == room' = IF Bounded THEN [room EXCEPT ![e] = @ + n] ELSE room

Answer(t, stat, val) == ret' = [ret EXCEPT ![t] = [stat |-> stat, val |-> val]]

Call(t) ==
  /\ phase[t] = "idle"
  /\ phase' = [phase EXCEPT ![t] = "waiting"]
  /\ \E w \in Workload, v \in Elts \cup {NULL} :
       /\ w[2] = PUSH <=> v # NULL
       /\ end' = [end EXCEPT ![t] = w[1]]
       /\ op'  = [op EXCEPT ![t] = w[2]]
       /\ elt' = [elt EXCEPT ![t] = v]
  /\ Answer(t, NONE, NULL)
  /\ UNCHANGED <<items, room>>

TakeEffect(t) ==
  /\ phase[t] = "waiting"
  /\ phase' = [phase EXCEPT ![t] = "done"]
  /\ UNCHANGED <<end, op, elt>>

Push(t) ==
  LET e == end[t] IN
  /\ TakeEffect(t)
  /\ op[t] = PUSH
  /\ Bounded => room[e] > 0
  /\ items' = IF e = LEFT THEN <<elt[t]>> \o items ELSE Append(items, elt[t])
  /\ Widen(e, -1)
  /\ Answer(t, OK, NULL)

Pop(t) ==
  LET e    == end[t]
      last == Len(items)
  IN
  /\ TakeEffect(t)
  /\ op[t] = POP
  /\ items # <<>>
  /\ items' = IF e = LEFT THEN Tail(items) ELSE SubSeq(items, 1, last - 1)
  /\ Widen(e, 1)
  /\ Answer(t, OK, IF e = LEFT THEN items[1] ELSE items[last])

Refuse(t) ==
  /\ phase[t] = "waiting"
  /\ phase' = [phase EXCEPT ![t] = "idle"]
  /\ Answer(t, IF op[t] = PUSH THEN FULL ELSE EMPTY, NULL)
  /\ UNCHANGED <<items, room, end, op, elt>>

Return(t) ==
  /\ phase[t] = "done"
  /\ phase' = [phase EXCEPT ![t] = "idle"]
  /\ UNCHANGED <<items, room, end, op, elt, ret>>

\* clear_deque: no element is left, and no place is gained or lost.
Clear ==
  /\ \A t \in Threads : phase[t] = "idle"
  /\ items' = <<>>
  /\ IF Bounded
     THEN /\ room' \in [{LEFT, RIGHT} -> Nat]
          /\ room'[LEFT] + room'[RIGHT] = room[LEFT] + room[RIGHT] + Len(items)
     ELSE UNCHANGED room
  /\ UNCHANGED <<phase, end, op, elt, ret>>

Init ==
  /\ items = <<>>
  /\ room \in [{LEFT, RIGHT} -> Nat]
  /\ phase = [t \in Threads |-> "idle"]
  /\ end \in [Threads -> {LEFT, RIGHT}]
  /\ op \in [Threads -> {PUSH, POP}]
  /\ elt \in [Threads -> Elts \cup {NULL}]
  /\ ret = [t \in Threads |-> [stat |-> NONE, val |-> NULL]]
  /\ seen = [t \in Threads |-> FALSE]

Served(t) == Call(t) \/ Push(t) \/ Pop(t) \/ Return(t)

Next ==
  /\ \/ Clear
     \/ \E t \in Threads :
          Served(t) \/ ((seen[t] \/ (lenient /\ op[t] = POP)) /\ Refuse(t))
  /\ Witness

Spec == Init /\ [][Next]_avars
=============================================================================
