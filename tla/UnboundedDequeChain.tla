-------------------------- MODULE UnboundedDequeChain --------------------------
(***************************************************************************)
(* The inductive invariant of the chain of buffers, when the deque is used *)
(* as UnboundedDequeStages describes it: how the buffers are linked and    *)
(* filled, and what the threads know of that.                              *)
(***************************************************************************)
EXTENDS UnboundedDequeInv, UnboundedDequeStages

\* The buffers that make up the deque: attached, and not lost by clear_deque.
Attached == Public \ lost

AttachedPlace(p) == p = Nowhere \/ p.buf \in Attached

Busy == {t \in Threads : pc[t] # "idle"}

\* Pushes and pops never overlap, and in a refill nothing does.
InvStage ==
  /\ stage \in {"fill", "drain", "refill"}
  /\ \A t \in Busy : op[t] = IF stage = "drain" THEN POP ELSE PUSH
  /\ stage = "refill" => \A t, u \in Busy : t = u

\* Two neighbours are linked both ways and ordered, and from any buffer the
\* links lead to all the others.  A fill never leaves the node empty that is
\* nearest to the edge where a buffer was attached.
InvLinks ==
  /\ lost \subseteq Public
  /\ \A b \in Attached, e \in End :
       /\ Link(b, e) \in Buffers => Link(b, e) \in Attached
       /\ Linked(b, e) /\ Ordered(b, e)
       /\ stage = "fill" => mem[b][Entry(e)].value # Own(e)
  /\ \A e \in End : \E b \in Attached : Link(b, e) = Own(e)
  /\ \A b \in Attached : Attached \subseteq Reached(b, LEFT) \cup Reached(b, RIGHT)

InvHints ==
  \A e \in End :
    /\ hint[e].buf \in Attached
    /\ hint[e].idx # Far(e)
    /\ stage = "fill" => hint[e].idx # Entry(e)

Decided == {"recheck", "attach", "reload", "peek", "cas1", "cas2"}
Working == {"saveHint", "loadInner", "loadOuter"} \cup Decided

\* Where the operation of t takes place.  Next to the opposite edge it is only
\* where the chain ends, so that this edge is no link.
Aimed(t) ==
  LET e == end[t] IN
  /\ AttachedPlace(k[t]) /\ AttachedPlace(at[t]) /\ AttachedPlace(saved[t])
  /\ ~Attaching(t) /\ side[t] \in Buffers => side[t] \in Attached
  /\ pc[t] \notin {"idle", "oracleHint"} =>
       k[t].idx # Far(e) /\ (stage = "fill" => k[t].idx # Entry(e))
  /\ pc[t] \in Working /\ stage # "fill" /\ k[t].idx = Entry(e) =>
       mem[k[t].buf][Far(e)].value = Other(e)
  /\ pc[t] = "moveHint" /\ op[t] = POP => k[t].idx # Entry(e)

\* What the oracle has passed: but in a fill, only nulls of its end, so that
\* it finds the head before the end of the chain.
Scanning(t) ==
  LET e == end[t] IN
  /\ pc[t] \in {"oracleInner", "oraclePeek"} /\ AtEdge(t) =>
       outer[t].value \in Buffers \cup {Own(e)}
  /\ pc[t] = "oraclePeek" => AtEdge(t) /\ outer[t].value # Own(e)
  /\ pc[t] = "climb" => at[t].idx = Rim(e)
  /\ pc[t] \in {"scanOuter", "scanInner"} =>
       /\ at[t].idx # Far(e)
       /\ stage # "fill" => at[t].idx = Rim(e) \/ NodeAt(at[t]).value = Own(e)
  /\ pc[t] = "scanInner" =>
       IF stage = "fill" THEN at[t].idx = Entry(e) => outer[t].value # Own(e)
       ELSE at[t].idx = Rim(e) \/ outer[t].value = Own(e)
  /\ pc[t] = "scanNext" =>
       at[t].idx = Far(e) /\ (stage # "fill" => NodeAt(at[t]).value \in Buffers)

\* What the loads of an operation tell of the present: a node that has been
\* found taken stays so in a fill, a null stays in a drain, a link always.
Informed(t) ==
  LET e    == end[t]
      next == In(e, k[t])
  IN
  /\ pc[t] \in Decided \cup {"loadOuter"} /\ op[t] = PUSH /\ inner[t].value # Own(e) =>
       NodeAt(next).value # Own(e)
  /\ pc[t] \in Decided =>
       /\ inner[t].value # Own(e)
       /\ IF Straddles(t)
          THEN side[t] = Link(k[t].buf, e) /\ side[t] \in Buffers
          ELSE outer[t].value = Own(e) /\ (op[t] = POP => NodeAt(k[t]).value = Own(e))
  /\ pc[t] \in {"cas1", "cas2"} /\ Straddles(t) =>
       /\ stage # "fill" /\ peek[t].value = Own(e)
       /\ op[t] = POP => NodeAt(PeekPlace(t)).value = Own(e)
  /\ pc[t] \in Decided \ {"recheck"} /\ op[t] = POP /\ inner[t].value = Other(e) =>
       inner[t] # NodeAt(next)
  /\ Attaching(t) => mem[side[t]] = NewBuffer(e, k[t].buf, elt[t])

InvThreads == \A t \in Threads : Aimed(t) /\ Scanning(t) /\ Informed(t)

\* The sizes that SizeExact speaks of are those of finite sets.
InvFinite == IsFiniteSet(Stored) /\ IsFiniteSet(Busy)

ChainInv ==
  InvStage /\ InvLinks /\ InvHints /\ InvThreads /\ NoCrash /\ InvFinite /\ SizeExact
=============================================================================
