--------------------------- MODULE SpinLocksProofs ---------------------------
(***************************************************************************)
(* What TLC checks of the three kinds of locks for three threads, proved   *)
(* for any number of them: the two locks that queue exclude and hand the   *)
(* lock on in the order in which the threads have drawn a number or        *)
(* swapped themselves in; the third one excludes; each kind implements     *)
(* Mutex, and the ticket and the MCS lock FairMutex.                       *)
(***************************************************************************)
EXTENDS SpinLocks, FiniteSetTheorems, TLAPS

(* The ticket lock excludes although both counters wrap.  The numbers that
   are out lie between now_serving and next_ticket, each with one thread;
   there are fewer threads than numbers, so a thread that draws one finds a
   number that nobody holds. *)

\* W leaves a number to draw to a lone thread.
LEMMA ManyNumbers == W \in Nat /\ (Threads # {} => W >= 2)
<1>1. IsFiniteSet(Threads) /\ Cardinality(Threads) \in Nat
  BY WAssumption, FS_CardinalityType
<1>2. Threads # {} => Cardinality(Threads) # 0
  BY <1>1, FS_EmptySet
<1>3. QED
  BY <1>1, <1>2, WAssumption

\* Places count from now_serving, and no two numbers have the same one.
LEMMA PlaceFacts ==
  ASSUME now_serving \in Number, W \in Nat
  PROVE  /\ Place(now_serving) = 0
         /\ \A n \in Number : Place(n) \in Number
         /\ \A m, n \in Number : Place(m) = Place(n) => m = n
         /\ \A n \in Number : Place(n) < W - 1 =>
              Inc(n) \in Number /\ Place(Inc(n)) = Place(n) + 1
  BY DEF Number, Place, Inc

\* When the next number is served, every other number moves up by one.
LEMMA PlaceServed ==
  ASSUME now_serving \in Number, W \in Nat, now_serving' = Inc(now_serving)
  PROVE  /\ now_serving' \in Number
         /\ \A n \in Number \ {now_serving} :
              Place(n) > 0 /\ Place(n)' = Place(n) - 1
  BY DEF Number, Place, Inc

\* A thread without a number finds less than W - 1 numbers out: each of them
\* is held by one of the others.
LEMMA FreeNumber ==
  ASSUME TicketInv, NEW t \in Threads, ~Member(t)
  PROVE  Place(next_ticket) < W - 1
<1> DEFINE members == {u \in Threads : Member(u)}
           last == Place(next_ticket) - 1
           holder == [i \in 0 .. last |->
                        CHOOSE u \in members : Place(ticket[u]) = i]
<1>1. W \in Nat /\ Place(next_ticket) \in Nat
  BY ManyNumbers, PlaceFacts DEF TicketInv, Number
<1>2. IsFiniteSet(members) /\ Cardinality(members) \in Nat /\ Cardinality(members) < W - 1
  <2>1. /\ IsFiniteSet(Threads \ {t})
        /\ Cardinality(Threads \ {t}) = Cardinality(Threads) - 1
    BY WAssumption, FS_RemoveElement
  <2>2. members \in SUBSET (Threads \ {t})
    OBVIOUS
  <2>3. IsFiniteSet(members) /\ Cardinality(members) <= Cardinality(Threads \ {t})
    BY <2>1, <2>2, FS_Subset
  <2>4. Cardinality(Threads) \in Nat /\ Cardinality(members) \in Nat
    BY <2>3, WAssumption, FS_CardinalityType
  <2>5. QED
    BY <2>1, <2>3, <2>4, <1>1, WAssumption
<1>3. \A i \in 0 .. last : holder[i] \in members /\ Place(ticket[holder[i]]) = i
  <2>1. \A i \in 0 .. last : \E u \in members : Place(ticket[u]) = i
    BY DEF TicketInv
  <2>2. QED
    BY <2>1
<1>4. IsFiniteSet(0 .. last) /\ Cardinality(0 .. last) = Place(next_ticket)
  BY <1>1, FS_Interval
<1>5. ~(Cardinality(members) < Place(next_ticket))
  <2>1. SUFFICES ASSUME Cardinality(members) < Place(next_ticket) PROVE FALSE
    OBVIOUS
  <2>2. holder \in [0 .. last -> members]
    BY <1>3
  <2>3. Cardinality(members) < Cardinality(0 .. last)
    BY <1>4, <2>1
  <2> HIDE DEF members, last, holder
  <2>4. \E i, j \in 0 .. last : i # j /\ holder[i] = holder[j]
    BY <1>2, <1>4, <2>2, <2>3, FS_PigeonHole
  <2>5. QED
    BY <2>4, <1>3
<1>6. QED
  BY <1>1, <1>2, <1>5

-----------------------------------------------------------------------------

\* Drawing a number: it is the next place, which nobody had.
LEMMA TicketInvDraw ==
  ASSUME TicketInv, NEW t \in Threads, FaiCas(t)
  PROVE  TicketInv'
<1> USE ManyNumbers DEF Number
<1>1. CASE ticket[t] # next_ticket
  <2>1. UNCHANGED <<at, next_ticket, now_serving, served>>
        /\ ticket' = [ticket EXCEPT ![t] = next_ticket] /\ at[t] = "cas"
    BY <1>1 DEF FaiCas, dispenser, Move
  <2>2. QED
    BY <2>1 DEF TicketInv, Member, Holds, Queued, Holding, Place
<1>2. CASE ticket[t] = next_ticket
  <2>1. /\ at[t] = "cas" /\ at' = [at EXCEPT ![t] = "wait"]
        /\ next_ticket' = Inc(next_ticket)
        /\ UNCHANGED <<ticket, now_serving, served>>
    BY <1>2 DEF FaiCas, Move
  <2>2. /\ \A u \in Threads \ {t} : (Member(u)' <=> Member(u)) /\ (Holds(u)' <=> Holds(u))
        /\ ~Member(t) /\ Member(t)' /\ ~Holds(t)'
    BY <2>1 DEF TicketInv, Member, Holds, Queued, Holding
  <2>3. \A n : Place(n)' = Place(n)
    BY <2>1 DEF Place
  <2>4. /\ next_ticket' \in Number
        /\ Place(next_ticket') = Place(next_ticket) + 1
        /\ Place(next_ticket) \in Number
    BY <2>1, <2>2, FreeNumber, PlaceFacts DEF TicketInv
  <2>5. /\ at' \in [Threads -> {"out", "load", "cas", "wait", "in", "serve"}]
        /\ now_serving' \in Number /\ ticket' \in [Threads -> Number]
        /\ served' \in [Threads -> Number]
    BY <2>1 DEF TicketInv
  <2>6. \A u \in Threads : Place(ticket[u]) \in Number
    BY PlaceFacts DEF TicketInv
  <2>7. \A u \in Threads : Member(u)' => Place(ticket[u])' < Place(next_ticket)'
    BY <1>2, <2>1, <2>2, <2>3, <2>4, <2>6 DEF TicketInv
  <2>8. \A u, v \in Threads : Member(u)' /\ Member(v)' /\ ticket'[u] = ticket'[v] => u = v
    BY <1>2, <2>1, <2>2, <2>4, <2>6 DEF TicketInv
  <2>9. \A i \in 0 .. Place(next_ticket)' - 1 :
          \E u \in Threads : Member(u)' /\ Place(ticket[u])' = i
    <3> SUFFICES ASSUME NEW i \in 0 .. Place(next_ticket)' - 1
                 PROVE  \E u \in Threads : Member(u)' /\ Place(ticket[u])' = i
      OBVIOUS
    <3>1. CASE i = Place(next_ticket)
      BY <1>2, <2>1, <2>2, <2>3, <3>1
    <3>2. CASE i # Place(next_ticket)
      <4>1. i \in 0 .. Place(next_ticket) - 1
        BY <2>3, <2>4, <3>2
      <4>2. PICK u \in Threads : Member(u) /\ Place(ticket[u]) = i
        BY <4>1 DEF TicketInv
      <4>3. QED
        BY <2>1, <2>2, <2>3, <4>2
    <3>3. QED
      BY <3>1, <3>2
  <2>10. \A u \in Threads : Holds(u)' => ticket'[u] = now_serving'
    BY <2>1, <2>2 DEF TicketInv
  <2>11. \A u \in Threads : at'[u] = "serve" => served'[u] = now_serving'
    BY <2>1 DEF TicketInv
  <2>12. QED
    BY <2>4, <2>5, <2>7, <2>8, <2>9, <2>10, <2>11 DEF TicketInv
<1>3. QED
  BY <1>1, <1>2

\* Serving the next number: its thread is the only holder there was, and all
\* others move up.
LEMMA TicketInvServe ==
  ASSUME TicketInv, NEW t \in Threads, Serve(t)
  PROVE  TicketInv'
<1> USE ManyNumbers DEF Number
<1>1. /\ at[t] = "serve" /\ at' = [at EXCEPT ![t] = "out"]
      /\ now_serving' = Inc(now_serving)
      /\ UNCHANGED <<next_ticket, ticket, served>>
  BY DEF Serve, Move, TicketInv
<1>2. /\ \A u \in Threads \ {t} : (Member(u)' <=> Member(u)) /\ (Holds(u)' <=> Holds(u))
      /\ Member(t) /\ Holds(t) /\ ~Member(t)' /\ ~Holds(t)'
  BY <1>1 DEF TicketInv, Member, Holds, Queued, Holding
<1>3. ticket[t] = now_serving
  BY <1>2 DEF TicketInv
<1>4. /\ now_serving' \in Number
      /\ \A n \in Number \ {now_serving} : Place(n) > 0 /\ Place(n)' = Place(n) - 1
  BY <1>1, PlaceServed DEF TicketInv
<1>5. /\ Place(now_serving) = 0
      /\ \A n \in Number : Place(n) \in Number
  BY PlaceFacts DEF TicketInv
<1>6. \A u \in Threads \ {t} : Member(u) => ticket[u] \in Number \ {now_serving}
  BY <1>2, <1>3 DEF TicketInv
<1>7. next_ticket \in Number \ {now_serving}
  BY <1>2, <1>3, <1>5 DEF TicketInv
<1>8. /\ at' \in [Threads -> {"out", "load", "cas", "wait", "in", "serve"}]
      /\ next_ticket' \in Number /\ ticket' \in [Threads -> Number]
      /\ served' \in [Threads -> Number]
  BY <1>1 DEF TicketInv
<1>9. \A u \in Threads : Member(u)' => Place(ticket[u])' < Place(next_ticket)'
  BY <1>1, <1>2, <1>4, <1>5, <1>6, <1>7 DEF TicketInv
<1>10. \A u, v \in Threads : Member(u)' /\ Member(v)' /\ ticket'[u] = ticket'[v] => u = v
  BY <1>1, <1>2 DEF TicketInv
<1>11. \A i \in 0 .. Place(next_ticket)' - 1 :
         \E u \in Threads : Member(u)' /\ Place(ticket[u])' = i
  <2> SUFFICES ASSUME NEW i \in 0 .. Place(next_ticket)' - 1
               PROVE  \E u \in Threads : Member(u)' /\ Place(ticket[u])' = i
    OBVIOUS
  <2>1. Place(next_ticket)' = Place(next_ticket) - 1 /\ Place(next_ticket) \in Number
    BY <1>1, <1>4, <1>5, <1>7
  <2>2. i + 1 \in 0 .. Place(next_ticket) - 1
    BY <2>1
  <2>3. PICK u \in Threads : Member(u) /\ Place(ticket[u]) = i + 1
    BY <2>2 DEF TicketInv
  <2>4. u # t
    BY <1>3, <1>5, <2>3
  <2>5. QED
    BY <1>1, <1>2, <1>4, <1>6, <2>3, <2>4
<1>12. \A u \in Threads : ~Holds(u)'
  <2>1. \A u \in Threads : Holds(u) => Member(u) /\ ticket[u] = now_serving
    BY DEF TicketInv, Member, Holds
  <2>2. QED
    BY <1>2, <1>6, <2>1
<1>13. \A u \in Threads : at'[u] # "serve"
  BY <1>12 DEF Holds, Holding
<1>14. QED
  BY <1>4, <1>8, <1>9, <1>10, <1>11, <1>12, <1>13 DEF TicketInv

\* Every step of the ticket lock keeps its invariant.
LEMMA TicketInvNext == TicketInv /\ [TicketNext]_ticketVars => TicketInv'
<1> SUFFICES ASSUME TicketInv, [TicketNext]_ticketVars PROVE TicketInv'
  OBVIOUS
<1> USE ManyNumbers
<1>1. ASSUME NEW t \in Threads, TicketAcquire(t) PROVE TicketInv'
  BY <1>1 DEF TicketAcquire, TicketInv, dispenser, Move, Member, Holds, Queued, Holding, Place
<1>2. ASSUME NEW t \in Threads, FaiLoad(t) PROVE TicketInv'
  BY <1>2 DEF FaiLoad, TicketInv, dispenser, Move, Member, Holds, Queued, Holding, Place
<1>3. ASSUME NEW t \in Threads, TicketWait(t) PROVE TicketInv'
  BY <1>3 DEF TicketWait, TicketInv, dispenser, Move, Member, Holds, Queued, Holding, Place
<1>4. ASSUME NEW t \in Threads, TicketRelease(t) PROVE TicketInv'
  BY <1>4 DEF TicketRelease, TicketInv, dispenser, Move, Member, Holds, Queued, Holding, Place
<1>5. CASE UNCHANGED ticketVars
  BY <1>5 DEF ticketVars, TicketInv, Member, Holds, Place
<1>6. QED
  BY <1>1, <1>2, <1>3, <1>4, <1>5, TicketInvDraw, TicketInvServe DEF TicketNext, TicketStep

\* A thread that holds the lock has the number being served, and no wrap of
\* the counters gives a number out twice.
THEOREM TicketInvariance == TicketSpec => []TicketInv
<1>1. TicketInit => TicketInv
  BY ManyNumbers
     DEF TicketInit, ClientsInit, TicketInv, Member, Holds, Queued, Holding, Place, Number
<1>2. QED
  BY <1>1, TicketInvNext, PTL DEF TicketSpec

\* One number is served at a time, and one thread has it.
LEMMA TicketInvExcludes == TicketInv => MutualExclusion
  BY DEF TicketInv, MutualExclusion, Member, Holds

\* No two threads are between ticket_acquire and ticket_release.
THEOREM TicketExcludes == TicketSpec => []MutualExclusion
  BY TicketInvariance, TicketInvExcludes, PTL

-----------------------------------------------------------------------------

\* What the steps of the ticket lock do to the order of the queue: only a draw
\* and a service change it, and who goes in is at the front.
LEMMA TicketOrder ==
  ASSUME TicketInv, NEW t \in Threads
  PROVE  /\ (\/ TicketAcquire(t) \/ FaiLoad(t) \/ TicketWait(t) \/ TicketRelease(t)
             \/ FaiCas(t) /\ ticket[t] # next_ticket)
              => TicketAhead' = TicketAhead
         /\ FaiCas(t) /\ ticket[t] = next_ticket =>
              TicketAhead' = [TicketAhead EXCEPT ![t] = {u \in Threads : Member(u)}]
         /\ Serve(t) => TicketAhead' = [u \in Threads |-> TicketAhead[u] \ {t}]
         /\ TicketWait(t) => TicketAhead[t] = {}
<1> USE ManyNumbers
<1>0. at \in [Threads -> {"out", "load", "cas", "wait", "in", "serve"}]
      /\ ticket \in [Threads -> Number] /\ now_serving \in Number
  BY DEF TicketInv
<1>1. ASSUME \/ TicketAcquire(t) \/ FaiLoad(t) \/ TicketWait(t) \/ TicketRelease(t)
             \/ FaiCas(t) /\ ticket[t] # next_ticket
      PROVE  TicketAhead' = TicketAhead
  <2>1. /\ now_serving' = now_serving
        /\ \A u \in Threads : /\ Member(u)' <=> Member(u)
                              /\ Member(u) => ticket'[u] = ticket[u]
    BY <1>0, <1>1 DEF TicketAcquire, FaiLoad, TicketWait, TicketRelease, FaiCas, dispenser,
       Move, Member, Queued, Holding
  <2>2. QED
    BY <2>1 DEF TicketAhead, Place
<1>2. ASSUME FaiCas(t), ticket[t] = next_ticket
      PROVE  TicketAhead' = [TicketAhead EXCEPT ![t] = {u \in Threads : Member(u)}]
  <2>1. /\ UNCHANGED <<now_serving, ticket>> /\ ~Member(t) /\ Member(t)'
        /\ \A u \in Threads \ {t} : Member(u)' <=> Member(u)
    BY <1>0, <1>2 DEF FaiCas, Move, Member, Queued, Holding
  <2>2. \A u \in Threads : Member(u) => Place(ticket[u]) < Place(ticket[t])
    BY <1>2 DEF TicketInv
  <2>3. \A u \in Threads : Place(ticket[u]) \in Number /\ Place(ticket[u])' = Place(ticket[u])
    BY <1>0, <2>1, PlaceFacts DEF Place
  <2>4. TicketAhead'[t] = {u \in Threads : Member(u)}
    BY <2>1, <2>2, <2>3 DEF TicketAhead, Number
  <2>5. \A u \in Threads \ {t} : TicketAhead'[u] = TicketAhead[u]
    BY <2>1, <2>2, <2>3 DEF TicketAhead, Number
  <2>6. /\ TicketAhead' = [u \in Threads |-> TicketAhead'[u]]
        /\ TicketAhead = [u \in Threads |-> TicketAhead[u]]
    BY DEF TicketAhead
  <2>7. QED
    BY <2>4, <2>5, <2>6
<1>3. ASSUME Serve(t)
      PROVE  TicketAhead' = [u \in Threads |-> TicketAhead[u] \ {t}]
  <2>1. /\ UNCHANGED ticket /\ now_serving' = Inc(now_serving)
        /\ Member(t) /\ ~Member(t)' /\ ticket[t] = now_serving
        /\ \A u \in Threads \ {t} : Member(u)' <=> Member(u)
    BY <1>0, <1>3 DEF Serve, Move, Member, Holds, Queued, Holding, TicketInv
  <2>2. \A u \in Threads \ {t} : Member(u) =>
          Place(ticket[u]) > 0 /\ Place(ticket[u])' = Place(ticket[u]) - 1
    BY <1>0, <2>1, PlaceServed DEF TicketInv
  <2>3. Place(ticket[t]) = 0 /\ \A u \in Threads : Place(ticket[u]) \in Number
    BY <1>0, <2>1, PlaceFacts
  <2>4. \A u \in Threads : TicketAhead'[u] = TicketAhead[u] \ {t}
    <3>1. TicketAhead'[t] = TicketAhead[t] \ {t}
      BY <2>1, <2>3 DEF TicketAhead, Number
    <3>2. ASSUME NEW u \in Threads \ {t} PROVE TicketAhead'[u] = TicketAhead[u] \ {t}
      BY <2>1, <2>2, <2>3, <3>2 DEF TicketAhead, Number
    <3>3. QED
      BY <3>1, <3>2
  <2>5. TicketAhead' = [u \in Threads |-> TicketAhead'[u]]
    BY DEF TicketAhead
  <2>6. QED
    BY <2>4, <2>5
<1>4. ASSUME TicketWait(t) PROVE TicketAhead[t] = {}
  <2>1. Place(ticket[t]) = 0 /\ \A u \in Threads : Place(ticket[u]) \in Number
    BY <1>0, <1>4, PlaceFacts DEF TicketWait
  <2>2. QED
    BY <2>1 DEF TicketAhead, Number
<1>5. QED
  BY <1>1, <1>2, <1>3, <1>4

-----------------------------------------------------------------------------
(* The MCS lock excludes, and hands the lock on in the order of the swaps.
   FifoInv is inductive: a thread is added after the last member, a link is
   made to a node that has none, and only the front leaves. *)

\* What Record does in a step that moves t alone.
LEMMA RecordMove ==
  ASSUME FifoType, NEW t \in Threads, NEW label, Move(t, label), Record
  PROVE  /\ at[t] = "swap" /\ label = "flag" =>
              ahead' = [ahead EXCEPT ![t] = {v \in Threads : Member(v)}]
         /\ ~(at[t] = "swap" /\ label = "flag") /\ ~(Holds(t) /\ label = "out") =>
              ahead' = ahead
         /\ Holds(t) /\ label = "out" =>
              ahead' = [u \in Threads |-> ahead[u] \ {t}]
  BY DEF FifoType, Move, Record, Leaving, Holds, Holding

\* The order of the members is strict.
LEMMA Strict ==
  ASSUME FifoType, Ordered, NEW t \in Threads, NEW u \in Threads, u \in ahead[t]
  PROVE  Member(t) /\ Member(u) /\ u # t /\ t \notin ahead[u]
  BY DEF FifoType, Ordered

\* Two members that follow the same one are the same.
LEMMA OneFollower ==
  ASSUME FifoType, Ordered, NEW t \in Threads, NEW u \in Threads, NEW v \in Threads,
         Member(t), Member(u), Follows(t, v), Follows(u, v)
  PROVE  t = u
  BY DEF FifoType, Ordered, Follows

\* A thread calls mcs_acquire, and clears its next pointer.
LEMMA InvOutside ==
  ASSUME FifoInv, NEW t \in Threads, McsAcquire(t) \/ McsClear(t), Record
  PROVE  FifoInv'
<1> USE NilAssumption
<1>1. ahead' = ahead
  BY RecordMove DEF McsAcquire, McsClear, FifoInv, FifoType, Holds, Holding
<1>2. QED
  BY <1>1 DEF McsAcquire, McsClear, FifoInv, FifoType, Ordered, LastIsL, Unlinked, Linked,
     AtFront, Follows, Move, Member, Holds, Queued, Holding

\* The swap puts a thread after the last member.
LEMMA InvSwap ==
  ASSUME FifoInv, NEW t \in Threads, McsSwap(t), Record
  PROVE  FifoInv'
<1> USE NilAssumption
<1>1. /\ at[t] = "swap" /\ at' = [at EXCEPT ![t] = "flag"]
      /\ pred' = [pred EXCEPT ![t] = L] /\ L' = t
      /\ UNCHANGED <<flag, next>>
      /\ ahead' = [ahead EXCEPT ![t] = {v \in Threads : Member(v)}]
  BY RecordMove DEF McsSwap, FifoInv, Move
<1>2. FifoType'
  BY <1>1 DEF FifoInv, FifoType
<1>3. /\ ~Member(t) /\ Member(t)' /\ ahead[t] = {}
      /\ \A u \in Threads \ {t} : /\ Member(u)' <=> Member(u)
                                  /\ ahead'[u] = ahead[u] /\ t \notin ahead[u]
      /\ ahead'[t] = {v \in Threads : Member(v)}
  BY <1>1 DEF FifoInv, FifoType, Ordered, Member, Queued, Holding
<1>4. Ordered'
  BY <1>2, <1>3 DEF FifoInv, FifoType, Ordered
<1>5. LastIsL'
  BY <1>1, <1>3 DEF LastIsL
<1>6. L # NIL => Member(L) /\ next[L] = NIL /\ ahead'[t] = ahead[L] \cup {L}
  <2>1. SUFFICES ASSUME L # NIL
                 PROVE  Member(L) /\ next[L] = NIL /\ ahead'[t] = ahead[L] \cup {L}
    OBVIOUS
  <2>2. L \in Threads /\ Member(L)
    BY <2>1 DEF FifoInv, FifoType, LastIsL
  <2>3. ahead'[t] = ahead[L] \cup {L}
    BY <1>3, <2>1, <2>2 DEF FifoInv, FifoType, LastIsL, Ordered
  <2>4. next[L] = NIL
    <3>1. SUFFICES ASSUME next[L] # NIL PROVE FALSE
      OBVIOUS
    <3>2. next[L] \in Threads /\ L \in ahead[next[L]] /\ Member(next[L]) /\ L # next[L]
      BY <2>2, <3>1, Strict DEF FifoInv, FifoType, Linked, Follows
    <3>3. next[L] \in ahead[L]
      BY <2>1, <3>2 DEF FifoInv, LastIsL
    <3>4. QED
      BY <2>2, <3>2, <3>3, Strict DEF FifoInv
  <2>5. QED
    BY <2>2, <2>3, <2>4
<1>7. Unlinked'
  <2> SUFFICES ASSUME NEW u \in Threads, at'[u] \in {"flag", "link"}
               PROVE  IF pred'[u] = NIL THEN at'[u] = "flag" /\ ahead'[u] = {}
                      ELSE Follows(u, pred[u])' /\ next'[pred'[u]] = NIL
    BY DEF Unlinked
  <2>1. CASE u = t /\ L = NIL
    BY <1>1, <1>3, <2>1 DEF FifoInv, FifoType, LastIsL
  <2>2. CASE u = t /\ L # NIL
    BY <1>1, <1>3, <1>6, <2>2 DEF FifoInv, FifoType, Follows
  <2>3. CASE u # t
    BY <1>1, <1>3, <2>3 DEF FifoInv, FifoType, Unlinked, Follows
  <2>4. QED
    BY <2>1, <2>2, <2>3
<1>8. Linked'
  <2> SUFFICES ASSUME NEW u \in Threads, Member(u)', next[u] # NIL
               PROVE  /\ at'[next[u]] = "spin" /\ flag[next[u]]
                      /\ Follows(next[u], u)'
    BY <1>1 DEF Linked
  <2>1. u # t
    BY <1>1 DEF FifoInv, AtFront
  <2>2. /\ next[u] \in Threads \ {t} /\ at[next[u]] = "spin" /\ flag[next[u]]
        /\ Follows(next[u], u)
    BY <1>1, <1>3, <2>1 DEF FifoInv, FifoType, Linked
  <2>3. QED
    BY <1>1, <1>3, <2>1, <2>2 DEF Follows, FifoInv, FifoType
<1>9. AtFront'
  BY <1>1, <1>3 DEF FifoInv, FifoType, AtFront, Holds, Holding
<1>10. QED
  BY <1>2, <1>4, <1>5, <1>7, <1>8, <1>9 DEF FifoInv

\* A thread that stays a member, and whose step touches no order, no link and
\* no last node, disturbs nothing but what the conjuncts say of it alone.
LEMMA InvInPlace ==
  ASSUME FifoInv, NEW t \in Threads, Record,
         McsFlag(t) \/ McsSpin(t) \/ McsRelease(t) \/ McsAwait(t)
  PROVE  FifoInv'
<1> USE NilAssumption
<1>1. PICK label \in {"link", "in", "detach", "pass"} :
        /\ Move(t, label) /\ at[t] \in {"flag", "spin", "in", "await"}
        /\ UNCHANGED <<L, next, pred>>
  BY DEF McsFlag, McsSpin, McsRelease, McsAwait
<1>2. /\ ahead' = ahead
      /\ \A u \in Threads : Member(u)' <=> Member(u)
  BY <1>1, RecordMove DEF FifoInv, FifoType, Move, Member, Queued, Holding
<1>3. FifoType'
  BY <1>1, <1>2 DEF McsFlag, McsSpin, McsRelease, McsAwait, FifoInv, FifoType, Move
<1>4. Ordered' /\ LastIsL'
  BY <1>1, <1>2 DEF FifoInv, FifoType, Ordered, LastIsL
<1>5. Unlinked'
  BY <1>1, <1>2 DEF McsFlag, McsSpin, McsRelease, McsAwait, FifoInv, FifoType, Unlinked,
     Follows, Move
<1>6. Linked'
  BY <1>1, <1>2 DEF McsFlag, McsSpin, McsRelease, McsAwait, FifoInv, FifoType, Linked,
     Follows, Move
<1>7. AtFront'
  BY <1>1, <1>2 DEF McsFlag, McsSpin, McsRelease, McsAwait, FifoInv, FifoType, AtFront,
     Unlinked, Holds, Holding, Move
<1>8. QED
  BY <1>3, <1>4, <1>5, <1>6, <1>7 DEF FifoInv

\* The link is made to the one node that t follows, which had none.
LEMMA InvLink ==
  ASSUME FifoInv, NEW t \in Threads, McsLink(t), Record
  PROVE  FifoInv'
<1> USE NilAssumption
<1>1. /\ at[t] = "link" /\ at' = [at EXCEPT ![t] = "spin"]
      /\ next' = [next EXCEPT ![pred[t]] = t]
      /\ UNCHANGED <<L, flag, pred>>
  BY DEF McsLink, Move
<1>2. /\ ahead' = ahead
      /\ \A u \in Threads : Member(u)' <=> Member(u)
  BY <1>1, RecordMove DEF McsLink, FifoInv, FifoType, Move, Member, Holds, Queued, Holding
<1>3. /\ pred[t] \in Threads /\ Follows(t, pred[t]) /\ Member(pred[t]) /\ pred[t] # t
      /\ Member(t) /\ flag[t]
  <2>1. pred[t] \in Threads /\ Follows(t, pred[t]) /\ flag[t]
    BY <1>1 DEF FifoInv, FifoType, Unlinked, AtFront
  <2>2. QED
    BY <2>1, Strict DEF Follows, FifoInv
<1>4. FifoType'
  BY <1>1, <1>2, <1>3 DEF FifoInv, FifoType
<1>5. Ordered' /\ LastIsL'
  BY <1>1, <1>2 DEF FifoInv, FifoType, Ordered, LastIsL
<1>6. Unlinked'
  <2> SUFFICES ASSUME NEW u \in Threads, at'[u] \in {"flag", "link"}
               PROVE  IF pred[u] = NIL THEN at'[u] = "flag" /\ ahead[u] = {}
                      ELSE Follows(u, pred[u]) /\ next'[pred[u]] = NIL
    BY <1>1, <1>2 DEF Unlinked, Follows
  <2>1. u # t /\ at[u] \in {"flag", "link"} /\ Member(u)
    BY <1>1 DEF FifoInv, FifoType, Member, Queued
  <2>2. pred[u] # NIL => pred[u] # pred[t]
    BY <1>3, <2>1, OneFollower DEF FifoInv, Unlinked
  <2>3. QED
    BY <1>1, <2>1, <2>2 DEF FifoInv, FifoType, Unlinked
<1>7. Linked'
  BY <1>1, <1>2, <1>3 DEF FifoInv, FifoType, Linked, Follows
<1>8. AtFront'
  BY <1>1, <1>2, <1>3 DEF FifoInv, FifoType, AtFront, Member, Holds, Queued, Holding
<1>9. QED
  BY <1>4, <1>5, <1>6, <1>7, <1>8 DEF FifoInv

\* The exchange of L succeeds only for the last member that is also the
\* first, and leaves nobody behind.
LEMMA InvDetach ==
  ASSUME FifoInv, NEW t \in Threads, McsDetach(t), Record
  PROVE  FifoInv'
<1> USE NilAssumption
<1>1. Member(t) /\ Holds(t) /\ ahead[t] = {} /\ at[t] = "detach"
  BY DEF McsDetach, FifoInv, AtFront, Member, Holds, Holding
<1>2. CASE L # t
  <2>1. /\ at' = [at EXCEPT ![t] = "await"] /\ ahead' = ahead
        /\ UNCHANGED <<L, flag, next, pred>>
    BY <1>2, RecordMove DEF McsDetach, FifoInv, Move
  <2>2. QED
    BY <1>1, <2>1 DEF FifoInv, FifoType, Ordered, LastIsL, Unlinked, Linked, AtFront, Follows,
       Member, Holds, Queued, Holding
<1>3. CASE L = t
  <2>1. /\ at' = [at EXCEPT ![t] = "out"] /\ L' = NIL
        /\ ahead' = [u \in Threads |-> ahead[u] \ {t}]
        /\ UNCHANGED <<flag, next, pred>>
    BY <1>1, <1>3, RecordMove DEF McsDetach, FifoInv, Move
  <2>2. \A u \in Threads : ~Member(u)' /\ ahead'[u] = {} /\ (u # t => ~Member(u))
    BY <1>1, <1>3, <2>1 DEF FifoInv, FifoType, LastIsL, Ordered, Member, Queued, Holding
  <2>3. \A u \in Threads : at'[u] \in {"out", "clear", "swap"}
    BY <2>1, <2>2 DEF FifoInv, FifoType, Member, Queued, Holding
  <2>4. QED
    BY <2>1, <2>2, <2>3 DEF FifoInv, FifoType, Ordered, LastIsL, Unlinked, Linked, AtFront,
       Holds, Holding
<1>4. QED
  BY <1>2, <1>3

\* The front leaves, and the next member, which it has cleared the flag of,
\* is the front now.
LEMMA InvPass ==
  ASSUME FifoInv, NEW t \in Threads, McsPass(t), Record
  PROVE  FifoInv'
<1> USE NilAssumption
<1> DEFINE s == next[t]
<1>1. Member(t) /\ Holds(t) /\ ahead[t] = {} /\ at[t] = "pass"
  BY DEF McsPass, FifoInv, AtFront, Member, Holds, Holding
<1>2. /\ at' = [at EXCEPT ![t] = "out"] /\ flag' = [flag EXCEPT ![s] = FALSE]
      /\ ahead' = [u \in Threads |-> ahead[u] \ {t}]
      /\ UNCHANGED <<L, next, pred>>
  BY <1>1, RecordMove DEF McsPass, FifoInv, Move
<1>3. /\ s \in Threads /\ s # t /\ Member(s) /\ at[s] = "spin" /\ ahead[s] = {t}
  BY <1>1 DEF FifoInv, FifoType, AtFront, Linked, Follows, Member, Queued
<1>4. /\ ~Member(t)' /\ ahead'[t] = {} /\ ahead'[s] = {}
      /\ \A u \in Threads \ {t} : (Member(u)' <=> Member(u)) /\ at'[u] = at[u]
  BY <1>1, <1>2, <1>3 DEF FifoInv, FifoType, Member, Queued, Holding
<1>5. FifoType'
  BY <1>2 DEF FifoInv, FifoType
<1>6. Ordered'
  <2>1. \A u \in Threads : ~Member(u)' => ahead'[u] = {}
    BY <1>2, <1>4 DEF FifoInv, FifoType, Ordered
  <2>2. \A u \in Threads : Member(u)' =>
          \A v \in ahead'[u] : Member(v)' /\ ahead'[v] \subseteq ahead'[u]
    BY <1>2, <1>4 DEF FifoInv, FifoType, Ordered
  <2>3. \A u, v \in Threads : Member(u)' /\ Member(v)' =>
          (u \in ahead'[v] <=> u # v /\ v \notin ahead'[u])
    BY <1>2, <1>4 DEF FifoInv, FifoType, Ordered
  <2>4. QED
    BY <2>1, <2>2, <2>3 DEF Ordered
<1>7. L # t
  BY <1>1, <1>3 DEF FifoInv, LastIsL
<1>8. LastIsL'
  BY <1>2, <1>3, <1>4, <1>7 DEF FifoInv, FifoType, LastIsL
<1>9. Unlinked'
  <2> SUFFICES ASSUME NEW u \in Threads, at'[u] \in {"flag", "link"}
               PROVE  IF pred[u] = NIL THEN at'[u] = "flag" /\ ahead'[u] = {}
                      ELSE Follows(u, pred[u])' /\ next[pred[u]] = NIL
    BY <1>2 DEF Unlinked
  <2>1. u # t /\ at[u] \in {"flag", "link"}
    BY <1>2 DEF FifoInv, FifoType
  <2>2. pred[u] # t
    BY <1>1, <2>1 DEF FifoInv, Unlinked, AtFront
  <2>3. QED
    BY <1>2, <1>4, <2>1, <2>2 DEF FifoInv, FifoType, Unlinked, Follows
<1>10. Linked'
  <2> SUFFICES ASSUME NEW u \in Threads, Member(u)', next[u] # NIL
               PROVE  at'[next[u]] = "spin" /\ flag'[next[u]] /\ Follows(next[u], u)'
    BY <1>2 DEF Linked
  <2>1. u # t /\ Member(u)
    BY <1>4
  <2>2. next[u] \in Threads /\ at[next[u]] = "spin" /\ flag[next[u]] /\ Follows(next[u], u)
    BY <2>1 DEF FifoInv, FifoType, Linked
  <2>3. next[u] # s /\ next[u] # t
    BY <1>1, <1>3, <2>1, <2>2 DEF Follows
  <2>4. QED
    BY <1>2, <1>4, <2>1, <2>2, <2>3 DEF FifoInv, FifoType, Follows
<1>11. AtFront'
  BY <1>2, <1>3, <1>4 DEF FifoInv, FifoType, AtFront, Holds, Holding
<1>12. QED
  BY <1>5, <1>6, <1>8, <1>9, <1>10, <1>11 DEF FifoInv

-----------------------------------------------------------------------------

\* Every step of the MCS lock keeps its invariant.
LEMMA FifoInvNext == FifoInv /\ [FifoNext]_fifoVars => FifoInv'
<1> SUFFICES ASSUME FifoInv, [FifoNext]_fifoVars PROVE FifoInv'
  OBVIOUS
<1>1. CASE UNCHANGED fifoVars
  BY <1>1 DEF fifoVars, mcsVars, FifoInv, FifoType, Ordered, LastIsL, Unlinked, Linked, AtFront,
     Follows, Member, Holds
<1>2. CASE FifoNext
  BY <1>2, InvOutside, InvSwap, InvInPlace, InvLink, InvDetach, InvPass
     DEF FifoNext, McsNext, McsStep
<1>3. QED
  BY <1>1, <1>2

\* At most one thread is at the front.
LEMMA FifoInvExcludes == FifoInv => MutualExclusion
  BY DEF FifoInv, Ordered, AtFront, MutualExclusion, Member, Holds

\* The queue of the MCS lock is in one piece in every state: the members are
\* totally ordered, L is the last, links lead from one to the next.
THEOREM FifoInvariance == FifoSpec => []FifoInv
<1>1. FifoInit => FifoInv
  BY NilAssumption
     DEF FifoInit, McsInit, ClientsInit, FifoInv, FifoType, Ordered, LastIsL, Unlinked, Linked,
     AtFront, Member, Holds, Queued, Holding
<1>2. QED
  BY <1>1, FifoInvNext, PTL DEF FifoSpec

\* No two threads are between mcs_acquire and the end of mcs_release.
THEOREM McsExcludes == FifoSpec => []MutualExclusion
  BY FifoInvariance, FifoInvExcludes, PTL

-----------------------------------------------------------------------------

\* What the steps of the MCS lock do to the order of the queue: a swap adds
\* its thread last, the front leaves, and who goes in is at the front.
LEMMA McsOrder ==
  ASSUME FifoInv, NEW t \in Threads, Record
  PROVE  /\ (\/ McsAcquire(t) \/ McsClear(t) \/ McsFlag(t) \/ McsLink(t) \/ McsSpin(t)
             \/ McsRelease(t) \/ McsAwait(t) \/ (McsDetach(t) /\ L # t))
              => ahead' = ahead
         /\ McsSwap(t) => ahead' = [ahead EXCEPT ![t] = {u \in Threads : Member(u)}]
         /\ McsPass(t) \/ (McsDetach(t) /\ L = t) =>
              ahead' = [u \in Threads |-> ahead[u] \ {t}]
         /\ McsSpin(t) \/ (McsFlag(t) /\ pred[t] = NIL) => ahead[t] = {}
<1> USE NilAssumption
<1>1. ASSUME \/ McsAcquire(t) \/ McsClear(t) \/ McsFlag(t) \/ McsLink(t) \/ McsSpin(t)
             \/ McsRelease(t) \/ McsAwait(t) \/ (McsDetach(t) /\ L # t)
      PROVE  ahead' = ahead
  <2>1. PICK label \in {"clear", "swap", "in", "link", "spin", "detach", "pass", "await"} :
          Move(t, label)
    BY <1>1 DEF McsAcquire, McsClear, McsFlag, McsLink, McsSpin, McsRelease, McsAwait, McsDetach
  <2>2. QED
    BY <2>1, RecordMove DEF FifoInv
<1>2. ASSUME McsSwap(t) PROVE ahead' = [ahead EXCEPT ![t] = {u \in Threads : Member(u)}]
  BY <1>2, RecordMove DEF McsSwap, FifoInv
<1>3. ASSUME McsPass(t) \/ (McsDetach(t) /\ L = t)
      PROVE  ahead' = [u \in Threads |-> ahead[u] \ {t}]
  BY <1>3, RecordMove DEF McsPass, McsDetach, FifoInv, Holds, Holding
<1>4. ASSUME McsSpin(t) \/ (McsFlag(t) /\ pred[t] = NIL) PROVE ahead[t] = {}
  BY <1>4 DEF McsSpin, McsFlag, FifoInv, AtFront, Unlinked
<1>5. QED
  BY <1>1, <1>2, <1>3, <1>4
-----------------------------------------------------------------------------
(* The test-and-set lock: TasInv is inductive as it stands, because the word
   tells whether there is a holder and an exchange that found 0 is the only
   way in. *)

\* A thread acquires, tries, looks or releases: what each step leaves of
\* TasInv is all of it.
LEMMA TasInvNext == TasInv /\ [TasNext]_tasVars => TasInv'
<1> SUFFICES ASSUME TasInv, [TasNext]_tasVars PROVE TasInv'
  OBVIOUS
<1> USE DEF TasInv, MutualExclusion, Holds, Holding, Move
<1>1. ASSUME NEW t \in Threads, TasCall(t) PROVE TasInv'
  BY <1>1 DEF TasCall, TasAcquire, TatasAcquire
<1>2. ASSUME NEW t \in Threads, Tas(t) PROVE TasInv'
  <2>1. CASE Found(0) /\ Move(t, "in")
    BY <1>2, <2>1 DEF Found, Tas
  <2>2. CASE Found(1) /\ Move(t, IF at[t] = "tatas" THEN "look" ELSE "tas")
    BY <1>2, <2>2 DEF Found, Tas
  <2>3. QED
    BY <1>2, <2>1, <2>2 DEF Tas
<1>3. ASSUME NEW t \in Threads, Look(t) PROVE TasInv'
  BY <1>3 DEF Look
<1>4. ASSUME NEW t \in Threads, TasRelease(t) PROVE TasInv'
  BY <1>4 DEF TasRelease
<1>5. CASE UNCHANGED tasVars
  BY <1>5 DEF tasVars
<1>6. QED
  BY <1>1, <1>2, <1>3, <1>4, <1>5 DEF TasNext, TasStep

\* The word is 1 exactly while some thread holds the lock.
THEOREM TasInvariance == TasSpec => []TasInv
<1>1. TasInit => TasInv
  BY DEF TasInit, ClientsInit, TasInv, MutualExclusion, Holds, Holding
<1>2. QED
  BY <1>1, TasInvNext, PTL DEF TasSpec

\* No two threads are between tas_acquire or tatas_acquire and tas_release.
THEOREM TasExcludes == TasSpec => []MutualExclusion
<1>1. TasInv => MutualExclusion
  BY DEF TasInv
<1>2. QED
  BY <1>1, TasInvariance, PTL

-----------------------------------------------------------------------------
(* The three kinds together *)

\* The kind of the lock and the invariant of that kind.
KindInv == kind \in {"tas", "ticket", "mcs"} /\ LockInv

\* A step of the program is a step of the kind of lock it uses.
LEMMA StepOfKind ==
  ASSUME Next
  PROVE  /\ kind' = kind
         /\ \/ kind = "tas" /\ TasNext
            \/ kind = "ticket" /\ TicketNext
            \/ kind = "mcs" /\ FifoNext
  BY DEF Next, Call, Step, TasOnly, TicketOnly, McsOnly, TasNext, TicketNext, McsNext, FifoNext

\* The invariant of the kind in use is kept by every step.
LEMMA KindInvNext == KindInv /\ [Next]_lockVars => KindInv'
<1> SUFFICES ASSUME KindInv, [Next]_lockVars PROVE KindInv'
  OBVIOUS
<1>1. CASE Next
  <2>1. CASE kind = "tas" /\ TasNext
    BY <1>1, <2>1, StepOfKind, TasInvNext DEF KindInv, LockInv
  <2>2. CASE kind = "ticket" /\ TicketNext
    BY <1>1, <2>2, StepOfKind, TicketInvNext DEF KindInv, LockInv
  <2>3. CASE kind = "mcs" /\ FifoNext
    BY <1>1, <2>3, StepOfKind, FifoInvNext DEF KindInv, LockInv
  <2>4. QED
    BY <1>1, <2>1, <2>2, <2>3, StepOfKind
<1>2. CASE UNCHANGED lockVars
  <2>1. UNCHANGED <<tasVars, ticketVars, fifoVars, kind>>
    BY <1>2 DEF lockVars, tasVars, ticketVars, fifoVars, mcsVars, dispenser
  <2>2. QED
    BY <2>1, TasInvNext, TicketInvNext, FifoInvNext DEF KindInv, LockInv
<1>3. QED
  BY <1>1, <1>2

\* Whichever lock is used, at most one thread holds it.
LEMMA KindInvExcludes == KindInv => MutualExclusion
  BY TicketInvExcludes, FifoInvExcludes DEF KindInv, LockInv, TasInv

\* The initial states satisfy the invariant.
LEMMA KindInvInit == Init => KindInv
<1> SUFFICES ASSUME Init PROVE KindInv
  OBVIOUS
<1>1. kind = "tas" => TasInv
  BY DEF Init, TasInit, ClientsInit, TasInv, MutualExclusion, Holds, Holding
<1>2. kind = "ticket" => TicketInv
  BY ManyNumbers
     DEF Init, TicketInit, ClientsInit, TicketInv, Member, Holds, Queued, Holding, Place, Number
<1>3. kind = "mcs" => FifoInv
  BY NilAssumption
     DEF Init, FifoInit, McsInit, ClientsInit, FifoInv, FifoType, Ordered, LastIsL, Unlinked,
     Linked, AtFront, Member, Holds, Queued, Holding
<1>4. QED
  BY <1>1, <1>2, <1>3 DEF Init, KindInv, LockInv

\* The inductive invariant of the lock in use holds in every state.
THEOREM KindInvariance == Spec => []KindInv
  BY KindInvInit, KindInvNext, PTL DEF Spec

\* The invariant that the run checks.
THEOREM LockInvariance == Spec => []LockInv
<1>1. KindInv => LockInv
  BY DEF KindInv
<1>2. QED
  BY <1>1, KindInvariance, PTL

\* Mutual exclusion, for all locks and any number of threads.
THEOREM Exclusion == Spec => []MutualExclusion
  BY KindInvExcludes, KindInvariance, PTL

-----------------------------------------------------------------------------
(* Every lock implements Mutex *)

\* What a label says of a thread's phase.
Class(label) ==
  IF label \in Holding THEN "in"
  ELSE IF label \in Trying \cup Queued THEN "trying" ELSE "out"

\* The phases that one move of a thread may lead from and to.
Turns ==
  {<<"out", "trying">>, <<"trying", "in">>, <<"in", "out">>,
   <<"out", "out">>, <<"trying", "trying">>, <<"in", "in">>}

\* A thread that moves in one of these ways makes a step of the mutex, or
\* none, if nobody else holds the lock afterwards.
LEMMA MoveOfMutex ==
  ASSUME NEW t \in Threads, NEW label, Move(t, label), DOMAIN at = Threads,
         at = [u \in Threads |-> at[u]], MutualExclusion',
         <<Class(at[t]), Class(label)>> \in Turns
  PROVE  [M!Next]_([u \in Threads |-> MutexPhase(u)])
<1> DEFINE ph == [u \in Threads |-> MutexPhase(u)]
<1>1. \A u \in Threads : ph[u] = Class(at[u]) /\ ph'[u] = Class(at'[u])
  BY DEF MutexPhase, Class, Holds, Waiting
<1>2. at' = [at EXCEPT ![t] = label]
  BY DEF Move
<1>3. ph' = [ph EXCEPT ![t] = Class(label)]
  BY <1>1, <1>2
<1>4. CASE Class(at[t]) = Class(label)
  <2>1. \A u \in Threads : Class(at'[u]) = Class(at[u])
    BY <1>2, <1>4
  <2>2. \A u \in Threads : MutexPhase(u)' = MutexPhase(u)
    BY <2>1 DEF MutexPhase, Class, Holds, Waiting
  <2>3. QED
    BY <2>2
<1>5. CASE Class(at[t]) = "out" /\ Class(label) = "trying"
  BY <1>1, <1>3, <1>5 DEF M!Next, M!Request
<1>6. CASE Class(at[t]) = "trying" /\ Class(label) = "in"
  <2>1. \A u \in Threads : ph[u] # "in"
    <3> SUFFICES ASSUME NEW u \in Threads, ph[u] = "in" PROVE FALSE
      OBVIOUS
    <3>1. u # t
      BY <1>1, <1>6
    <3>2. at'[u] \in Holding /\ at'[t] \in Holding
      BY <1>1, <1>2, <1>6, <3>1 DEF Class
    <3>3. QED
      BY <3>1, <3>2 DEF MutualExclusion, Holds
  <2>2. QED
    BY <1>1, <1>3, <1>6, <2>1 DEF M!Next, M!Enter
<1>7. CASE Class(at[t]) = "in" /\ Class(label) = "out"
  BY <1>1, <1>3, <1>7 DEF M!Next, M!Leave
<1>8. QED
  BY <1>4, <1>5, <1>6, <1>7 DEF Turns

\* The steps of the three kinds are such moves.
LEMMA MovesOfKinds ==
  ASSUME KindInv, Next
  PROVE  \/ UNCHANGED at
         \/ \E t \in Threads, label \in Trying \cup Queued \cup Holding \cup {"out"} :
              Move(t, label) /\ <<Class(at[t]), Class(label)>> \in Turns
<1> USE DEF Class, Turns, Trying, Queued, Holding
<1>1. CASE kind = "tas" /\ TasNext
  BY <1>1 DEF TasNext, TasCall, TasStep, TasAcquire, TatasAcquire, Tas, Look, TasRelease
<1>2. CASE kind = "ticket" /\ TicketNext
  BY <1>2 DEF TicketNext, TicketStep, TicketAcquire, FaiLoad, FaiCas, TicketWait,
     TicketRelease, Serve
<1>3. CASE kind = "mcs" /\ FifoNext
  <2>1. McsNext
    BY <1>3 DEF FifoNext
  <2>2. PICK t \in Threads : McsAcquire(t) \/ McsStep(t)
    BY <2>1 DEF McsNext
  <2>3. CASE McsAcquire(t) \/ McsClear(t) \/ McsSwap(t) \/ McsFlag(t) \/ McsLink(t)
    BY <2>3 DEF McsAcquire, McsClear, McsSwap, McsFlag, McsLink
  <2>4. CASE McsSpin(t) \/ McsRelease(t) \/ McsDetach(t) \/ McsAwait(t) \/ McsPass(t)
    BY <2>4 DEF McsSpin, McsRelease, McsDetach, McsAwait, McsPass
  <2>5. QED
    BY <2>2, <2>3, <2>4 DEF McsStep
<1>4. QED
  BY <1>1, <1>2, <1>3, StepOfKind DEF KindInv

\* Whatever the lock, the program behaves as one with an abstract mutex.
THEOREM ImplementsMutex == Spec => IsMutex
<1>1. Init => M!Init
  BY DEF Init, TasInit, ClientsInit, M!Init, MutexPhase, Holds, Waiting, Holding, Trying, Queued
<1>2. KindInv /\ MutualExclusion' /\ [Next]_lockVars
        => [M!Next]_([t \in Threads |-> MutexPhase(t)])
  <2> SUFFICES ASSUME KindInv, MutualExclusion', [Next]_lockVars
               PROVE  [M!Next]_([t \in Threads |-> MutexPhase(t)])
    OBVIOUS
  <2>1. at = [u \in Threads |-> at[u]] /\ DOMAIN at = Threads
    BY DEF KindInv, LockInv, TasInv, TicketInv, FifoInv, FifoType
  <2>3. CASE UNCHANGED at
    BY <2>3 DEF MutexPhase, Holds, Waiting
  <2>4. CASE UNCHANGED lockVars
    BY <2>4, <2>3 DEF lockVars, fifoVars, mcsVars
  <2>5. CASE Next
    BY <2>1, <2>3, <2>5, MovesOfKinds, MoveOfMutex
  <2>6. QED
    BY <2>4, <2>5
<1>3. QED
  BY <1>1, <1>2, KindInvariance, Exclusion, PTL DEF Spec, IsMutex, M!Spec

-----------------------------------------------------------------------------
(* The ticket and the MCS lock implement FairMutex *)

\* What a label says of a thread's phase in the queue.
QueueClass(label) ==
  IF label = "out" THEN "out" ELSE IF label \in Trying THEN "trying"
  ELSE IF label \in Queued THEN "queued" ELSE "in"

Phases == [u \in Threads |-> QueuePhase(u)]

\* A step that changes neither phases nor order is no step of the queue.
LEMMA StillOfFair ==
  ASSUME UNCHANGED <<Phases, QueueAhead>>
  PROVE  [F!Next]_<<Phases, QueueAhead>>
  OBVIOUS

\* A thread that moves on in the queue, with the order changed accordingly,
\* makes a step of the fair mutex, or none.
LEMMA MoveOfFair ==
  ASSUME NEW t \in Threads, NEW label, Move(t, label), DOMAIN at = Threads,
         at = [u \in Threads |-> at[u]], kind # "tas", kind' = kind,
         \/ QueueClass(at[t]) = QueueClass(label) /\ QueueAhead' = QueueAhead
         \/ /\ QueueClass(at[t]) = "out" /\ QueueClass(label) = "trying"
            /\ QueueAhead' = QueueAhead
         \/ /\ QueueClass(at[t]) = "trying" /\ QueueClass(label) = "queued"
            /\ QueueAhead' = [QueueAhead EXCEPT ![t] =
                                {u \in Threads : Phases[u] \in {"queued", "in"}}]
         \/ /\ QueueClass(at[t]) = "queued" /\ QueueClass(label) = "in"
            /\ QueueAhead[t] = {} /\ QueueAhead' = QueueAhead
         \/ /\ QueueClass(at[t]) = "in" /\ QueueClass(label) = "out"
            /\ QueueAhead' = [u \in Threads |-> QueueAhead[u] \ {t}]
  PROVE  [F!Next]_<<Phases, QueueAhead>>
<1>1. \A u \in Threads : Phases[u] = QueueClass(at[u]) /\ Phases'[u] = QueueClass(at'[u])
  BY DEF Phases, QueuePhase, QueueClass
<1>2. at' = [at EXCEPT ![t] = label]
  BY DEF Move
<1>3. /\ Phases = [u \in Threads |-> Phases[u]]
      /\ Phases' = [u \in Threads |-> Phases'[u]]
  BY DEF Phases
<1>4. Phases' = [Phases EXCEPT ![t] = QueueClass(label)]
  BY <1>1, <1>2, <1>3
<1>5. Phases = [u \in Threads |-> QueuePhase(u)]
  BY DEF Phases
<1>6. CASE QueueClass(at[t]) = QueueClass(label) /\ QueueAhead' = QueueAhead
  <2>1. Phases' = Phases
    BY <1>1, <1>3, <1>4, <1>6
  <2>2. QED
    BY <1>6, <2>1
<1> HIDE DEF Phases
<1>7. CASE /\ QueueClass(at[t]) = "out" /\ QueueClass(label) = "trying"
           /\ QueueAhead' = QueueAhead
  BY <1>1, <1>4, <1>5, <1>7 DEF F!Next, F!Request, F!Turn, Phases
<1>8. CASE /\ QueueClass(at[t]) = "trying" /\ QueueClass(label) = "queued"
           /\ QueueAhead' = [QueueAhead EXCEPT ![t] =
                               {u \in Threads : Phases[u] \in {"queued", "in"}}]
  BY <1>1, <1>4, <1>5, <1>8 DEF F!Next, F!Join, F!Turn, Phases
<1>9. CASE /\ QueueClass(at[t]) = "queued" /\ QueueClass(label) = "in"
           /\ QueueAhead[t] = {} /\ QueueAhead' = QueueAhead
  BY <1>1, <1>4, <1>5, <1>9 DEF F!Next, F!Enter, F!Turn, Phases
<1>10. CASE /\ QueueClass(at[t]) = "in" /\ QueueClass(label) = "out"
            /\ QueueAhead' = [u \in Threads |-> QueueAhead[u] \ {t}]
  BY <1>1, <1>4, <1>5, <1>10 DEF F!Next, F!Leave, F!Turn, Phases
<1>11. QED
  BY <1>6, <1>7, <1>8, <1>9, <1>10


\* The queue as the locks see it.
LEMMA PhasesOfMembers ==
  ASSUME kind # "tas", at \in [Threads -> Trying \cup Queued \cup Holding \cup {"out"}]
  PROVE  {u \in Threads : Phases[u] \in {"queued", "in"}} = {u \in Threads : Member(u)}
<1>1. \A u \in Threads : Phases[u] \in {"queued", "in"} <=> Member(u)
  BY DEF Phases, QueuePhase, Member, Trying, Queued, Holding
<1>2. QED
  BY <1>1

\* Each step of the ticket lock is one of the fair mutex, or none.
LEMMA TicketIsFair ==
  ASSUME kind = "ticket", kind' = kind, TicketInv, TicketNext
  PROVE  [F!Next]_<<Phases, QueueAhead>>
<1>1. PICK t \in Threads : TicketAcquire(t) \/ TicketStep(t)
  BY DEF TicketNext
<1>2. /\ at = [u \in Threads |-> at[u]] /\ DOMAIN at = Threads
      /\ at \in [Threads -> Trying \cup Queued \cup Holding \cup {"out"}]
  BY DEF TicketInv, Trying, Queued, Holding
<1>3. /\ QueueAhead = TicketAhead /\ QueueAhead' = TicketAhead'
      /\ {u \in Threads : Phases[u] \in {"queued", "in"}} = {u \in Threads : Member(u)}
  BY <1>2, PhasesOfMembers DEF QueueAhead
<1> USE DEF QueueClass, Trying, Queued
<1>4. CASE TicketAcquire(t)
  BY <1>2, <1>3, <1>4, TicketOrder, MoveOfFair DEF TicketAcquire
<1>5. CASE FaiLoad(t)
  BY <1>2, <1>3, <1>5, TicketOrder, MoveOfFair DEF FaiLoad
<1>6. CASE FaiCas(t) /\ ticket[t] = next_ticket
  <2>1. /\ QueueClass(at[t]) = "trying" /\ QueueClass("wait") = "queued" /\ Move(t, "wait")
    BY <1>6 DEF FaiCas
  <2>2. QueueAhead' = [QueueAhead EXCEPT ![t] =
                         {u \in Threads : Phases[u] \in {"queued", "in"}}]
    BY <1>3, <1>6, TicketOrder
  <2>3. QED
    BY <1>2, <2>1, <2>2, MoveOfFair
<1>7. CASE FaiCas(t) /\ ticket[t] # next_ticket
  <2>1. at' = at /\ QueueAhead' = QueueAhead
    BY <1>3, <1>7, TicketOrder DEF FaiCas
  <2>2. QED
    BY <2>1, StillOfFair DEF Phases, QueuePhase
<1>8. CASE TicketWait(t)
  <2>1. /\ QueueClass(at[t]) = "queued" /\ QueueClass("in") = "in" /\ Move(t, "in")
    BY <1>8 DEF TicketWait
  <2>2. QueueAhead[t] = {} /\ QueueAhead' = QueueAhead
    BY <1>3, <1>8, TicketOrder
  <2>3. QED
    BY <1>2, <2>1, <2>2, MoveOfFair
<1>9. CASE TicketRelease(t)
  BY <1>2, <1>3, <1>9, TicketOrder, MoveOfFair DEF TicketRelease
<1>10. CASE Serve(t)
  <2>1. /\ QueueClass(at[t]) = "in" /\ QueueClass("out") = "out" /\ Move(t, "out")
    BY <1>10 DEF Serve
  <2>2. QueueAhead' = [u \in Threads |-> QueueAhead[u] \ {t}]
    BY <1>3, <1>10, TicketOrder
  <2>3. QED
    BY <1>2, <2>1, <2>2, MoveOfFair
<1>11. QED
  BY <1>1, <1>4, <1>5, <1>6, <1>7, <1>8, <1>9, <1>10 DEF TicketStep, FaiCas

\* Each step of the MCS lock is one of the fair mutex, or none.
LEMMA McsIsFair ==
  ASSUME kind = "mcs", kind' = kind, FifoInv, FifoNext
  PROVE  [F!Next]_<<Phases, QueueAhead>>
<1>0. Record
  BY DEF FifoNext
<1>1. PICK t \in Threads : McsAcquire(t) \/ McsStep(t)
  BY DEF FifoNext, McsNext
<1>2. /\ at = [u \in Threads |-> at[u]] /\ DOMAIN at = Threads
      /\ at \in [Threads -> Trying \cup Queued \cup Holding \cup {"out"}]
  BY DEF FifoInv, FifoType, Trying, Queued, Holding
<1>3. /\ QueueAhead = ahead /\ QueueAhead' = ahead'
      /\ {u \in Threads : Phases[u] \in {"queued", "in"}} = {u \in Threads : Member(u)}
  BY <1>2, PhasesOfMembers DEF QueueAhead
<1> USE DEF QueueClass, Trying, Queued
\* within a phase, and the call
<1>4. CASE \/ McsAcquire(t) \/ McsClear(t) \/ McsLink(t) \/ McsRelease(t) \/ McsAwait(t)
           \/ (McsFlag(t) /\ pred[t] # NIL) \/ (McsDetach(t) /\ L # t)
  <2>1. QueueAhead' = QueueAhead
    BY <1>0, <1>3, <1>4, McsOrder
  <2>2. PICK label : /\ Move(t, label)
                     /\ \/ QueueClass(at[t]) = QueueClass(label)
                        \/ QueueClass(at[t]) = "out" /\ QueueClass(label) = "trying"
    <3>1. CASE McsAcquire(t) \/ McsClear(t) \/ McsLink(t)
      BY <3>1 DEF McsAcquire, McsClear, McsLink
    <3>2. CASE McsRelease(t) \/ McsAwait(t)
      BY <3>2 DEF McsRelease, McsAwait
    <3>3. CASE (McsFlag(t) /\ pred[t] # NIL) \/ (McsDetach(t) /\ L # t)
      BY <3>3 DEF McsFlag, McsDetach
    <3>4. QED
      BY <1>4, <3>1, <3>2, <3>3
  <2>3. QED
    BY <1>2, <2>1, <2>2, MoveOfFair
<1>5. CASE McsSwap(t)
  <2>1. /\ QueueClass(at[t]) = "trying" /\ QueueClass("flag") = "queued" /\ Move(t, "flag")
    BY <1>5 DEF McsSwap
  <2>2. QueueAhead' = [QueueAhead EXCEPT ![t] =
                         {u \in Threads : Phases[u] \in {"queued", "in"}}]
    BY <1>0, <1>3, <1>5, McsOrder
  <2>3. QED
    BY <1>2, <2>1, <2>2, MoveOfFair
<1>6. CASE McsSpin(t) \/ (McsFlag(t) /\ pred[t] = NIL)
  <2>1. /\ QueueClass(at[t]) = "queued" /\ QueueClass("in") = "in" /\ Move(t, "in")
    BY <1>6 DEF McsSpin, McsFlag
  <2>2. QueueAhead[t] = {} /\ QueueAhead' = QueueAhead
    BY <1>0, <1>3, <1>6, McsOrder
  <2>3. QED
    BY <1>2, <2>1, <2>2, MoveOfFair
<1>7. CASE McsPass(t) \/ (McsDetach(t) /\ L = t)
  <2>1. /\ QueueClass(at[t]) = "in" /\ QueueClass("out") = "out" /\ Move(t, "out")
    BY <1>7 DEF McsPass, McsDetach
  <2>2. QueueAhead' = [u \in Threads |-> QueueAhead[u] \ {t}]
    BY <1>0, <1>3, <1>7, McsOrder
  <2>3. QED
    BY <1>2, <2>1, <2>2, MoveOfFair
<1>8. QED
  BY <1>1, <1>4, <1>5, <1>6, <1>7 DEF McsStep

\* The ticket and the MCS lock behave as the fair mutex: first come, first
\* served.
THEOREM ImplementsFair == Spec => IsFair
<1>1. Init => F!Init
  <2> SUFFICES ASSUME Init PROVE F!Init
    OBVIOUS
  <2>1. \A t \in Threads : QueuePhase(t) = "out" /\ ~Member(t)
    BY DEF Init, TasInit, ClientsInit, QueuePhase, Member, Queued, Holding
  <2>2. QueueAhead = [t \in Threads |-> {}]
    BY <2>1 DEF Init, FifoInit, QueueAhead, TicketAhead
  <2>3. QED
    BY <2>1, <2>2 DEF F!Init
<1>2. KindInv /\ [Next]_lockVars
        => [F!Next]_<<[t \in Threads |-> QueuePhase(t)], QueueAhead>>
  <2> SUFFICES ASSUME KindInv, [Next]_lockVars PROVE [F!Next]_<<Phases, QueueAhead>>
    BY DEF Phases
  <2>1. CASE UNCHANGED lockVars
    <3>1. UNCHANGED <<at, kind, ticket, now_serving, ahead>>
      BY <2>1 DEF lockVars, fifoVars, mcsVars, dispenser
    <3>2. TicketAhead' = TicketAhead
      BY <3>1 DEF TicketAhead, Place, Member
    <3>3. QED
      BY <3>1, <3>2, StillOfFair DEF Phases, QueuePhase, QueueAhead
  <2>2. CASE Next /\ kind = "tas"
    BY <2>2, StepOfKind, StillOfFair DEF Phases, QueuePhase, QueueAhead
  <2>3. CASE Next /\ kind = "ticket"
    BY <2>3, StepOfKind, TicketIsFair DEF KindInv, LockInv
  <2>4. CASE Next /\ kind = "mcs"
    BY <2>4, StepOfKind, McsIsFair DEF KindInv, LockInv
  <2>5. QED
    BY <2>1, <2>2, <2>3, <2>4 DEF KindInv
<1>3. QED
  BY <1>1, <1>2, KindInvariance, PTL DEF Spec, IsFair, F!Spec, F!fvars
=============================================================================
