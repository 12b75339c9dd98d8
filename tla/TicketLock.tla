------------------------------ MODULE TicketLock ------------------------------
(***************************************************************************)
(* The ticket lock.  ticket_acquire draws a number from next_ticket with   *)
(* fai, a loop around a compare-and-swap, and waits until now_serving      *)
(* shows it.  Both counters are unsigned longs that wrap at W.             *)
(***************************************************************************)
EXTENDS LockClients, Integers, FiniteSets

CONSTANT W          \* 2 to the power of the width of an unsigned long

ASSUME WAssumption ==
  /\ IsFiniteSet(Threads)
  /\ W \in Nat
  /\ Cardinality(Threads) < W

VARIABLES
  next_ticket, now_serving,
  ticket,           \* fai's expected value, then my_ticket
  served            \* now_serving as loaded by ticket_release

ticketVars == <<at, next_ticket, now_serving, ticket, served>>
dispenser  == <<next_ticket, now_serving>>

Number == 0 .. W - 1

\* x + 1 in an unsigned long.
Inc(x) == IF x = W - 1 THEN 0 ELSE x + 1

TicketAcquire(t) ==
  /\ at[t] = "out"
  /\ Move(t, "load")
  /\ UNCHANGED <<dispenser, ticket, served>>

\* found = *ptr
FaiLoad(t) ==
  /\ at[t] = "load"
  /\ ticket' = [ticket EXCEPT ![t] = next_ticket]
  /\ Move(t, "cas")
  /\ UNCHANGED <<dispenser, served>>

\* Mutant of FaiCas: the number is taken without comparing.
FaiBlind(t) ==
  /\ at[t] = "cas"
  /\ next_ticket' = Inc(next_ticket)
  /\ Move(t, "wait")
  /\ UNCHANGED <<now_serving, ticket, served>>

\* The compare-and-swap of fai takes the number, or reports the new one.
FaiCas(t) ==
  /\ at[t] = "cas"
  /\ \/ /\ ticket[t] = next_ticket
        /\ next_ticket' = Inc(next_ticket)
        /\ Move(t, "wait")
        /\ UNCHANGED ticket
     \/ /\ ticket[t] # next_ticket
        /\ ticket' = [ticket EXCEPT ![t] = next_ticket]
        /\ UNCHANGED <<at, next_ticket>>
  /\ UNCHANGED <<now_serving, served>>

\* Mutant of TicketWait: a late thread does not insist on its own number.
WaitPassed(t) ==
  /\ at[t] = "wait"
  /\ now_serving >= ticket[t]
  /\ Move(t, "in")
  /\ UNCHANGED <<dispenser, ticket, served>>

TicketWait(t) ==
  /\ at[t] = "wait"
  /\ now_serving = ticket[t]
  /\ Move(t, "in")
  /\ UNCHANGED <<dispenser, ticket, served>>

\* now_serving += 1 is a load and a store.
TicketRelease(t) ==
  /\ at[t] = "in"
  /\ served' = [served EXCEPT ![t] = now_serving]
  /\ Move(t, "serve")
  /\ UNCHANGED <<dispenser, ticket>>

Serve(t) ==
  /\ at[t] = "serve"
  /\ now_serving' = Inc(served[t])
  /\ Move(t, "out")
  /\ UNCHANGED <<next_ticket, ticket, served>>

TicketInit ==
  /\ ClientsInit
  /\ next_ticket \in Number /\ now_serving = next_ticket
  /\ ticket = [t \in Threads |-> 0]
  /\ served = [t \in Threads |-> 0]

TicketStep(t) ==
  FaiLoad(t) \/ FaiCas(t) \/ TicketWait(t) \/ TicketRelease(t) \/ Serve(t)

TicketNext == \E t \in Threads : TicketAcquire(t) \/ TicketStep(t)

TicketSpec == TicketInit /\ [][TicketNext]_ticketVars
-----------------------------------------------------------------------------

\* How many numbers after now_serving n is called.
Place(n) == IF n >= now_serving THEN n - now_serving ELSE n - now_serving + W

\* The numbers between now_serving and next_ticket are out, each with one
\* thread, wherever the counters are in their range: a thread that holds the
\* lock has the number being served, and no wrap gives a number out twice.
TicketInv ==
  /\ at \in [Threads -> {"out", "load", "cas", "wait", "in", "serve"}]
  /\ next_ticket \in Number /\ now_serving \in Number
  /\ ticket \in [Threads -> Number] /\ served \in [Threads -> Number]
  /\ \A t \in Threads : Member(t) => Place(ticket[t]) < Place(next_ticket)
  /\ \A t, u \in Threads : Member(t) /\ Member(u) /\ ticket[t] = ticket[u] => t = u
  /\ \A i \in 0 .. Place(next_ticket) - 1 :
       \E t \in Threads : Member(t) /\ Place(ticket[t]) = i
  /\ \A t \in Threads : Holds(t) => ticket[t] = now_serving
  /\ \A t \in Threads : at[t] = "serve" => served[t] = now_serving

\* The order of the queue: by number.
TicketAhead ==
  [t \in Threads |->
     {u \in Threads : Member(t) /\ Member(u) /\ Place(ticket[u]) < Place(ticket[t])}]
=============================================================================
