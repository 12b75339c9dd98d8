------------------------------- MODULE TasLock -------------------------------
(***************************************************************************)
(* The test-and-set lock: one word, acquired by tas_acquire,               *)
(* tatas_acquire or tatas_backoff_acquire, which a program may mix.  The   *)
(* backoff only spends time between two looks at the word.                 *)
(***************************************************************************)
EXTENDS LockClients, Naturals

VARIABLE word     \* the tas_lock_t

tasVars == <<at, word>>

\* tas: an atomic exchange of the word with 1, which had val in it.
Found(val) == word = val /\ word' = 1

TasAcquire(t)   == at[t] = "out" /\ Move(t, "tas") /\ UNCHANGED word
TatasAcquire(t) == at[t] = "out" /\ Move(t, "look") /\ UNCHANGED word

\* Mutant of Tas: the exchange is not looked at.
TasUntested(t) == at[t] \in {"tas", "tatas"} /\ word' = 1 /\ Move(t, "in")

\* One exchange of tas_acquire or tatas_acquire; the latter looks again
\* before the next one.
Tas(t) ==
  /\ at[t] \in {"tas", "tatas"}
  /\ \/ Found(0) /\ Move(t, "in")
     \/ Found(1) /\ Move(t, IF at[t] = "tatas" THEN "look" ELSE "tas")

\* while(*L): go on to the exchange once the word was seen clear.
Look(t) == at[t] = "look" /\ word = 0 /\ Move(t, "tatas") /\ UNCHANGED word

TasRelease(t) == at[t] = "in" /\ word' = 0 /\ Move(t, "out")

TasInit == ClientsInit /\ word = 0

\* What a thread does by itself once it has called acquire.
TasStep(t) == Tas(t) \/ Look(t) \/ TasRelease(t)
TasCall(t) == TasAcquire(t) \/ TatasAcquire(t)

TasNext == \E t \in Threads : TasCall(t) \/ TasStep(t)

TasSpec == TasInit /\ [][TasNext]_tasVars
-----------------------------------------------------------------------------

\* The word is 1 exactly while some thread holds the lock: a failing tas,
\* which stores 1 as well, never hides a release.
TasInv ==
  /\ at \in [Threads -> {"out", "tas", "look", "tatas", "in"}]
  /\ word \in {0, 1}
  /\ word = 1 <=> \E t \in Threads : Holds(t)
  /\ MutualExclusion
=============================================================================
