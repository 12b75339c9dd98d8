----------------------------- MODULE MCSpinLocks -----------------------------
(* Three threads and counters of two bits. *)
EXTENDS SpinLocks, TLC

CONSTANTS t1, t2, t3
=============================================================================
