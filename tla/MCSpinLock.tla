----------------------------- MODULE MCSpinLock -----------------------------
(* SpinLock with few threads and counters that wrap after a few tickets. *)
EXTENDS SpinLock
=============================================================================
