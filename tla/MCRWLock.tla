------------------------------ MODULE MCRWLock ------------------------------
(* RWLock with few threads and counters that wrap after a few tickets. *)
EXTENDS RWLock

\* A behaviour is followed up to the carry, which is another run's subject:
\* afterwards nothing is promised, and threads may wait for ever.
BeforeCarry == ~carried
=============================================================================
