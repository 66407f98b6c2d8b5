-------------------------------- MODULE Wrap --------------------------------
(***************************************************************************)
(* The unsigned counters the locks are built from (std::atomic_uint32_t in *)
(* include/utils/SpinLock.h and include/utils/RWLock.h).  They only ever   *)
(* count up, and wrap to zero after Word - 1; Word is 2^32 in the program  *)
(* and a small number in the runs, so that the wrap happens.               *)
(***************************************************************************)
EXTENDS Integers

CONSTANT Word     \* how many values a counter has

ASSUME WordAssumption == Word \in Nat \ {0}

Words == 0 .. (Word - 1)

\* fetch_add(1): what the counter holds afterwards.
Succ(x) == IF x = Word - 1 THEN 0 ELSE x + 1

\* How many fetch_add(1) it takes to get from a to b.
Ahead(a, b) == IF b >= a THEN b - a ELSE b - a + Word
=============================================================================
