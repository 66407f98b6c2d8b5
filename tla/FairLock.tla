------------------------------ MODULE FairLock ------------------------------
(***************************************************************************)
(* What a fair lock promises, with no counters: threads stand in a line in *)
(* the order they asked, only the first of the line can be inside, and who *)
(* leaves is the first.                                                    *)
(***************************************************************************)
EXTENDS Sequences, FiniteSets

CONSTANT Threads

VARIABLES line,     \* the threads that asked and have not left, in order
          inside    \* is the first of the line inside?

lock == <<line, inside>>

Init == line = <<>> /\ inside = FALSE

Ask(t) == /\ \A i \in DOMAIN line : line[i] # t
          /\ line' = Append(line, t)
          /\ UNCHANGED inside

Grant == /\ line # <<>>
         /\ ~inside
         /\ inside' = TRUE
         /\ UNCHANGED line

Leave == /\ inside
         /\ inside' = FALSE
         /\ line' = Tail(line)

Next == Grant \/ Leave \/ \E t \in Threads : Ask(t)

Spec == Init /\ [][Next]_lock /\ WF_lock(Grant) /\ WF_lock(Leave)
=============================================================================
