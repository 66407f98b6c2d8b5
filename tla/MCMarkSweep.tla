---------------------------- MODULE MCMarkSweep ----------------------------
(* MarkSweep over every heap of N objects and up to K references. *)
EXTENDS MarkSweep

\* Slots are interchangeable as long as the order among those of one owner is
\* kept, and so is what a free slot refers to: one heap of each kind is enough.
Ordered(f) == \A i, j \in Slots : i <= j => f[i] <= f[j]

MCInit == /\ owner \in {f \in [Slots -> Objects \cup {Root, Free}] : Ordered(f)}
          /\ target \in {f \in [Slots -> Objects] :
                           \A s \in Slots : owner[s] = Free => f[s] = 1}
          /\ Init

MCSpec == MCInit /\ [][Next]_vars /\ WF_vars(Next)
=============================================================================
