------------------------------ MODULE Collector ------------------------------
(***************************************************************************)
(* What a garbage collector may do to a heap: drop a reference that an     *)
(* object nobody can reach holds, and destroy an object without            *)
(* references, which drops what it held.  Nothing else changes while it    *)
(* runs.                                                                   *)
(***************************************************************************)
EXTENDS Integers

CONSTANTS Objects, Slots, Free

VARIABLES owner, target, alive

heap == <<owner, target, alive>>

References(o) == {s \in Slots : owner[s] # Free /\ target[s] = o}
Unreachable   == UNION {G \in SUBSET alive :
                          \A o \in G : \A s \in References(o) : owner[s] \in G}

Drop(s) == /\ owner[s] \in Unreachable
           /\ owner' = [owner EXCEPT ![s] = Free]
           /\ UNCHANGED <<target, alive>>

Destroy(o) == /\ o \in alive
              /\ References(o) = {}
              /\ alive' = alive \ {o}
              /\ owner' = [s \in Slots |-> IF owner[s] = o THEN Free ELSE owner[s]]
              /\ UNCHANGED target

Next == \/ \E s \in Slots : Drop(s)
        \/ \E o \in alive : Destroy(o)
=============================================================================
