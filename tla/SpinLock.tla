------------------------------ MODULE SpinLock ------------------------------
(***************************************************************************)
(* Utils::SpinLock (include/utils/SpinLock.h): the ticket lock that guards *)
(* every garbage collector generation.  acquire draws a ticket from _users *)
(* and spins until _ticket shows it; release advances _ticket.  Between    *)
(* the two steps of acquire any other thread may run.                      *)
(***************************************************************************)
EXTENDS Wrap, FiniteSets

CONSTANT Threads

\* With more threads than counter values two of them could draw one ticket.
ASSUME ThreadsAssumption ==
  /\ IsFiniteSet(Threads)
  /\ Cardinality(Threads) <= Word

VARIABLES users,      \* _users, the next ticket to hand out
          ticket,     \* _ticket, the ticket that may enter
          id,         \* the local id of acquire, per thread
          pc          \* where each thread is

vars == <<users, ticket, id, pc>>

Active  == {t \in Threads : pc[t] # "idle"}
Waiting == {t \in Threads : pc[t] = "spin"}
Holding == {t \in Threads : pc[t] = "held"}

Init == /\ users = 0
        /\ ticket = 0
        /\ id = [t \in Threads |-> 0]
        /\ pc = [t \in Threads |-> "idle"]

\* acquire, first half: auto id = _users.fetch_add(1).
DrawWithoutWrap(t) == /\ pc[t] = "idle"             \* mutant: a wider counter
                      /\ id' = [id EXCEPT ![t] = users]
                      /\ users' = users + 1
                      /\ pc' = [pc EXCEPT ![t] = "spin"]
                      /\ UNCHANGED ticket

DrawLoadThenStore(t) == /\ pc[t] = "idle"           \* mutant: load, not fetch_add
                        /\ id' = [id EXCEPT ![t] = users]
                        /\ users' \in {users, Succ(users)}
                        /\ pc' = [pc EXCEPT ![t] = "spin"]
                        /\ UNCHANGED ticket

Draw(t) == /\ pc[t] = "idle"
           /\ id' = [id EXCEPT ![t] = users]
           /\ users' = Succ(users)
           /\ pc' = [pc EXCEPT ![t] = "spin"]
           /\ UNCHANGED ticket

\* acquire, second half: the load that ends the spin.
EnterWhenPassed(t) == /\ pc[t] = "spin"             \* mutant: id <= ticket
                      /\ id[t] <= ticket
                      /\ pc' = [pc EXCEPT ![t] = "held"]
                      /\ UNCHANGED <<users, ticket, id>>

EnterWhenFree(t) == /\ pc[t] = "spin"               \* mutant: any waiter may take it
                    /\ Holding = {}
                    /\ pc' = [pc EXCEPT ![t] = "held"]
                    /\ UNCHANGED <<users, ticket, id>>

Enter(t) == /\ pc[t] = "spin"
            /\ id[t] = ticket
            /\ pc' = [pc EXCEPT ![t] = "held"]
            /\ UNCHANGED <<users, ticket, id>>

\* release: _ticket.fetch_add(1).
ReleaseSilently(t) == /\ pc[t] = "held"             \* mutant: nobody is let in
                      /\ pc' = [pc EXCEPT ![t] = "idle"]
                      /\ UNCHANGED <<users, ticket, id>>

Release(t) == /\ pc[t] = "held"
              /\ ticket' = Succ(ticket)
              /\ pc' = [pc EXCEPT ![t] = "idle"]
              /\ UNCHANGED <<users, id>>

Next == \E t \in Threads : Draw(t) \/ Enter(t) \/ Release(t)

\* A spinning thread is scheduled again, and Scope's destructor releases the
\* lock on every path out of a critical section.  No thread has to ask for it.
Fairness == \A t \in Threads : WF_vars(Enter(t)) /\ WF_vars(Release(t))

Spec == Init /\ [][Next]_vars /\ Fairness

-----------------------------------------------------------------------------
TypeOK == /\ users \in Words
          /\ ticket \in Words
          /\ id \in [Threads -> Words]
          /\ pc \in [Threads -> {"idle", "spin", "held"}]

\* At most one thread is between acquire and release: the guarantee every
\* list operation of a Generation relies on.
MutualExclusion == \A s, t \in Holding : s = t

\* How far a thread's ticket is from being served.
Distance(t) == Ahead(ticket, id[t])

\* The tickets that are out are pairwise different and fill the window that
\* starts at _ticket and is as long as there are threads in the lock, across
\* the wrap; _users is its end, and a holder has the first of them.
Window == /\ \A t \in Active : Distance(t) < Cardinality(Active)
          /\ \A s, t \in Active : id[s] = id[t] => s = t
          /\ \A t \in Holding : id[t] = ticket
          /\ users = IF ticket + Cardinality(Active) < Word
                     THEN ticket + Cardinality(Active)
                     ELSE ticket + Cardinality(Active) - Word

\* Every thread that has drawn a ticket enters.
EveryoneEnters == \A t \in Threads : pc[t] = "spin" ~> pc[t] = "held"

-----------------------------------------------------------------------------
\* The threads that hold or wait, in the order they called acquire: what the
\* abstract lock of FairLock keeps instead of counters.
Line == [k \in 1 .. Cardinality(Active) |->
          CHOOSE t \in Active : Cardinality({s \in Active : Distance(s) < Distance(t)}) = k - 1]

Abstract == INSTANCE FairLock WITH line <- Line, inside <- (Holding # {})

\* The two counters implement a first-come first-served lock: every step of
\* acquire and release is a step of a line of threads, and the line moves.
ImplementsFairLock == Abstract!Spec
=============================================================================
