----------------------------- MODULE FairRWLock -----------------------------
(***************************************************************************)
(* What a fair read-write lock promises, with no counters: requests stand  *)
(* in one line, the first of the line enters when nobody it excludes is    *)
(* inside, and adjacent readers are inside together.                       *)
(***************************************************************************)
EXTENDS Sequences

CONSTANT Threads

VARIABLES line,      \* the requests not granted yet, in order
          readers,   \* the threads reading
          writers    \* the threads writing

lock == <<line, readers, writers>>

Request == [who : Threads, mode : {"read", "write"}]

Init == line = <<>> /\ readers = {} /\ writers = {}

Ask(r) == /\ r.who \notin readers \cup writers
          /\ \A i \in DOMAIN line : line[i].who # r.who
          /\ line' = Append(line, r)
          /\ UNCHANGED <<readers, writers>>

GrantRead == /\ line # <<>> /\ Head(line).mode = "read"
             /\ writers = {}
             /\ readers' = readers \cup {Head(line).who}
             /\ line' = Tail(line)
             /\ UNCHANGED writers

GrantWrite == /\ line # <<>> /\ Head(line).mode = "write"
              /\ readers = {} /\ writers = {}
              /\ writers' = {Head(line).who}
              /\ line' = Tail(line)
              /\ UNCHANGED readers

Leave(t) == /\ t \in readers \cup writers
            /\ readers' = readers \ {t}
            /\ writers' = writers \ {t}
            /\ UNCHANGED line

Next == \/ GrantRead \/ GrantWrite
        \/ \E r \in Request : Ask(r)
        \/ \E t \in Threads : Leave(t)
=============================================================================
