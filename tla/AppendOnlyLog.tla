----------------------------- MODULE AppendOnlyLog -----------------------------
(***************************************************************************)
(* What an activity log promises: a chain of records that only grows, one  *)
(* record at a time, at the hands of the one thread that holds it.         *)
(*                                                                         *)
(* A record is its ancestry: the contents from the first record of the log *)
(* to itself, which is what its salted hash commits to.                    *)
(***************************************************************************)
EXTENDS Sequences

CONSTANTS Threads, Nobody, Contents

VARIABLES
  entries,  \* the records
  holder    \* the thread whose transaction is open, or Nobody

vars == <<entries, holder>>

(* The hash a record written now is salted with; none for the first record *)
Tip == IF entries = <<>> THEN <<>> ELSE entries[Len(entries)]

Init == entries = <<>> /\ holder = Nobody

Acquire(t) ==
  /\ holder = Nobody
  /\ holder' = t
  /\ UNCHANGED entries

Write(c) ==
  /\ holder # Nobody
  /\ entries' = Append(entries, Append(Tip, c))
  /\ UNCHANGED holder

Release ==
  /\ holder # Nobody
  /\ holder' = Nobody
  /\ UNCHANGED entries

Next ==
  \/ \E t \in Threads : Acquire(t)
  \/ \E c \in Contents : Write(c)
  \/ Release

Spec == Init /\ [][Next]_vars

================================================================================
