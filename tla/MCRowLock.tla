------------------------------ MODULE MCRowLock ------------------------------
(***************************************************************************)
(* An instance of RowLock for TLC.                                         *)
(***************************************************************************)
EXTENDS RowLock

R(r) == [row |-> r, type |-> "RD"]
W(r) == [row |-> r, type |-> "WR"]

\* Writers that take the rows in opposite orders, and a reader to share with.
Writing == <<W("a"), W("b")>>
Crossing == <<R("b"), W("a")>>
CrossingQueries == {Writing, Crossing}

\* Thread 1 writes, thread 2 crosses it and thread 3 does either: the threads are
\* alike, so this leaves out only the cases where all three do the same.
Dealt == query[1] \in {<<>>, Writing} /\ query[2] \in {<<>>, Crossing}
DealtSpec == Init /\ [][Next /\ Dealt']_vars /\ Fairness

=============================================================================
