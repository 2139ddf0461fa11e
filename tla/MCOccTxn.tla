------------------------------ MODULE MCOccTxn ------------------------------
(***************************************************************************)
(* Instances of OccTxn for TLC.                                            *)
(***************************************************************************)
EXTENDS OccTxn

R(r) == [row |-> r, type |-> "RD"]
W(r) == [row |-> r, type |-> "WR"]
WS(r) == [row |-> r, type |-> "WR_SHARED"]
I(r) == [row |-> r, type |-> "INS"]

\* Two rows locked against the order they are asked for, a write to the shared
\* row, and an insert into a page that another query reads.
MixedQueries == {<<W(2), W(1)>>, <<R(1), WS(2)>>, <<I(1)>>}

\* Read-modify-write of one row through the local copy.
CounterQueries == {<<W(1)>>}

=============================================================================
