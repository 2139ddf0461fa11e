------------------------------ MODULE MCEngines ------------------------------
(***************************************************************************)
(* The engines for TLC: two threads and the queries they run.              *)
(***************************************************************************)
EXTENDS Engines

R(r) == [row |-> r, type |-> "RD"]
W(r) == [row |-> r, type |-> "WR"]

\* Writers that cross, transactions that each read what the other writes, and
\* readers of one row whose commits have different times.
T1 == CHOOSE t \in Thread : TRUE
CrossingScript ==
    [t \in Thread |->
        IF t = T1 THEN <<{<<W(1), W(2)>>, <<W(2)>>}, {<<R(2), W(1)>>, <<W(2)>>},
                         {<<R(1), W(2)>>}, {<<R(1), W(2)>>}>>
                  ELSE <<{<<W(2), W(1)>>, <<R(1), W(3)>>, <<R(1), W(2)>>}>>]

=============================================================================
