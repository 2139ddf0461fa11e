----------------------------- MODULE MCHashSync -----------------------------
(***************************************************************************)
(* Instances of HashSync for TLC.                                          *)
(***************************************************************************)
EXTENDS HashSync

Rd(p) == [page |-> p, type |-> "RD"]
Wr(p) == [page |-> p, type |-> "WR"]

\* An update of one row of a page and a read of another: its second position in
\* the loop is the page already dealt with.
OnePageQueries == {<<Wr(1), Rd(1)>>}

=============================================================================
