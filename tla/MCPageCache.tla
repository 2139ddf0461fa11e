----------------------------- MODULE MCPageCache -----------------------------
(***************************************************************************)
(* Instances of PageCache: two workers and two hash buckets through a      *)
(* cache of one; one worker and a B-tree of two leaves.                    *)
(***************************************************************************)
EXTENDS PageCache

Flat == [p \in Page |-> Nil]
Acc(p, w) == [page |-> p, write |-> w]
HashTxns == {<<Acc(p, TRUE)>> : p \in Page}

\* Two leaves under one inner node.
Tree == [p \in Page |-> IF p = 1 THEN Nil ELSE 1]
TreeTxns == {<<Acc(p, TRUE)>> : p \in Page \ {1}}

=============================================================================
