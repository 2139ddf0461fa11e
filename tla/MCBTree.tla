------------------------------ MODULE MCBTree ------------------------------
(***************************************************************************)
(* Instances of BTree, of order 3.  Six keys are loaded in every order,    *)
(* one of them twice, and nothing follows; one order of seven keys gives a *)
(* tree of three levels with full nodes on the lower two, and two threads  *)
(* insert into it, or read it.                                             *)
(***************************************************************************)
EXTENDS BTree

Orders(keys) == {s \in [1..Cardinality(keys) -> keys] : ToSet(s) = keys}
LoadOnly == {[load |-> s \o <<s[1]>>, job |-> [t \in Thread |-> <<>>]] : s \in Orders({10, 20, 30, 40, 50, 60})}

LoadOrder == <<10, 20, 30, 12, 50, 60, 70>>
Ins(keys) == {[op |-> "insert", key |-> k] : k \in keys}
Rd(keys) == {[op |-> "read", key |-> k] : k \in keys}
InsertJob == [t \in Thread |->
    IF t = 1 THEN <<Ins({11, 65}), Ins({25, 52})>> ELSE <<Ins({55, 75}), Ins({12, 65})>>]
ReadJob == [t \in Thread |-> <<Rd({12, 40, 60})>>]
ServePlan == LoadOnly \cup {[load |-> LoadOrder, job |-> j] : j \in {InsertJob, ReadJob}}

\* The tree does not grow a level: insert_into_new_root leaves the old root out
\* of the cache, so that its next visitor loads another node in its place and
\* what was below it is lost.  A thread that had to make a new root would be
\* stuck here, which TLC reports as a deadlock.
ServeNext == Load \/ LoadAll \/ (\E t \in Thread : Inserting(t) \/ Reading(t)) \/ Terminating
ServeSpec == Init /\ [][ServeNext]_vars

=============================================================================
