---------------------------- MODULE AtomicStore ----------------------------
(***************************************************************************)
(* What the transaction engine promises of the stored rows: an attempt to  *)
(* run a transaction takes effect once and at once, on all the rows it     *)
(* writes, or not at all.  db is the committed content of the rows; a      *)
(* write adds one to a row.                                                *)
(***************************************************************************)
EXTENDS Integers

CONSTANTS
    Thread,     \* who runs transactions
    Row,        \* the rows
    WriteSets,  \* the sets of rows one transaction may write
    InitValue   \* content of a row that was just loaded

VARIABLES
    db,
    pending     \* the write set of a thread's undecided attempt, if it has one

Init ==
    /\ db = [r \in Row |-> InitValue]
    /\ pending = [t \in Thread |-> {}]

Begin(t) ==
    /\ pending[t] = {}
    /\ \E S \in WriteSets : pending' = [pending EXCEPT ![t] = {S}]
    /\ UNCHANGED db

Commit(t) ==
    /\ \E S \in pending[t] :
        db' = [r \in Row |-> IF r \in S THEN db[r] + 1 ELSE db[r]]
    /\ pending' = [pending EXCEPT ![t] = {}]

Abort(t) ==
    /\ pending[t] # {}
    /\ pending' = [pending EXCEPT ![t] = {}]
    /\ UNCHANGED db

Next == \E t \in Thread : Begin(t) \/ Commit(t) \/ Abort(t)

Spec == Init /\ [][Next]_<<db, pending>>

=============================================================================
