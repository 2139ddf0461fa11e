------------------------------ MODULE PartLock ------------------------------
(***************************************************************************)
(* The partition locks of H-Store (CC_ALG = HSTORE): PartMan, one lock per *)
(* partition with waiters in timestamp order, and the counter ready_part   *)
(* with which a transaction waits for all its partitions at once.  PartMan *)
(* works under its latch, so lock and unlock are one step each.            *)
(***************************************************************************)
EXTENDS Integers, Sequences, FiniteSets, SequencesExt

CONSTANTS Thread, Part, NoOwner
ASSUME PartLockAssumption == NoOwner \notin Thread /\ IsFiniteSet(Part)

VARIABLES
    owner,    \* owner of each partition
    waiters,  \* its waiters
    ready,    \* ready_part of each thread's transaction
    ts        \* its timestamp

partVars == <<owner, waiters, ready>>

PartInit ==
    /\ owner = [p \in Part |-> NoOwner] /\ waiters = [p \in Part |-> <<>>]
    /\ ready = [t \in Thread |-> 0] /\ ts = [t \in Thread |-> 0]

\* PartMan::lock grants, ...
Granted(t, p) ==
    /\ owner[p] = NoOwner
    /\ owner' = [owner EXCEPT ![p] = t] /\ UNCHANGED <<waiters, ready>>

\* Mutant of Queued: a waiter goes to the end.
QueuedLast(t, p) ==
    /\ owner[p] # NoOwner /\ ts[owner[p]] < ts[t]
    /\ waiters' = [waiters EXCEPT ![p] = Append(@, t)]
    /\ ready' = [ready EXCEPT ![t] = @ + 1]
    /\ UNCHANGED owner

\* ... queues behind an older owner, from the end past the waiters that are not
\* older, ...
Queued(t, p) ==
    /\ owner[p] # NoOwner /\ ts[owner[p]] < ts[t]
    /\ \E i \in 1..(Len(waiters[p]) + 1) :
          /\ \A j \in i..Len(waiters[p]) : ts[waiters[p][j]] >= ts[t]
          /\ i > 1 => ts[waiters[p][i - 1]] < ts[t]
          /\ waiters' = [waiters EXCEPT ![p] = InsertAt(@, i, t)]
    /\ ready' = [ready EXCEPT ![t] = @ + 1]
    /\ UNCHANGED owner

\* ... and refuses a younger one.
Refused(t, p) == owner[p] # NoOwner /\ ts[owner[p]] >= ts[t] /\ UNCHANGED partVars

\* PartMan::unlock, by the owner or by one of the waiters, which is found there.
Unlock(t, p) ==
    \/ /\ owner[p] = t /\ waiters[p] = <<>>
       /\ owner' = [owner EXCEPT ![p] = NoOwner] /\ UNCHANGED <<waiters, ready>>
    \/ /\ owner[p] = t /\ waiters[p] # <<>>
       /\ owner' = [owner EXCEPT ![p] = Head(waiters[p])]
       /\ waiters' = [waiters EXCEPT ![p] = Tail(@)]
       /\ ready' = [ready EXCEPT ![Head(waiters[p])] = @ - 1]
    \/ /\ owner[p] # t
       /\ \E i \in DOMAIN waiters[p] :
             /\ waiters[p][i] = t /\ \A j \in 1..(i - 1) : waiters[p][j] # t
             /\ waiters' = [waiters EXCEPT ![p] = RemoveAt(@, i)]
       /\ ready' = [ready EXCEPT ![t] = @ - 1] /\ UNCHANGED owner

\* A transaction waits only for older ones, so there is no cycle, and the
\* waiters are in timestamp order: unlock asserts the order among them.
WaitsForOlder ==
    \A p \in Part : \A i \in DOMAIN waiters[p] :
        /\ owner[p] # NoOwner /\ ts[owner[p]] < ts[waiters[p][i]]
        /\ i > 1 => ts[waiters[p][i - 1]] < ts[waiters[p][i]]

=============================================================================
