------------------------------- MODULE RowLock -------------------------------
(***************************************************************************)
(* Two-phase locking, the engine built with CC_ALG = NO_WAIT, WAIT_DIE or  *)
(* DL_DETECT: Row_lock::lock_get and lock_release, the wait loop of        *)
(* row_t::get_row, and the part of txn_man that takes undo copies, rolls   *)
(* back and releases.  Each lock_get and lock_release runs under the row's *)
(* latch and is one step; everything else a transaction does on a row is   *)
(* protected by the lock alone and is a step of its own.                   *)
(*                                                                         *)
(* The algorithm is chosen by the build, here by Init.  Deadlock detection *)
(* and the timeout of DL_DETECT are one event that may hit a waiting       *)
(* transaction at any moment.  A write adds one to the row's content.      *)
(***************************************************************************)
EXTENDS Integers, Sequences, FiniteSets, SequencesExt

CONSTANTS
    Thread,       \* worker threads, one transaction manager each
    Row,          \* the rows
    Query,        \* the queries a thread may run: sequences of requests
    Alg,          \* the algorithms considered
    MaxAttempts   \* bound: attempts each thread makes

ASSUME AlgAssumption == Alg \subseteq {"NO_WAIT", "WAIT_DIE", "DL_DETECT"}
ASSUME AttemptAssumption == MaxAttempts \in Nat

\* A query never asks for a row twice.
Request == [row : Row, type : {"RD", "WR"}]
AccessedOnce(q) == \A i, j \in 1..Len(q) : i < j => q[i].row # q[j].row
ASSUME QueryAssumption ==
    Query \subseteq Seq(Request) /\ \A q \in Query : AccessedOnce(q)

VARIABLES
    alg,        \* CC_ALG
    timestamp,  \* Manager::timestamp
    data,       \* the stored rows
    lock_type,  \* Row_lock::lock_type
    owners,     \* Row_lock::owners; the order of the stack is never used
    waiters,    \* Row_lock::waiters_head .. waiters_tail
    lock_ready, \* txn_man::lock_ready
    lock_abort, \* txn_man::lock_abort
    pc, attempts, query,
    ts,         \* txn_man::timestamp
    accesses,   \* txn_man::accesses[0 .. row_cnt-1], orig_data as the row was
    rc,
    rid         \* accesses cleanup has still to return

lockVars == <<lock_type, owners, waiters, lock_ready>>
vars == <<alg, timestamp, data, lock_type, owners, waiters, lock_ready, lock_abort,
          pc, attempts, query, ts, accesses, rc, rid>>

LockType == {"LOCK_NONE", "LOCK_SH", "LOCK_EX"}
LockEntry == [txn : Thread, type : {"LOCK_SH", "LOCK_EX"}]
Access == [row : Row, type : {"RD", "WR"}, orig_data : Nat]

PC == {"idle", "run", "wait", "giveup", "granted", "write", "cleanup", "release"}

InitValue == 1
NewValue(v) == v + 1

Init ==
    /\ alg \in Alg
    /\ timestamp = 1
    /\ data = [r \in Row |-> InitValue]
    /\ lock_type = [r \in Row |-> "LOCK_NONE"]
    /\ owners = [r \in Row |-> {}]
    /\ waiters = [r \in Row |-> <<>>]
    /\ lock_ready = [t \in Thread |-> FALSE]
    /\ lock_abort = [t \in Thread |-> FALSE]
    /\ pc = [t \in Thread |-> "idle"]
    /\ attempts = [t \in Thread |-> 0]
    /\ query = [t \in Thread |-> <<>>]
    /\ ts = [t \in Thread |-> 0]
    /\ accesses = [t \in Thread |-> <<>>]
    /\ rc = [t \in Thread |-> "RCOK"]
    /\ rid = [t \in Thread |-> 0]

-----------------------------------------------------------------------------
(***************************************************************************)
(* Row_lock.                                                               *)
(***************************************************************************)
\* Mutant of Conflict: an exclusive request joins shared owners.
ConflictBothEx(l1, l2) == l1 = "LOCK_EX" /\ l2 = "LOCK_EX"

\* Row_lock::conflict_lock.
Conflict(l1, l2) ==
    l1 # "LOCK_NONE" /\ l2 # "LOCK_NONE" /\ (l1 = "LOCK_EX" \/ l2 = "LOCK_EX")

\* Mutant of LockFor: a read takes no lock.
LockForWrites(type) == IF type = "RD" THEN "LOCK_NONE" ELSE "LOCK_EX"

\* The lock row_t::get_row asks for.
LockFor(type) == IF type = "RD" THEN "LOCK_SH" ELSE "LOCK_EX"

\* lock_get cannot make the transaction an owner at once.
MustWait(t, r, type) ==
    \/ Conflict(lock_type[r], type)
    \/ /\ alg = "WAIT_DIE" /\ waiters[r] # <<>>
       /\ ts[t] < ts[waiters[r][1].txn]
    \/ alg = "DL_DETECT" /\ waiters[r] # <<>>

\* Mutant of CanWait: under WAIT_DIE the owners' ages are not looked at.
CanWaitAlways(t, r) == alg \in {"DL_DETECT", "WAIT_DIE"}

\* It may queue: always under DL_DETECT, under WAIT_DIE unless an owner is older.
CanWait(t, r) ==
    \/ alg = "DL_DETECT"
    \/ alg = "WAIT_DIE" /\ \A o \in owners[r] : ~(ts[o] < ts[t])

\* Where it queues: at the tail, or before the first waiter that is not younger.
QueuePosition(t, r) ==
    LET notYounger == {i \in 1..Len(waiters[r]) : ~(ts[t] < ts[waiters[r][i].txn])}
    IN IF alg = "WAIT_DIE" /\ notYounger # {} THEN Min(notYounger)
       ELSE Len(waiters[r]) + 1

\* The lock type after the first n waiters have joined the owners.
LockAfter(lt, ws, n) == IF n = 0 THEN lt ELSE ws[n].type

\* Mutant of Joining: at most one waiter joins.
JoiningOne(lt, ws) ==
    IF ws # <<>> /\ ~Conflict(lt, ws[1].type) THEN 1 ELSE 0

\* The loop of lock_release: waiters join from the head until one conflicts
\* with the lock as it then stands, or none is left.
Joining(lt, ws) ==
    Min({n \in 0..Len(ws) :
            n < Len(ws) => Conflict(LockAfter(lt, ws, n), ws[n + 1].type)})

\* The waiters without the transaction's entry.
WithoutEntry(ws, t) ==
    LET entries == {i \in 1..Len(ws) : ws[i].txn = t}
    IN IF entries = {} THEN ws ELSE RemoveAt(ws, Min(entries))

\* lock_release: drop the transaction's entry, from the owners or else from the
\* waiters, then let waiters join.
LockRelease(t, r) ==
    LET own == owners[r] \ {t}
        ws == IF t \in owners[r] THEN waiters[r] ELSE WithoutEntry(waiters[r], t)
        lt == IF own = {} THEN "LOCK_NONE" ELSE lock_type[r]
        n == Joining(lt, ws)
        joined == {ws[i].txn : i \in 1..n}
    IN /\ owners' = [owners EXCEPT ![r] = own \cup joined]
       /\ waiters' = [waiters EXCEPT ![r] = SubSeq(ws, n + 1, Len(ws))]
       /\ lock_type' = [lock_type EXCEPT ![r] = LockAfter(lt, ws, n)]
       /\ lock_ready' = [u \in Thread |-> u \in joined \/ lock_ready[u]]

-----------------------------------------------------------------------------
(***************************************************************************)
(* The transaction.                                                        *)
(***************************************************************************)
HasRequest(t) == pc[t] = "run" /\ Len(accesses[t]) < Len(query[t])
CurrentRequest(t) == query[t][Len(accesses[t]) + 1]
RequestRow(t) == CurrentRequest(t).row
RequestLock(t) == LockFor(CurrentRequest(t).type)

\* thread_t::run: a query and a new timestamp, also for a retry.
Begin(t) ==
    /\ pc[t] = "idle"
    /\ attempts[t] < MaxAttempts
    /\ \E q \in Query : query' = [query EXCEPT ![t] = q]
    /\ ts' = [ts EXCEPT ![t] = timestamp]
    /\ timestamp' = timestamp + 1
    /\ attempts' = [attempts EXCEPT ![t] = @ + 1]
    /\ rc' = [rc EXCEPT ![t] = "RCOK"]
    /\ pc' = [pc EXCEPT ![t] = "run"]
    /\ UNCHANGED <<alg, data, lockVars, lock_abort, accesses, rid>>

\* lock_get returns RCOK.
LockGranted(t) ==
    /\ HasRequest(t)
    /\ ~MustWait(t, RequestRow(t), RequestLock(t))
    /\ owners' = [owners EXCEPT ![RequestRow(t)] = @ \cup {t}]
    /\ lock_type' = [lock_type EXCEPT ![RequestRow(t)] = RequestLock(t)]
    /\ pc' = [pc EXCEPT ![t] = "granted"]
    /\ UNCHANGED <<alg, timestamp, data, waiters, lock_ready, lock_abort, attempts,
                   query, ts, accesses, rc, rid>>

\* lock_get returns WAIT and get_row enters its loop.
LockWait(t) ==
    /\ HasRequest(t)
    /\ MustWait(t, RequestRow(t), RequestLock(t))
    /\ CanWait(t, RequestRow(t))
    /\ waiters' = [waiters EXCEPT ![RequestRow(t)] =
                       InsertAt(@, QueuePosition(t, RequestRow(t)),
                                [txn |-> t, type |-> RequestLock(t)])]
    /\ lock_ready' = [lock_ready EXCEPT ![t] = FALSE]
    /\ lock_abort' = [lock_abort EXCEPT ![t] = FALSE]
    /\ pc' = [pc EXCEPT ![t] = "wait"]
    /\ UNCHANGED <<alg, timestamp, data, lock_type, owners, attempts, query, ts,
                   accesses, rc, rid>>

\* lock_get returns Abort: the transaction ends in finish(Abort).
LockRefused(t) ==
    /\ HasRequest(t)
    /\ MustWait(t, RequestRow(t), RequestLock(t))
    /\ ~CanWait(t, RequestRow(t))
    /\ rc' = [rc EXCEPT ![t] = "Abort"]
    /\ rid' = [rid EXCEPT ![t] = Len(accesses[t])]
    /\ pc' = [pc EXCEPT ![t] = "cleanup"]
    /\ UNCHANGED <<alg, timestamp, data, lockVars, lock_abort, attempts, query, ts,
                   accesses>>

\* The wait loop ends with the lock.
WaitReady(t) ==
    /\ pc[t] = "wait"
    /\ lock_ready[t]
    /\ pc' = [pc EXCEPT ![t] = "granted"]
    /\ UNCHANGED <<alg, timestamp, data, lockVars, lock_abort, attempts, query, ts,
                   accesses, rc, rid>>

\* The timeout, or the deadlock detector's choice of victim.
WaitTimeout(t) ==
    /\ pc[t] = "wait"
    /\ alg = "DL_DETECT"
    /\ ~lock_abort[t]
    /\ lock_abort' = [lock_abort EXCEPT ![t] = TRUE]
    /\ UNCHANGED <<alg, timestamp, data, lockVars, pc, attempts, query, ts, accesses,
                   rc, rid>>

\* The wait loop ends without the lock; a releaser may still grant it before
\* the transaction takes its entry back.
WaitAbort(t) ==
    /\ pc[t] = "wait"
    /\ lock_abort[t] /\ ~lock_ready[t]
    /\ rc' = [rc EXCEPT ![t] = "Abort"]
    /\ pc' = [pc EXCEPT ![t] = "giveup"]
    /\ UNCHANGED <<alg, timestamp, data, lockVars, lock_abort, attempts, query, ts,
                   accesses, rid>>

\* Mutant of GiveUp: a grant that came after the timeout is not given back.
GiveUpQueuedOnly(t) ==
    /\ pc[t] = "giveup"
    /\ IF lock_ready[t] THEN UNCHANGED lockVars ELSE LockRelease(t, RequestRow(t))
    /\ rid' = [rid EXCEPT ![t] = Len(accesses[t])]
    /\ pc' = [pc EXCEPT ![t] = "cleanup"]
    /\ UNCHANGED <<alg, timestamp, data, lock_abort, attempts, query, ts, accesses, rc>>

\* return_row(type, txn, NULL) of the wait loop, then finish(Abort).
GiveUp(t) ==
    /\ pc[t] = "giveup"
    /\ LockRelease(t, RequestRow(t))
    /\ rid' = [rid EXCEPT ![t] = Len(accesses[t])]
    /\ pc' = [pc EXCEPT ![t] = "cleanup"]
    /\ UNCHANGED <<alg, timestamp, data, lock_abort, attempts, query, ts, accesses, rc>>

\* get_row fills in the access and, for a write, the undo copy.
TakeAccess(t) ==
    /\ pc[t] = "granted"
    /\ accesses' = [accesses EXCEPT ![t] =
                        Append(@, [row |-> RequestRow(t), type |-> CurrentRequest(t).type,
                                   orig_data |-> data[RequestRow(t)]])]
    /\ pc' = [pc EXCEPT ![t] = IF CurrentRequest(t).type = "WR" THEN "write" ELSE "run"]
    /\ UNCHANGED <<alg, timestamp, data, lockVars, lock_abort, attempts, query, ts, rc, rid>>

\* run_txn writes the row, which under locking is the stored row.
WriteRow(t) ==
    /\ pc[t] = "write"
    /\ LET a == accesses[t][Len(accesses[t])] IN
        data' = [data EXCEPT ![a.row] = NewValue(a.orig_data)]
    /\ pc' = [pc EXCEPT ![t] = "run"]
    /\ UNCHANGED <<alg, timestamp, lockVars, lock_abort, attempts, query, ts, accesses,
                   rc, rid>>

\* run_txn served every request: finish(RCOK).
Finish(t) ==
    /\ pc[t] = "run"
    /\ Len(accesses[t]) = Len(query[t])
    /\ rid' = [rid EXCEPT ![t] = Len(accesses[t])]
    /\ pc' = [pc EXCEPT ![t] = "cleanup"]
    /\ UNCHANGED <<alg, timestamp, data, lockVars, lock_abort, attempts, query, ts,
                   accesses, rc>>

\* Mutant of ReturnRow: the undo image is not copied back.
ReturnWithoutUndo(t) ==
    /\ pc[t] = "cleanup"
    /\ rid[t] > 0
    /\ pc' = [pc EXCEPT ![t] = "release"]
    /\ UNCHANGED <<alg, timestamp, data, lockVars, lock_abort, attempts, query, ts,
                   accesses, rc, rid>>

\* cleanup, last access first: return_row copies the undo image back.
ReturnRow(t) ==
    /\ pc[t] = "cleanup"
    /\ rid[t] > 0
    /\ LET a == accesses[t][rid[t]] IN
        data' = IF a.type = "WR" /\ rc[t] = "Abort"
                THEN [data EXCEPT ![a.row] = a.orig_data] ELSE data
    /\ pc' = [pc EXCEPT ![t] = "release"]
    /\ UNCHANGED <<alg, timestamp, lockVars, lock_abort, attempts, query, ts, accesses,
                   rc, rid>>

\* ... and releases the row.
ReleaseRow(t) ==
    /\ pc[t] = "release"
    /\ LockRelease(t, accesses[t][rid[t]].row)
    /\ rid' = [rid EXCEPT ![t] = @ - 1]
    /\ pc' = [pc EXCEPT ![t] = "cleanup"]
    /\ UNCHANGED <<alg, timestamp, data, lock_abort, attempts, query, ts, accesses, rc>>

\* cleanup ends and run_txn_ecall returns rc.
EndTxn(t) ==
    /\ pc[t] = "cleanup"
    /\ rid[t] = 0
    /\ accesses' = [accesses EXCEPT ![t] = <<>>]
    /\ pc' = [pc EXCEPT ![t] = "idle"]
    /\ UNCHANGED <<alg, timestamp, data, lockVars, lock_abort, attempts, query, ts, rc, rid>>

-----------------------------------------------------------------------------
Step(t) ==
    \/ Begin(t) \/ LockGranted(t) \/ LockWait(t) \/ LockRefused(t)
    \/ WaitReady(t) \/ WaitTimeout(t) \/ WaitAbort(t) \/ GiveUp(t)
    \/ TakeAccess(t) \/ WriteRow(t) \/ Finish(t) \/ ReturnRow(t)
    \/ ReleaseRow(t) \/ EndTxn(t)

\* Every thread has made its attempts.
Terminated ==
    /\ \A t \in Thread : pc[t] = "idle" /\ attempts[t] = MaxAttempts
    /\ UNCHANGED vars

Next == (\E t \in Thread : Step(t)) \/ Terminated

\* A runnable thread runs; a waiting one counts towards its timeout.
Fairness == \A t \in Thread : WF_vars(Step(t))

Spec == Init /\ [][Next]_vars
-----------------------------------------------------------------------------
(***************************************************************************)
(* Properties.                                                             *)
(***************************************************************************)

\* The types of the lock manager's and the transactions' state.
TypeOK ==
    /\ alg \in Alg /\ timestamp \in Nat
    /\ data \in [Row -> Nat]
    /\ lock_type \in [Row -> LockType]
    /\ owners \in [Row -> SUBSET Thread]
    /\ waiters \in [Row -> Seq(LockEntry)]
    /\ lock_ready \in [Thread -> BOOLEAN] /\ lock_abort \in [Thread -> BOOLEAN]
    /\ pc \in [Thread -> PC]
    /\ attempts \in [Thread -> Nat]
    /\ query \in [Thread -> Query \cup {<<>>}]
    /\ ts \in [Thread -> Nat]
    /\ accesses \in [Thread -> Seq(Access)]
    /\ rc \in [Thread -> {"RCOK", "Abort"}]
    /\ rid \in [Thread -> Nat]

\* The rows a transaction's own state says it has locked: its accesses, less
\* those cleanup has returned, and a row just granted.
LockedRows(t) ==
    LET n == IF pc[t] \in {"cleanup", "release"} THEN rid[t] ELSE Len(accesses[t])
    IN {accesses[t][i].row : i \in 1..n}
       \cup (IF pc[t] = "granted" THEN {RequestRow(t)} ELSE {})

\* A transaction in the queue of a row: it still waits or gives up.
Queued(t, r) == \E i \in 1..Len(waiters[r]) : waiters[r][i].txn = t

\* The lock lists agree with the transactions: nothing is locked or queued for
\* a transaction that does not know, whatever grant races a timeout.
ListsMatchTxns ==
    \A t \in Thread, r \in Row :
        IF pc[t] \in {"wait", "giveup"} /\ r = RequestRow(t)
        THEN /\ (t \in owners[r]) = lock_ready[t]
             /\ Queued(t, r) = ~lock_ready[t]
        ELSE /\ t \in owners[r] <=> r \in LockedRows(t)
             /\ ~Queued(t, r)

\* An exclusive lock has one owner, and the type says whether there are owners.
OwnersCompatible ==
    \A r \in Row :
        /\ owners[r] = {} <=> lock_type[r] = "LOCK_NONE"
        /\ lock_type[r] = "LOCK_EX" => Cardinality(owners[r]) = 1

\* Every waiter is kept out by an owner or by a waiter ahead of it: no grant is
\* forgotten, and a waiter under DL_DETECT always has a dependency to report.
WaitersBlocked ==
    \A r \in Row : \A i \in 1..Len(waiters[r]) :
        \/ Conflict(lock_type[r], waiters[r][i].type)
        \/ \E j \in 1..(i - 1) : Conflict(waiters[r][j].type, waiters[r][i].type)

\* A transaction that has committed but still returns its rows.
Committed(t) == pc[t] \in {"cleanup", "release"} /\ rc[t] = "RCOK"

\* The accesses a transaction still holds the locks of.
HeldAccesses(t) ==
    1..(IF pc[t] \in {"cleanup", "release"} THEN rid[t] ELSE Len(accesses[t]))

\* What a transaction read stays what is stored for as long as it holds the
\* lock, so all its reads belong to the instant it commits.
StableReads ==
    \A t \in Thread : \A i \in HeldAccesses(t) :
        accesses[t][i].type = "RD" => data[accesses[t][i].row] = accesses[t][i].orig_data

\* The undo copies of a row held by transactions that may yet roll back.
UndoCopies(r) ==
    UNION {{accesses[t][i].orig_data :
                i \in {j \in HeldAccesses(t) :
                          accesses[t][j].row = r /\ accesses[t][j].type = "WR"}} :
           t \in {u \in Thread : ~Committed(u)}}

\* The committed content of a row: its undo copy, if there is one, else what is
\* stored.
CommittedValue(r) ==
    IF UndoCopies(r) = {} THEN data[r] ELSE CHOOSE v \in UndoCopies(r) : TRUE

WriteSetOf(q) == {q[i].row : i \in {j \in 1..Len(q) : q[j].type = "WR"}}

\* An attempt is undecided from Begin until finish(RCOK) or the first Abort.
Undecided(t) == pc[t] # "idle" /\ rc[t] = "RCOK" /\ ~Committed(t)

\* An attempt takes effect at once, when it commits, or not at all, whichever way
\* aborts, waits and rollbacks interleave: the locking engine implements
\* AtomicStore.  In particular cleanup, which writes rows after the outcome is
\* known, changes no committed content.
Atomic == INSTANCE AtomicStore WITH
    db <- [r \in Row |-> CommittedValue(r)],
    pending <- [t \in Thread |-> IF Undecided(t) THEN {WriteSetOf(query[t])} ELSE {}],
    WriteSets <- {WriteSetOf(q) : q \in Query}
AtomicCommits == Atomic!Spec

\* Every attempt ends: a deadlock cannot form under NO_WAIT and WAIT_DIE, and
\* under DL_DETECT it is broken.
AttemptEnds == \A t \in Thread : pc[t] = "run" ~> pc[t] = "idle"

=============================================================================
