-------------------------------- MODULE Silo --------------------------------
(***************************************************************************)
(* The Silo engine (CC_ALG = SILO with ATOMIC_WORD, PRE_ABORT and no-wait  *)
(* validation, the defaults of config.h).  A row carries one word, a       *)
(* transaction number and a lock bit.  Readers copy the row between two    *)
(* reads of the word; a commit locks its writes, checks its reads, and     *)
(* installs its copies.  Copying a row is two steps, one per half, so that *)
(* a copy can be torn.                                                     *)
(***************************************************************************)
EXTENDS TxnFrame

Half == 1..2

\* Row_silo::init and the fields of txn_man this engine uses.
InitialRow == [tid |-> 0, lock |-> FALSE, data |-> [h \in Half |-> Loaded]]
InitialLocal ==
    [v |-> 0, copy |-> [h \in Half |-> Loaded], num_locks |-> 0, i |-> 0, cur_tid |-> 0]

Init == FrameInit([r \in Row |-> InitialRow], InitialLocal)

Begin(t) == Take(t) /\ UNCHANGED <<row, accesses, local, hist, vers>>

-----------------------------------------------------------------------------
(* Row_silo::access.                                                       *)

\* The word is read once the lock bit is clear.
ReadWord(t) ==
    /\ pc[t] = "run"
    /\ HasRequest(t)
    /\ ~row[Request(t).row].lock
    /\ Set(t, [local[t] EXCEPT !.v = row[Request(t).row].tid])
    /\ Goto(t, "copy1")
    /\ UNCHANGED <<row, tries, query, accesses, hist, vers>>

\* local_row->copy(_row), without any lock.
CopyHalf(t, h) ==
    /\ pc[t] = <<"copy1", "copy2">>[h]
    /\ Set(t, [local[t] EXCEPT !.copy[h] = row[Request(t).row].data[h]])
    /\ Goto(t, <<"copy2", "check">>[h])
    /\ UNCHANGED <<row, tries, query, accesses, hist, vers>>

SameWord(t) == row[Request(t).row].tid = local[t].v /\ ~row[Request(t).row].lock

\* v2 != v repeats the copy; otherwise get_row records the access and its tid.
CheckWord(t) ==
    /\ pc[t] = "check"
    /\ IF SameWord(t)
       THEN Granted(t, [row |-> Request(t).row, type |-> Request(t).type,
                        data |-> local[t].copy, tid |-> local[t].v])
       ELSE UNCHANGED accesses
    /\ Goto(t, "run")
    /\ UNCHANGED <<row, tries, query, local, hist, vers>>

-----------------------------------------------------------------------------
(* txn_man::validate_silo.                                                 *)

Locked(t, n) == {accesses[t][WriteSet(t)[i]].row : i \in 1..n}
TidUnchanged(t, i) == row[accesses[t][i].row].tid = accesses[t][i].tid

\* The checks of _pre_abort read one word after the other.  Transaction numbers
\* only grow, so checking them all at once decides the same.
PreCheck(t) == \A i \in 1..Len(accesses[t]) : TidUnchanged(t, i)

Validate(t) ==
    /\ pc[t] = "run"
    /\ ~HasRequest(t)
    /\ Set(t, [local[t] EXCEPT !.num_locks = 0, !.i = 0])
    /\ Goto(t, IF PreCheck(t) THEN "lock" ELSE "abort")
    /\ UNCHANGED <<row, tries, query, accesses, hist, vers>>

\* One try_lock of the no-wait loop, and the check of the row's number.
TryLock(t) ==
    /\ pc[t] = "lock"
    /\ local[t].num_locks < Len(WriteSet(t))
    /\ LET i == WriteSet(t)[local[t].num_locks + 1]
           r == accesses[t][i].row IN
       /\ ~row[r].lock
       /\ row' = [row EXCEPT ![r].lock = TRUE]
       /\ Set(t, [local[t] EXCEPT !.num_locks = @ + 1])
       /\ Goto(t, IF TidUnchanged(t, i) THEN "lock" ELSE "abort")
    /\ UNCHANGED <<tries, query, accesses, hist, vers>>

\* A try_lock failed: all locks are given back, then the checks are repeated.
LockBusy(t) ==
    /\ pc[t] = "lock"
    /\ local[t].num_locks < Len(WriteSet(t))
    /\ row[accesses[t][WriteSet(t)[local[t].num_locks + 1]].row].lock
    /\ Goto(t, "backoff")
    /\ UNCHANGED <<row, tries, query, accesses, local, hist, vers>>

\* Mutant of Backoff: the locks already taken are forgotten.
BackoffKeepsLocks(t) ==
    /\ pc[t] = "backoff"
    /\ Set(t, [local[t] EXCEPT !.num_locks = 0])
    /\ Goto(t, IF PreCheck(t) THEN "lock" ELSE "abort")
    /\ UNCHANGED <<row, tries, query, accesses, hist, vers>>

Backoff(t) ==
    /\ pc[t] = "backoff"
    /\ row' = [r \in Row |-> IF r \in Locked(t, local[t].num_locks)
                             THEN [row[r] EXCEPT !.lock = FALSE] ELSE row[r]]
    /\ Set(t, [local[t] EXCEPT !.num_locks = 0])
    /\ Goto(t, IF PreCheck(t) THEN "lock" ELSE "abort")
    /\ UNCHANGED <<tries, query, accesses, hist, vers>>

AllLocked(t) ==
    /\ pc[t] = "lock"
    /\ local[t].num_locks = Len(WriteSet(t))
    /\ Set(t, [local[t] EXCEPT !.i = 0])
    /\ Goto(t, "reads")
    /\ UNCHANGED <<row, tries, query, accesses, hist, vers>>

\* Mutant of ReadValid: Row_silo::validate ignores the lock bit of a read row.
ReadUnchanged(t, i) == TidUnchanged(t, i)

\* Row_silo::validate outside the write set.
ReadValid(t, i) == ~row[accesses[t][i].row].lock /\ TidUnchanged(t, i)

ValidateRead(t) ==
    /\ pc[t] = "reads"
    /\ local[t].i < Len(ReadSet(t))
    /\ Set(t, [local[t] EXCEPT !.i = @ + 1])
    /\ Goto(t, IF ReadValid(t, ReadSet(t)[local[t].i + 1]) THEN "reads" ELSE "abort")
    /\ UNCHANGED <<row, tries, query, accesses, hist, vers>>

MaxTid(t) ==
    LET S == {accesses[t][i].tid : i \in 1..Len(accesses[t])} IN
    CHOOSE x \in S : \A y \in S : y <= x

\* The number of the commit: above those of its rows and of the thread's last.
NextTid(t) == IF MaxTid(t) > local[t].cur_tid THEN MaxTid(t) + 1 ELSE local[t].cur_tid + 1

\* The check of the locked rows (in_write_set) and the choice of the number.
ValidateWrites(t) ==
    /\ pc[t] = "reads"
    /\ local[t].i = Len(ReadSet(t))
    /\ IF \A i \in Of(t, "WR") : TidUnchanged(t, i)
       THEN /\ Set(t, [local[t] EXCEPT !.cur_tid = NextTid(t), !.i = 0])
            /\ Goto(t, "install1")
       ELSE UNCHANGED local /\ Goto(t, "abort")
    /\ UNCHANGED <<row, tries, query, accesses, hist, vers>>

Installing(t) == accesses[t][WriteSet(t)[local[t].i + 1]].row

\* Row_silo::write copies the row, half by half.
InstallHalf(t, h) ==
    /\ pc[t] = <<"install1", "install2">>[h]
    /\ local[t].i < Len(WriteSet(t))
    /\ row' = [row EXCEPT ![Installing(t)].data[h] = Attempt(t)]
    /\ Goto(t, <<"install2", "word">>[h])
    /\ UNCHANGED <<tries, query, accesses, local, hist, vers>>

\* The number is stored with the lock bit; Row_silo::write asserts that it grows.
InstallWord(t) ==
    /\ pc[t] = "word"
    /\ row' = [row EXCEPT ![Installing(t)].tid = local[t].cur_tid]
    /\ vers' = [vers EXCEPT ![Installing(t)] = Append(@, Attempt(t))]
    /\ Goto(t, "release")
    /\ UNCHANGED <<tries, query, accesses, local, hist>>

ReleaseInstalled(t) ==
    /\ pc[t] = "release"
    /\ row' = [row EXCEPT ![Installing(t)].lock = FALSE]
    /\ Set(t, [local[t] EXCEPT !.i = @ + 1])
    /\ Goto(t, "install1")
    /\ UNCHANGED <<tries, query, accesses, hist, vers>>

\* cleanup(RCOK): return_row does nothing for this engine.
Commit(t) ==
    /\ pc[t] = "install1"
    /\ local[t].i = Len(WriteSet(t))
    /\ Committed(t)
    /\ Set(t, [InitialLocal EXCEPT !.cur_tid = local[t].cur_tid])
    /\ UNCHANGED <<row, tries, vers>>

\* final with rc = Abort: the first num_locks locks are released, cleanup(Abort).
Abort(t) ==
    /\ pc[t] = "abort"
    /\ row' = [r \in Row |-> IF r \in Locked(t, local[t].num_locks)
                             THEN [row[r] EXCEPT !.lock = FALSE] ELSE row[r]]
    /\ Aborted(t)
    /\ Set(t, [InitialLocal EXCEPT !.cur_tid = local[t].cur_tid])
    /\ UNCHANGED <<tries, vers>>

-----------------------------------------------------------------------------
Step(t) ==
    \/ Begin(t) \/ ReadWord(t) \/ (\E h \in Half : CopyHalf(t, h)) \/ CheckWord(t)
    \/ Validate(t) \/ TryLock(t) \/ LockBusy(t) \/ Backoff(t) \/ AllLocked(t)
    \/ ValidateRead(t) \/ ValidateWrites(t)
    \/ (\E h \in Half : InstallHalf(t, h)) \/ InstallWord(t) \/ ReleaseInstalled(t)
    \/ Commit(t) \/ Abort(t)

=============================================================================
