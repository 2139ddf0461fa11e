------------------------------- MODULE TicToc -------------------------------
(***************************************************************************)
(* The TicToc engine (CC_ALG = TICTOC with ATOMIC_WORD, PRE_ABORT, no-wait *)
(* validation and WR_VALIDATION_SEPARATE, without TICTOC_MV and            *)
(* WRITE_PERMISSION_LOCK: the defaults of config.h; serializable           *)
(* isolation).  A row carries one word: a lock bit, the time wts its       *)
(* version was written and, in RTS_LEN bits, how long after wts its lease  *)
(* ends.  A commit chooses a time its writes may carry and extends the     *)
(* leases of its reads to it.                                              *)
(***************************************************************************)
EXTENDS TxnFrame

CONSTANT RTS_LEN   \* bits of the lease; 15 in row_tictoc.h

Half == 1..2
Word(lock, wts, delta) == [lock |-> lock, wts |-> wts, delta |-> delta]

\* Row_tictoc::init and the fields of txn_man this engine uses.
InitialRow == [word |-> Word(FALSE, 0, 0), data |-> [h \in Half |-> Loaded]]
InitialLocal ==
    [v |-> Word(FALSE, 0, 0), copy |-> [h \in Half |-> Loaded], num_locks |-> 0, i |-> 0,
     commit_wts |-> 0, v2 |-> Word(FALSE, 0, 0), rebase |-> FALSE]

Init == FrameInit([r \in Row |-> InitialRow], InitialLocal)

Begin(t) == Take(t) /\ UNCHANGED <<row, accesses, local, hist, vers>>

\* get_rts: the end of the lease.
Rts(w) == w.wts + w.delta
TheWord(t, i) == row[accesses[t][i].row].word
MaxOf(S) == CHOOSE x \in S : \A y \in S : y <= x

-----------------------------------------------------------------------------
(* Row_tictoc::access.                                                     *)

ReadWord(t) ==
    /\ pc[t] = "run"
    /\ HasRequest(t)
    /\ ~row[Request(t).row].word.lock
    /\ Set(t, [local[t] EXCEPT !.v = row[Request(t).row].word])
    /\ Goto(t, "copy1")
    /\ UNCHANGED <<row, tries, query, accesses, hist, vers>>

CopyHalf(t, h) ==
    /\ pc[t] = <<"copy1", "copy2">>[h]
    /\ Set(t, [local[t] EXCEPT !.copy[h] = row[Request(t).row].data[h]])
    /\ Goto(t, <<"copy2", "check">>[h])
    /\ UNCHANGED <<row, tries, query, accesses, hist, vers>>

\* (v2 | RTS_MASK) == (v | RTS_MASK): a longer lease is no change.
SameVersion(v, w) == v.wts = w.wts /\ v.lock = w.lock

\* last_wts and last_rts come from the first word read.
CheckWord(t) ==
    /\ pc[t] = "check"
    /\ IF SameVersion(local[t].v, row[Request(t).row].word)
       THEN Granted(t, [row |-> Request(t).row, type |-> Request(t).type,
                        data |-> local[t].copy, wts |-> local[t].v.wts, rts |-> Rts(local[t].v)])
       ELSE UNCHANGED accesses
    /\ Goto(t, "run")
    /\ UNCHANGED <<row, tries, query, local, hist, vers>>

-----------------------------------------------------------------------------
(* txn_man::validate_tictoc.                                               *)

\* The first choice: at the versions read, after the leases of those written.
FirstCommitTs(t) ==
    MaxOf({0} \cup {accesses[t][i].wts : i \in Of(t, "RD")}
              \cup {accesses[t][i].rts + 1 : i \in Of(t, "WR")})

WtsUnchanged(t, i) == TheWord(t, i).wts = accesses[t][i].wts

Validate(t) ==
    /\ pc[t] = "run"
    /\ ~HasRequest(t)
    /\ Set(t, [local[t] EXCEPT !.num_locks = 0, !.i = 0, !.commit_wts = FirstCommitTs(t)])
    /\ Goto(t, "pre")
    /\ UNCHANGED <<row, tries, query, accesses, hist, vers>>

\* _pre_abort looks at the writes and then at the reads, one word at a time; a
\* changed row that was read does no harm while its lease covers the commit.
PreCheck(t) ==
    /\ pc[t] = "pre"
    /\ LET order == WriteSet(t) \o ReadSet(t)
           i == order[local[t].i + 1]
           ok == \/ WtsUnchanged(t, i)
                 \/ accesses[t][i].type = "RD" /\ local[t].commit_wts <= Rts(TheWord(t, i)) IN
       /\ Set(t, [local[t] EXCEPT !.i = @ + 1])
       /\ Goto(t, IF ~ok THEN "abort" ELSE IF local[t].i + 1 = Len(order) THEN "lock" ELSE "pre")
    /\ UNCHANGED <<row, tries, query, accesses, hist, vers>>

Locked(t, n) == {accesses[t][WriteSet(t)[i]].row : i \in 1..n}
Unlock(S) == row' = [r \in Row |-> IF r \in S THEN [row[r] EXCEPT !.word.lock = FALSE] ELSE row[r]]

\* Mutant of TryLock: the row is not compared with the copy once it is locked.
TryLockUnchecked(t) ==
    /\ pc[t] = "lock"
    /\ local[t].num_locks < Len(WriteSet(t))
    /\ LET i == WriteSet(t)[local[t].num_locks + 1] IN
       /\ ~TheWord(t, i).lock
       /\ row' = [row EXCEPT ![accesses[t][i].row].word.lock = TRUE]
       /\ Set(t, [local[t] EXCEPT !.num_locks = @ + 1])
    /\ UNCHANGED <<pc, tries, query, accesses, hist, vers>>

TryLock(t) ==
    /\ pc[t] = "lock"
    /\ local[t].num_locks < Len(WriteSet(t))
    /\ LET i == WriteSet(t)[local[t].num_locks + 1] IN
       /\ ~TheWord(t, i).lock
       /\ row' = [row EXCEPT ![accesses[t][i].row].word.lock = TRUE]
       /\ Set(t, [local[t] EXCEPT !.num_locks = @ + 1])
       /\ Goto(t, IF WtsUnchanged(t, i) THEN "lock" ELSE "abort")
    /\ UNCHANGED <<tries, query, accesses, hist, vers>>

LockBusy(t) ==
    /\ pc[t] = "lock"
    /\ local[t].num_locks < Len(WriteSet(t))
    /\ TheWord(t, WriteSet(t)[local[t].num_locks + 1]).lock
    /\ Goto(t, "backoff")
    /\ UNCHANGED <<row, tries, query, accesses, local, hist, vers>>

Backoff(t) ==
    /\ pc[t] = "backoff"
    /\ Unlock(Locked(t, local[t].num_locks))
    /\ Set(t, [local[t] EXCEPT !.num_locks = 0, !.i = 0])
    /\ Goto(t, "pre")
    /\ UNCHANGED <<tries, query, accesses, hist, vers>>

\* With all writes locked the commit time moves past leases extended meanwhile.
AllLocked(t) ==
    /\ pc[t] = "lock"
    /\ local[t].num_locks = Len(WriteSet(t))
    /\ Set(t, [local[t] EXCEPT !.i = 0, !.commit_wts =
            MaxOf({@} \cup {Rts(TheWord(t, i)) + 1 : i \in Of(t, "WR")})])
    /\ Goto(t, "reads")
    /\ UNCHANGED <<row, tries, query, accesses, hist, vers>>

-----------------------------------------------------------------------------
(* The read set, and Row_tictoc::try_renew.                                *)

Reading(t) == ReadSet(t)[local[t].i + 1]
NextRead(t) == Set(t, [local[t] EXCEPT !.i = @ + 1])

\* A lease that already reaches the commit time needs no renewal.
LeaseHeld(t) ==
    /\ pc[t] = "reads"
    /\ local[t].i < Len(ReadSet(t))
    /\ accesses[t][Reading(t)].rts >= local[t].commit_wts
    /\ NextRead(t)
    /\ UNCHANGED <<row, pc, tries, query, accesses, hist, vers>>

\* The word try_renew installs: the lease ends at ts; what does not fit into
\* RTS_LEN bits is moved into wts.
Renewed(w, ts) ==
    LET delta == ts - w IN
    [rebase |-> delta >= 2^RTS_LEN,
     word |-> Word(FALSE, w + delta - (delta % 2^RTS_LEN), delta % 2^RTS_LEN)]

\* try_renew up to its compare-and-swap.
RenewRead(t) ==
    /\ pc[t] = "reads"
    /\ local[t].i < Len(ReadSet(t))
    /\ LET a == accesses[t][Reading(t)]
           v == TheWord(t, Reading(t))
           ts == local[t].commit_wts
           n == Renewed(a.wts, ts) IN
       /\ a.rts < ts
       /\ \/ /\ v.wts = a.wts /\ v.delta >= ts - a.wts
             /\ NextRead(t)
             /\ UNCHANGED pc
          \/ /\ v.wts # a.wts \/ (v.lock /\ v.delta < ts - a.wts)
             /\ Goto(t, "abort")
             /\ UNCHANGED local
          \/ /\ v.wts = a.wts /\ v.delta < ts - a.wts /\ ~v.lock
             /\ Set(t, [local[t] EXCEPT !.v = v, !.v2 = n.word, !.rebase = n.rebase])
             /\ Goto(t, "cas")
    /\ UNCHANGED <<row, tries, query, accesses, hist, vers>>

\* The swap succeeds.
RenewSwap(t) ==
    /\ pc[t] = "cas"
    /\ TheWord(t, Reading(t)) = local[t].v
    /\ row' = [row EXCEPT ![accesses[t][Reading(t)].row].word = local[t].v2]
    /\ NextRead(t)
    /\ Goto(t, "reads")
    /\ UNCHANGED <<tries, query, accesses, hist, vers>>

\* The swap fails: give up, find the lease long enough, or try to install the
\* same word over the one just seen.
RenewRetry(t) ==
    /\ pc[t] = "cas"
    /\ LET v == TheWord(t, Reading(t)) IN
       /\ v # local[t].v
       /\ \/ /\ local[t].rebase \/ v.lock \/ v.wts # local[t].v2.wts
             /\ Goto(t, "abort")
             /\ UNCHANGED local
          \/ /\ ~(local[t].rebase \/ v.lock \/ v.wts # local[t].v2.wts)
             /\ local[t].commit_wts < v.delta
             /\ NextRead(t)
             /\ Goto(t, "reads")
          \/ /\ ~(local[t].rebase \/ v.lock \/ v.wts # local[t].v2.wts)
             /\ local[t].commit_wts >= v.delta
             /\ Set(t, [local[t] EXCEPT !.v = v])
             /\ UNCHANGED pc
    /\ UNCHANGED <<row, tries, query, accesses, hist, vers>>

-----------------------------------------------------------------------------
StartInstall(t) ==
    /\ pc[t] = "reads"
    /\ local[t].i = Len(ReadSet(t))
    /\ Set(t, [local[t] EXCEPT !.i = 0])
    /\ Goto(t, "word")
    /\ UNCHANGED <<row, tries, query, accesses, hist, vers>>

Installing(t) == accesses[t][WriteSet(t)[local[t].i + 1]].row

\* Row_tictoc::write_data stores the word first, keeping the lock bit ...
InstallWord(t) ==
    /\ pc[t] = "word"
    /\ local[t].i < Len(WriteSet(t))
    /\ row' = [row EXCEPT ![Installing(t)].word = Word(@.lock, local[t].commit_wts, 0)]
    /\ vers' = [vers EXCEPT ![Installing(t)] = Append(@, Attempt(t))]
    /\ Goto(t, "install1")
    /\ UNCHANGED <<tries, query, accesses, local, hist>>

\* ... and then copies the row.
InstallHalf(t, h) ==
    /\ pc[t] = <<"install1", "install2">>[h]
    /\ row' = [row EXCEPT ![Installing(t)].data[h] = Attempt(t)]
    /\ Goto(t, <<"install2", "release">>[h])
    /\ UNCHANGED <<tries, query, accesses, local, hist, vers>>

ReleaseInstalled(t) ==
    /\ pc[t] = "release"
    /\ Unlock({Installing(t)})
    /\ Set(t, [local[t] EXCEPT !.i = @ + 1])
    /\ Goto(t, "word")
    /\ UNCHANGED <<tries, query, accesses, hist, vers>>

\* cleanup(RCOK): return_row does nothing for this engine.
Commit(t) ==
    /\ pc[t] = "word"
    /\ local[t].i = Len(WriteSet(t))
    /\ Committed(t)
    /\ Set(t, InitialLocal)
    /\ UNCHANGED <<row, tries, vers>>

Abort(t) ==
    /\ pc[t] = "abort"
    /\ Unlock(Locked(t, local[t].num_locks))
    /\ Aborted(t)
    /\ Set(t, InitialLocal)
    /\ UNCHANGED <<tries, vers>>

Step(t) ==
    \/ Begin(t) \/ ReadWord(t) \/ (\E h \in Half : CopyHalf(t, h)) \/ CheckWord(t)
    \/ Validate(t) \/ PreCheck(t) \/ TryLock(t) \/ LockBusy(t) \/ Backoff(t) \/ AllLocked(t)
    \/ LeaseHeld(t) \/ RenewRead(t) \/ RenewSwap(t) \/ RenewRetry(t)
    \/ StartInstall(t) \/ InstallWord(t) \/ (\E h \in Half : InstallHalf(t, h))
    \/ ReleaseInstalled(t) \/ Commit(t) \/ Abort(t)

=============================================================================
