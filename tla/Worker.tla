------------------------------- MODULE Worker -------------------------------
(***************************************************************************)
(* The worker threads of an H-Store build: run() takes a query, a new one  *)
(* or one of the abort buffer, draws a timestamp and calls run_txn_ecall,  *)
(* which locks the query's partitions (module PartLock), runs it and       *)
(* unlocks them; an aborted query goes to the abort buffer until its       *)
(* penalty is over.  Time is the step Elapse; a query is its number.       *)
(***************************************************************************)
EXTENDS PartLock

CONSTANTS
    Parts,        \* for each thread the choices of part_to_access, its own partition first
    BufferSize,   \* ABORT_BUFFER_SIZE
    Buffered,     \* abort_buffer_enable
    MaxTxn,       \* MAX_TXN_PER_PART
    BatchAlloc, BatchNum,   \* g_ts_batch_alloc, g_ts_batch_num
    MaxTs,        \* bound: timestamps drawn
    Nil

ASSUME WorkerAssumption ==
    /\ BufferSize \in Nat \ {0} /\ MaxTxn \in Nat \ {0} /\ BatchNum \in Nat \ {0}
    /\ Buffered \in BOOLEAN /\ BatchAlloc \in BOOLEAN
    /\ \A t \in Thread : \A s \in Parts[t] : s \in Seq(Part) /\ IsInjective(s) /\ s # <<>>
    /\ Nil \notin Nat \cup [query : Nat, ready : BOOLEAN]

VARIABLES
    pc,
    q_idx,       \* queries a thread has taken from its array
    parts,       \* the partitions of those queries
    m_query,     \* the query it runs, or Nil
    buffer,      \* _abort_buffer: Nil or [query, ready]
    slots,       \* _abort_buffer_empty_slots
    curr_ts,     \* _curr_ts
    timestamp,   \* *timestamp of the Manager
    txn_cnt,
    sim_done,
    k, fail      \* the partition a lock or unlock loop has come to, and the refused one

loopVars == <<q_idx, parts, m_query, buffer, slots, txn_cnt, sim_done>>
tsVars == <<ts, curr_ts, timestamp>>
vars == <<partVars, tsVars, loopVars, pc, k, fail>>

Init ==
    /\ PartInit
    /\ pc = [t \in Thread |-> "gen"] /\ q_idx = [t \in Thread |-> 0]
    /\ parts = [t \in Thread |-> <<>>] /\ m_query = [t \in Thread |-> Nil]
    /\ buffer = [t \in Thread |-> [i \in 1..BufferSize |-> Nil]]
    /\ slots = [t \in Thread |-> BufferSize]
    /\ curr_ts = [t \in Thread |-> 0] /\ timestamp = 1
    /\ txn_cnt = [t \in Thread |-> 0] /\ sim_done = FALSE /\ k = [t \in Thread |-> 0]
    /\ fail = [t \in Thread |-> 0]

Goto(t, l) == pc' = [pc EXCEPT ![t] = l]
PartsOf(t) == parts[t][m_query[t]]

-----------------------------------------------------------------------------
(* generate_txn_for_run and get_next_ts.                                   *)

ReadySlots(t) == {i \in 1..BufferSize : buffer[t][i] # Nil /\ buffer[t][i].ready}
FirstReady(t) == CHOOSE i \in ReadySlots(t) : \A j \in ReadySlots(t) : i <= j

\* The penalty of an aborted query is over.
Elapse(t) ==
    /\ \E i \in 1..BufferSize :
          /\ buffer[t][i] # Nil /\ ~buffer[t][i].ready
          /\ buffer' = [buffer EXCEPT ![t][i].ready = TRUE]
    /\ UNCHANGED <<partVars, tsVars, q_idx, parts, m_query, slots, txn_cnt, sim_done, pc, k, fail>>

\* Mutant of TakeAborted: the slot is not counted as free again.
TakeAbortedLeak(t) ==
    /\ ReadySlots(t) # {}
    /\ m_query' = [m_query EXCEPT ![t] = buffer[t][FirstReady(t)].query]
    /\ buffer' = [buffer EXCEPT ![t][FirstReady(t)] = Nil]
    /\ UNCHANGED <<slots, q_idx, parts>>

\* An aborted query that may run again comes first, ...
TakeAborted(t) ==
    /\ ReadySlots(t) # {}
    /\ m_query' = [m_query EXCEPT ![t] = buffer[t][FirstReady(t)].query]
    /\ buffer' = [buffer EXCEPT ![t][FirstReady(t)] = Nil]
    /\ slots' = [slots EXCEPT ![t] = @ + 1]
    /\ UNCHANGED <<q_idx, parts>>

\* ... a new one is taken only with a free slot for it; otherwise the thread
\* sleeps until a penalty is over.
TakeNew(t) ==
    /\ Buffered => ReadySlots(t) = {} /\ slots[t] > 0
    /\ q_idx' = [q_idx EXCEPT ![t] = @ + 1]
    /\ m_query' = [m_query EXCEPT ![t] = q_idx[t] + 1]
    /\ \E s \in Parts[t] : parts' = [parts EXCEPT ![t] = Append(@, s)]
    /\ UNCHANGED <<buffer, slots>>

GenerateTxn(t) ==
    /\ pc[t] = "gen" /\ Goto(t, "ts")
    /\ (Buffered /\ TakeAborted(t)) \/ TakeNew(t)
    /\ UNCHANGED <<partVars, tsVars, txn_cnt, sim_done, k, fail>>

\* A thread draws a batch when the one it has is used up.
BatchTs(t) == [curr |-> timestamp + 1, ts |-> timestamp, next |-> timestamp + BatchNum]
NextTs(t) ==
    IF ~BatchAlloc THEN [curr |-> timestamp, ts |-> timestamp, next |-> timestamp + 1]
    ELSE IF curr_ts[t] % BatchNum = 0 THEN BatchTs(t)
    ELSE [curr |-> curr_ts[t] + 1, ts |-> curr_ts[t], next |-> timestamp]

GetNextTs(t) ==
    /\ pc[t] = "ts" /\ NextTs(t).ts <= MaxTs /\ Goto(t, "lock")
    /\ curr_ts' = [curr_ts EXCEPT ![t] = NextTs(t).curr]
    /\ ts' = [ts EXCEPT ![t] = NextTs(t).ts] /\ timestamp' = NextTs(t).next
    /\ k' = [k EXCEPT ![t] = 1]
    /\ UNCHANGED <<partVars, loopVars, fail>>

-----------------------------------------------------------------------------
(* run_txn_ecall: Plock::lock, run_txn, Plock::unlock.                     *)

LockPart(t) ==
    LET p == PartsOf(t)[k[t]]
        Advance == /\ k' = [k EXCEPT ![t] = @ + 1] /\ UNCHANGED fail
                   /\ Goto(t, IF k[t] = Len(PartsOf(t)) THEN "wait" ELSE "lock")
    IN
    /\ pc[t] = "lock"
    /\ \/ Granted(t, p) /\ Advance
       \/ Queued(t, p) /\ Advance
       \/ Refused(t, p) /\ Goto(t, "back") /\ fail' = [fail EXCEPT ![t] = k[t]] /\ k' = [k EXCEPT ![t] = 1]
    /\ UNCHANGED <<tsVars, loopVars>>

\* Mutant of UnlockBack: the partitions before the refused one are kept.
UnlockNone(t) ==
    /\ pc[t] = "back" /\ Goto(t, "abort")
    /\ UNCHANGED <<partVars, tsVars, loopVars, k, fail>>

\* On a refusal the partitions before it are unlocked, and lock returns Abort.
UnlockBack(t) ==
    /\ pc[t] = "back"
    /\ \/ k[t] < fail[t] /\ Unlock(t, PartsOf(t)[k[t]]) /\ k' = [k EXCEPT ![t] = @ + 1] /\ UNCHANGED pc
       \/ k[t] = fail[t] /\ Goto(t, "abort") /\ UNCHANGED <<partVars, k>>
    /\ UNCHANGED <<tsVars, loopVars, fail>>

\* Mutant of WaitReady: run_txn does not wait for the partitions.
RunAtOnce(t) ==
    /\ pc[t] = "wait" /\ Goto(t, "run")
    /\ UNCHANGED <<partVars, tsVars, loopVars, k, fail>>

WaitReady(t) ==
    /\ pc[t] = "wait" /\ ready[t] = 0 /\ Goto(t, "run")
    /\ UNCHANGED <<partVars, tsVars, loopVars, k, fail>>

\* The rows are read and written in place.
RunTxn(t) ==
    /\ pc[t] = "run" /\ Goto(t, "unlock") /\ k' = [k EXCEPT ![t] = 1]
    /\ UNCHANGED <<partVars, tsVars, loopVars, fail>>

UnlockPart(t) ==
    /\ pc[t] = "unlock" /\ Unlock(t, PartsOf(t)[k[t]])
    /\ k' = [k EXCEPT ![t] = @ + 1]
    /\ Goto(t, IF k[t] = Len(PartsOf(t)) THEN "commit" ELSE "unlock")
    /\ UNCHANGED <<tsVars, loopVars, fail>>

-----------------------------------------------------------------------------
(* The rest of run().                                                      *)

\* The first free slot takes the query; without the buffer it is dropped.
FreeSlot(t) == CHOOSE i \in 1..BufferSize : buffer[t][i] = Nil /\ \A j \in 1..i - 1 : buffer[t][j] # Nil
AbortTxn(t) ==
    /\ pc[t] = "abort" /\ Goto(t, IF sim_done THEN "finished" ELSE "gen")
    /\ IF Buffered
       THEN /\ buffer' = [buffer EXCEPT ![t][FreeSlot(t)] = [query |-> m_query[t], ready |-> FALSE]]
            /\ slots' = [slots EXCEPT ![t] = @ - 1]
       ELSE UNCHANGED <<buffer, slots>>
    /\ m_query' = [m_query EXCEPT ![t] = Nil]
    /\ UNCHANGED <<partVars, tsVars, q_idx, parts, txn_cnt, sim_done, k, fail>>

\* With the hash index run_txn may return ERROR (a page found tampered with): the
\* thread returns, its query is not run again, and sim_done stays as it is.
ErrorTxn(t) ==
    /\ pc[t] = "commit" /\ Goto(t, "finished")
    /\ UNCHANGED <<partVars, tsVars, loopVars, k, fail>>

\* The thread that has done its share ends the run for all.
CommitTxn(t) ==
    /\ pc[t] = "commit"
    /\ txn_cnt' = [txn_cnt EXCEPT ![t] = @ + 1]
    /\ sim_done' = (sim_done \/ txn_cnt[t] + 1 >= MaxTxn)
    /\ Goto(t, IF sim_done' THEN "finished" ELSE "gen")
    /\ m_query' = [m_query EXCEPT ![t] = Nil]
    /\ UNCHANGED <<partVars, tsVars, q_idx, parts, buffer, slots, k, fail>>

Terminating ==
    /\ \A t \in Thread : pc[t] = "finished" \/ (pc[t] = "ts" /\ NextTs(t).ts > MaxTs)
    /\ UNCHANGED vars

Step(t) ==
    \/ GenerateTxn(t) \/ GetNextTs(t) \/ LockPart(t) \/ UnlockBack(t) \/ WaitReady(t)
    \/ RunTxn(t) \/ UnlockPart(t) \/ AbortTxn(t) \/ ErrorTxn(t) \/ CommitTxn(t)
Next == (\E t \in Thread : Step(t) \/ Elapse(t)) \/ Terminating
Spec == Init /\ [][Next]_vars
\* Threads keep running, and time passes.
FairSpec == Spec /\ \A t \in Thread : WF_vars(Step(t)) /\ WF_vars(Elapse(t))

-----------------------------------------------------------------------------
(* Properties.                                                             *)

\* A transaction runs only while it owns all its partitions, so no two that
\* share one run together; and the counter it waits on is the number of queues
\* it is in, whoever dequeues it meanwhile.
PartitionsOwned ==
    \A t \in Thread :
        /\ pc[t] = "run" => \A i \in DOMAIN PartsOf(t) : owner[PartsOf(t)[i]] = t
        /\ ready[t] = Cardinality({p \in Part : Contains(waiters[p], t)})

\* No query is lost or run twice: what a thread has taken is committed, in the
\* buffer or running (or the one that ended its thread), the free slots are
\* counted right, an abort always finds one, and the array that init filled is not
\* overrun.
QueriesKept ==
    Buffered =>
        \A t \in Thread :
            LET kept == {i \in 1..BufferSize : buffer[t][i] # Nil} IN
            /\ q_idx[t] = txn_cnt[t] + Cardinality(kept) + (IF m_query[t] = Nil THEN 0 ELSE 1)
            /\ slots[t] = BufferSize - Cardinality(kept)
            /\ pc[t] = "abort" => slots[t] > 0
            /\ q_idx[t] <= MaxTxn + BufferSize

\* Every attempt ends: a transaction that is queued for several partitions at
\* once gets them all, or is refused one.
AttemptEnds == \A t \in Thread : pc[t] = "lock" ~> pc[t] \in {"commit", "abort"}

=============================================================================
