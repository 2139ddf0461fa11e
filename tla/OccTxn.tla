------------------------------- MODULE OccTxn -------------------------------
(***************************************************************************)
(* Transactions under optimistic concurrency control with per-row          *)
(* validation, the default engine of VeriTxn (CC_ALG = OCC, PER_ROW_VALID  *)
(* = true, FULL_TPCC = true).  A worker thread draws a start timestamp     *)
(* from the untrusted Manager, enters the enclave, copies the rows it      *)
(* accesses, sorts its accesses, latches and validates them one by one,    *)
(* draws an end timestamp from the enclave's own ManagerEnc, logs, writes  *)
(* the rows back and releases the latches.                                 *)
(*                                                                         *)
(* Rows are numbered in the order per_row_validate sorts them by (table    *)
(* name, then primary key).  A row's content is one number, and a write    *)
(* adds one to it: in the transaction's copy, as most TPC-C writes do, or  *)
(* straight in the shared row, as YCSB writes and payment's C_DATA do.     *)
(***************************************************************************)
EXTENDS Integers, Sequences, FiniteSets

CONSTANTS
    Thread,       \* worker threads, one transaction manager each
    Row,          \* the rows, numbered in latch order
    Query,        \* the queries a thread may run: sequences of requests
    MaxAttempts,  \* bound: attempts each thread makes
    NoThread      \* the holder of a free latch

ASSUME ThreadAssumption == IsFiniteSet(Thread) /\ NoThread \notin Thread
ASSUME RowAssumption == Row \subseteq Nat
ASSUME AttemptAssumption == MaxAttempts \in Nat

\* What run_txn asks for: a read, a write to the local copy, a write to the
\* shared row (both are WR accesses), or insert_row, which goes to the index.
Request == [row : Row, type : {"RD", "WR", "WR_SHARED", "INS"}]

\* The query generators never ask for a row twice in one query.
AccessedOnce(q) ==
    \A i, j \in 1..Len(q) :
        i < j /\ q[i].type # "INS" /\ q[j].type # "INS" => q[i].row # q[j].row
ASSUME QueryAssumption ==
    Query \subseteq Seq(Request) /\ \A q \in Query : AccessedOnce(q)

VARIABLES
    timestamp,    \* Manager::timestamp, outside the enclave
    timestampEnc, \* ManagerEnc::timestamp, inside the enclave
    data,         \* the stored rows
    wts,          \* Row_occ::wts
    latch,        \* Row_occ::_latch: the thread holding it
    version,      \* BTNode::version of the page that holds the row
    log,          \* the records handed to send_logs
    pc,           \* where each thread is
    attempts,     \* transactions each thread has started
    query,        \* thread_t::m_query
    next,         \* requests of the query already served
    accesses,     \* txn_man::accesses[0 .. row_cnt-1]
    start_ts, end_ts, rc,
    lock_cnt,     \* latches taken by per_row_validate
    rid           \* position of a loop over the accesses

vars == <<timestamp, timestampEnc, data, wts, latch, version, log, pc,
          attempts, query, next, accesses, start_ts, end_ts, rc, lock_cnt, rid>>

\* State that only the running thread touches.
txnVars == <<attempts, query, next, accesses, start_ts, end_ts, rc, lock_cnt, rid>>

InitValue == 1
NewValue(v) == v + 1

Access == [row : Row, type : {"RD", "WR"}, data : Nat, version : Nat, wts : Nat]
LogRecord == [rc : {"RCOK", "Abort"}, ts : Nat, rows : SUBSET Row]

PC == {"idle", "run", "compute", "finish", "validate", "log", "return",
       "release", "stuck"}

Init ==
    /\ timestamp = 1
    /\ timestampEnc = 1
    /\ data = [r \in Row |-> InitValue]
    /\ wts = [r \in Row |-> 0]
    /\ latch = [r \in Row |-> NoThread]
    /\ version = [r \in Row |-> 0]
    /\ log = <<>>
    /\ pc = [t \in Thread |-> "idle"]
    /\ attempts = [t \in Thread |-> 0]
    /\ query = [t \in Thread |-> <<>>]
    /\ next = [t \in Thread |-> 0]
    /\ accesses = [t \in Thread |-> <<>>]
    /\ start_ts = [t \in Thread |-> 0]
    /\ end_ts = [t \in Thread |-> 0]
    /\ rc = [t \in Thread |-> "RCOK"]
    /\ lock_cnt = [t \in Thread |-> 0]
    /\ rid = [t \in Thread |-> 0]

-----------------------------------------------------------------------------
\* Mutant of Begin: start_ts reads the counter without advancing it.
BeginReadsTs(t) ==
    /\ pc[t] = "idle"
    /\ attempts[t] < MaxAttempts
    /\ \E q \in Query : query' = [query EXCEPT ![t] = q]
    /\ start_ts' = [start_ts EXCEPT ![t] = timestamp]
    /\ attempts' = [attempts EXCEPT ![t] = @ + 1]
    /\ next' = [next EXCEPT ![t] = 0]
    /\ accesses' = [accesses EXCEPT ![t] = <<>>]
    /\ lock_cnt' = [lock_cnt EXCEPT ![t] = 0]
    /\ rc' = [rc EXCEPT ![t] = "RCOK"]
    /\ pc' = [pc EXCEPT ![t] = "run"]
    /\ UNCHANGED <<timestamp, timestampEnc, data, wts, latch, version, log, end_ts, rid>>

\* thread_t::run takes a query and a begin_ts (Manager::get_ts, a fetch-and-add
\* on the untrusted counter); run_txn_ecall installs it as start_ts.
Begin(t) ==
    /\ pc[t] = "idle"
    /\ attempts[t] < MaxAttempts
    /\ \E q \in Query : query' = [query EXCEPT ![t] = q]
    /\ start_ts' = [start_ts EXCEPT ![t] = timestamp]
    /\ timestamp' = timestamp + 1
    /\ attempts' = [attempts EXCEPT ![t] = @ + 1]
    /\ next' = [next EXCEPT ![t] = 0]
    /\ accesses' = [accesses EXCEPT ![t] = <<>>]
    /\ lock_cnt' = [lock_cnt EXCEPT ![t] = 0]
    /\ rc' = [rc EXCEPT ![t] = "RCOK"]
    /\ pc' = [pc EXCEPT ![t] = "run"]
    /\ UNCHANGED <<timestampEnc, data, wts, latch, version, log, end_ts, rid>>

\* The request run_txn is about to serve.
HasRequest(t) == pc[t] = "run" /\ next[t] < Len(query[t])
CurrentRequest(t) == query[t][next[t] + 1]

\* Row_occ::access refuses a row written after the transaction started.
AccessAborts(t, r) == start_ts[t] < wts[r]

\* What Row_occ::access copies, with the local computation already applied.
LocalCopy(req) ==
    [row |-> req.row, type |-> IF req.type = "RD" THEN "RD" ELSE "WR",
     data |-> IF req.type = "WR" THEN NewValue(data[req.row]) ELSE data[req.row],
     version |-> version[req.row], wts |-> wts[req.row]]

\* Mutant of GetRow: Row_occ::access copies the row without its latch.
GetRowUnlatched(t) ==
    /\ HasRequest(t)
    /\ CurrentRequest(t).type # "INS"
    /\ LET req == CurrentRequest(t) IN
        /\ ~AccessAborts(t, req.row)
        /\ accesses' = [accesses EXCEPT ![t] = Append(@, LocalCopy(req))]
        /\ IF req.type = "WR_SHARED"
           THEN pc' = [pc EXCEPT ![t] = "compute"] /\ UNCHANGED next
           ELSE next' = [next EXCEPT ![t] = @ + 1] /\ UNCHANGED pc
    /\ UNCHANGED <<timestamp, timestampEnc, data, wts, latch, version, log,
                   attempts, query, start_ts, end_ts, rc, lock_cnt, rid>>

\* txn_man::get_row, row granted: the copy is made under the row's latch.
GetRow(t) ==
    /\ HasRequest(t)
    /\ CurrentRequest(t).type # "INS"
    /\ LET req == CurrentRequest(t) IN
        /\ latch[req.row] = NoThread
        /\ ~AccessAborts(t, req.row)
        /\ accesses' = [accesses EXCEPT ![t] = Append(@, LocalCopy(req))]
        /\ IF req.type = "WR_SHARED"
           THEN pc' = [pc EXCEPT ![t] = "compute"] /\ UNCHANGED next
           ELSE next' = [next EXCEPT ![t] = @ + 1] /\ UNCHANGED pc
    /\ UNCHANGED <<timestamp, timestampEnc, data, wts, latch, version, log,
                   attempts, query, start_ts, end_ts, rc, lock_cnt, rid>>

\* index_read misses the key: find_leaf takes no latch, and another thread's
\* index_insert into the page may be splitting it.
IndexMiss(t, r) ==
    \E u \in Thread \ {t} :
        HasRequest(u) /\ CurrentRequest(u) = [row |-> r, type |-> "INS"]

\* The row is not found by index_read or refused by get_row: run_txn ends in
\* finish(Abort).  The item 0x1, for which it returns ERROR, comes from the hash
\* index only, when a page fails its verification; the pages here are those of
\* the B-tree, and ErrorTxn of module Worker has what an ERROR does.
GetRowAbort(t) ==
    /\ HasRequest(t)
    /\ CurrentRequest(t).type # "INS"
    /\ LET r == CurrentRequest(t).row IN
        IndexMiss(t, r) \/ (latch[r] = NoThread /\ AccessAborts(t, r))
    /\ rc' = [rc EXCEPT ![t] = "Abort"]
    /\ pc' = [pc EXCEPT ![t] = "finish"]
    /\ UNCHANGED <<timestamp, timestampEnc, data, wts, latch, version, log,
                   attempts, query, next, accesses, start_ts, end_ts, lock_cnt, rid>>

\* ycsb_txn_man::run_txn writes the shared row, under no latch.
WriteRowInPlace(t) ==
    /\ pc[t] = "compute"
    /\ data' = [data EXCEPT ![CurrentRequest(t).row] = NewValue(@)]
    /\ next' = [next EXCEPT ![t] = @ + 1]
    /\ pc' = [pc EXCEPT ![t] = "run"]
    /\ UNCHANGED <<timestamp, timestampEnc, wts, latch, version, log, attempts,
                   query, accesses, start_ts, end_ts, rc, lock_cnt, rid>>

\* txn_man::insert_row under IDX_BTREE and FULL_TPCC: index_insert stamps the
\* page at once; nothing is kept in the transaction.
InsertRow(t) ==
    /\ HasRequest(t)
    /\ CurrentRequest(t).type = "INS"
    /\ version' = [version EXCEPT ![CurrentRequest(t).row] = @ + 1]
    /\ next' = [next EXCEPT ![t] = @ + 1]
    /\ UNCHANGED <<timestamp, timestampEnc, data, wts, latch, log, pc, attempts,
                   query, accesses, start_ts, end_ts, rc, lock_cnt, rid>>

\* run_txn served every request: finish(RCOK).
EndOfQuery(t) ==
    /\ pc[t] = "run"
    /\ next[t] = Len(query[t])
    /\ pc' = [pc EXCEPT ![t] = "finish"]
    /\ UNCHANGED <<timestamp, timestampEnc, data, wts, latch, version, log, txnVars>>

-----------------------------------------------------------------------------
\* A page the transaction read has been stamped by an insert since.
PageChanged(t) ==
    \E i \in 1..Len(accesses[t]) :
        accesses[t][i].version # version[accesses[t][i].row]

\* Mutant of Sortings: the accesses stay in request order.
Unsorted(s) == {[i \in 1..Len(s) |-> i]}

\* The rearrangements the bubble sort in per_row_validate may produce: those
\* that put the accesses in key order.
Sortings(s) ==
    {p \in [1..Len(s) -> 1..Len(s)] :
        /\ \A i, j \in 1..Len(s) : p[i] = p[j] => i = j
        /\ \A i, j \in 1..Len(s) : i < j => s[p[i]].row <= s[p[j]].row}

Rearrange(s, p) == [i \in 1..Len(s) |-> s[p[i]]]

\* finish(Abort) of a transaction whose get_row was refused: cleanup only.
FinishAbort(t) ==
    /\ pc[t] = "finish" /\ rc[t] = "Abort"
    /\ ~PageChanged(t)
    /\ pc' = [pc EXCEPT ![t] = "log"]
    /\ UNCHANGED <<timestamp, timestampEnc, data, wts, latch, version, log, txnVars>>

\* finish(RCOK): per_row_validate first sorts the accesses.
FinishValidate(t) ==
    /\ pc[t] = "finish" /\ rc[t] = "RCOK"
    /\ ~PageChanged(t)
    /\ \E p \in Sortings(accesses[t]) :
        accesses' = [accesses EXCEPT ![t] = Rearrange(@, p)]
    /\ pc' = [pc EXCEPT ![t] = "validate"]
    /\ UNCHANGED <<timestamp, timestampEnc, data, wts, latch, version, log,
                   attempts, query, next, start_ts, end_ts, rc, lock_cnt, rid>>

\* A changed page: finish calls finish(Abort), which finds the same page
\* changed and calls itself again, and never returns.
FinishPageChanged(t) ==
    /\ pc[t] = "finish"
    /\ PageChanged(t)
    /\ pc' = [pc EXCEPT ![t] = "stuck"]
    /\ UNCHANGED <<timestamp, timestampEnc, data, wts, latch, version, log, txnVars>>

-----------------------------------------------------------------------------
\* Mutant of LatchAndValidate: an access that fails is not counted.
LatchCountedLate(t) ==
    /\ pc[t] = "validate"
    /\ lock_cnt[t] < Len(accesses[t])
    /\ LET r == accesses[t][lock_cnt[t] + 1].row IN
        /\ latch[r] = NoThread
        /\ latch' = [latch EXCEPT ![r] = t]
        /\ IF start_ts[t] < wts[r]
           THEN /\ rc' = [rc EXCEPT ![t] = "Abort"]
                /\ pc' = [pc EXCEPT ![t] = "log"]
                /\ UNCHANGED lock_cnt
           ELSE /\ lock_cnt' = [lock_cnt EXCEPT ![t] = @ + 1]
                /\ UNCHANGED <<rc, pc>>
    /\ UNCHANGED <<timestamp, timestampEnc, data, wts, version, log, attempts,
                   query, next, accesses, start_ts, end_ts, rid>>

\* Mutant of LatchAndValidate: rows are validated without being latched.
ValidateUnlatched(t) ==
    /\ pc[t] = "validate"
    /\ lock_cnt[t] < Len(accesses[t])
    /\ IF start_ts[t] < wts[accesses[t][lock_cnt[t] + 1].row]
       THEN /\ rc' = [rc EXCEPT ![t] = "Abort"]
            /\ pc' = [pc EXCEPT ![t] = "log"]
       ELSE UNCHANGED <<rc, pc>>
    /\ lock_cnt' = [lock_cnt EXCEPT ![t] = @ + 1]
    /\ UNCHANGED <<timestamp, timestampEnc, data, wts, latch, version, log, attempts,
                   query, next, accesses, start_ts, end_ts, rid>>

\* One round of the validation loop: latch the next row, then compare its wts
\* with start_ts.  The first failure ends the loop with the latch held.
LatchAndValidate(t) ==
    /\ pc[t] = "validate"
    /\ lock_cnt[t] < Len(accesses[t])
    /\ LET r == accesses[t][lock_cnt[t] + 1].row IN
        /\ latch[r] = NoThread
        /\ latch' = [latch EXCEPT ![r] = t]
        /\ IF start_ts[t] < wts[r]
           THEN /\ rc' = [rc EXCEPT ![t] = "Abort"]
                /\ pc' = [pc EXCEPT ![t] = "log"]
           ELSE UNCHANGED <<rc, pc>>
    /\ lock_cnt' = [lock_cnt EXCEPT ![t] = @ + 1]
    /\ UNCHANGED <<timestamp, timestampEnc, data, wts, version, log, attempts,
                   query, next, accesses, start_ts, end_ts, rid>>

\* Every row is latched and valid: end_ts comes from ManagerEnc::get_ts, a
\* fetch-and-add on the enclave's counter.
GetEndTs(t) ==
    /\ pc[t] = "validate"
    /\ lock_cnt[t] = Len(accesses[t])
    /\ end_ts' = [end_ts EXCEPT ![t] = timestampEnc]
    /\ timestampEnc' = timestampEnc + 1
    /\ pc' = [pc EXCEPT ![t] = "log"]
    /\ UNCHANGED <<timestamp, data, wts, latch, version, log, attempts, query,
                   next, accesses, start_ts, rc, lock_cnt, rid>>

\* The rows a transaction's log record names: its WR accesses.
WriteSet(t) ==
    {accesses[t][i].row : i \in {j \in 1..Len(accesses[t]) : accesses[t][j].type = "WR"}}

\* cleanup, first part: create_log_entry and send_logs, for commit and abort.
\* The record carries no outcome; rc and ts are kept to state properties.
WriteLog(t) ==
    /\ pc[t] = "log"
    /\ log' = Append(log, [rc |-> rc[t], ts |-> end_ts[t], rows |-> WriteSet(t)])
    /\ rid' = [rid EXCEPT ![t] = Len(accesses[t])]
    /\ pc' = [pc EXCEPT ![t] = "return"]
    /\ UNCHANGED <<timestamp, timestampEnc, data, wts, latch, version, attempts,
                   query, next, accesses, start_ts, end_ts, rc, lock_cnt>>

\* cleanup, second part: return_row for the accesses, last to first.  An aborted
\* WR is returned as XP, which leaves the row alone.  Row_occ::write installs the
\* copy and asserts that end_ts exceeds the row's wts.
ReturnRow(t) ==
    /\ pc[t] = "return"
    /\ rid[t] > 0
    /\ LET a == accesses[t][rid[t]] IN
        IF a.type = "WR" /\ rc[t] = "RCOK"
        THEN /\ data' = [data EXCEPT ![a.row] = a.data]
             /\ wts' = [wts EXCEPT ![a.row] = end_ts[t]]
        ELSE UNCHANGED <<data, wts>>
    /\ rid' = [rid EXCEPT ![t] = @ - 1]
    /\ UNCHANGED <<timestamp, timestampEnc, latch, version, log, pc, attempts,
                   query, next, accesses, start_ts, end_ts, rc, lock_cnt>>

\* cleanup returns to per_row_validate, whose last loop releases the latches.
EndCleanup(t) ==
    /\ pc[t] = "return"
    /\ rid[t] = 0
    /\ pc' = [pc EXCEPT ![t] = "release"]
    /\ UNCHANGED <<timestamp, timestampEnc, data, wts, latch, version, log, txnVars>>

\* The last loop of per_row_validate: manager->release() on each latched access.
ReleaseLatch(t) ==
    /\ pc[t] = "release"
    /\ rid[t] < lock_cnt[t]
    /\ latch' = [latch EXCEPT ![accesses[t][rid[t] + 1].row] = NoThread]
    /\ rid' = [rid EXCEPT ![t] = @ + 1]
    /\ UNCHANGED <<timestamp, timestampEnc, data, wts, version, log, pc, attempts,
                   query, next, accesses, start_ts, end_ts, rc, lock_cnt>>

\* run_txn_ecall returns rc to thread_t::run.
EndTxn(t) ==
    /\ pc[t] = "release"
    /\ rid[t] = lock_cnt[t]
    /\ pc' = [pc EXCEPT ![t] = "idle"]
    /\ accesses' = [accesses EXCEPT ![t] = <<>>]
    /\ lock_cnt' = [lock_cnt EXCEPT ![t] = 0]
    /\ rid' = [rid EXCEPT ![t] = 0]
    /\ UNCHANGED <<timestamp, timestampEnc, data, wts, latch, version, log,
                   attempts, query, next, start_ts, end_ts, rc>>

-----------------------------------------------------------------------------
Step(t) ==
    \/ Begin(t) \/ GetRow(t) \/ GetRowAbort(t) \/ WriteRowInPlace(t)
    \/ InsertRow(t) \/ EndOfQuery(t)
    \/ FinishAbort(t) \/ FinishValidate(t) \/ FinishPageChanged(t)
    \/ LatchAndValidate(t) \/ GetEndTs(t) \/ WriteLog(t) \/ ReturnRow(t)
    \/ EndCleanup(t) \/ ReleaseLatch(t) \/ EndTxn(t)

\* Every thread has made its attempts or is lost in finish.
Terminated ==
    /\ \A t \in Thread : pc[t] = "stuck" \/ (pc[t] = "idle" /\ attempts[t] = MaxAttempts)
    /\ UNCHANGED vars

Next == (\E t \in Thread : Step(t)) \/ Terminated

\* A runnable thread runs.  Latches are held for a bounded number of the
\* holder's own steps, and with bounded attempts no thread can be overtaken on
\* a latch for ever, so weak fairness is all that is assumed.
Fairness == \A t \in Thread : WF_vars(Step(t))

Spec == Init /\ [][Next]_vars
FairSpec == Spec /\ Fairness

-----------------------------------------------------------------------------
(***************************************************************************)
(* Properties.                                                             *)
(***************************************************************************)

\* The types of the engine's state.
TypeOK ==
    /\ timestamp \in Nat /\ timestampEnc \in Nat
    /\ data \in [Row -> Nat] /\ wts \in [Row -> Nat]
    /\ latch \in [Row -> Thread \cup {NoThread}]
    /\ version \in [Row -> Nat]
    /\ log \in Seq(LogRecord)
    /\ pc \in [Thread -> PC]
    /\ attempts \in [Thread -> Nat]
    /\ query \in [Thread -> Query \cup {<<>>}]
    /\ next \in [Thread -> Nat]
    /\ accesses \in [Thread -> Seq(Access)]
    /\ start_ts \in [Thread -> Nat] /\ end_ts \in [Thread -> Nat]
    /\ rc \in [Thread -> {"RCOK", "Abort"}]
    /\ lock_cnt \in [Thread -> Nat] /\ rid \in [Thread -> Nat]

Held(t) == {r \in Row : latch[r] = t}
RowOf(t, i) == accesses[t][i].row

\* Accesses whose latch the thread should hold: the validated prefix, less
\* what the release loop has given back.
LatchedAccesses(t) ==
    IF pc[t] = "release" THEN (rid[t] + 1)..lock_cnt[t]
    ELSE IF pc[t] \in {"validate", "log", "return"} THEN 1..lock_cnt[t]
    ELSE {}

\* per_row_validate holds exactly the latches of the prefix it has visited, so
\* no path leaves a latch behind or gives back one it does not hold.
LatchesMatchPrefix ==
    \A t \in Thread : Held(t) = {RowOf(t, i) : i \in LatchedAccesses(t)}

\* A thread about to block on a latch holds only smaller rows: the sorted
\* acquisition order that keeps concurrent validations from deadlocking.
LatchOrder ==
    \A t \in Thread :
        pc[t] = "validate" /\ lock_cnt[t] < Len(accesses[t]) =>
            \A r \in Held(t) : r < RowOf(t, lock_cnt[t] + 1)

\* A committed write that is about to be installed.
Installing(t) ==
    /\ pc[t] = "return" /\ rid[t] > 0 /\ rc[t] = "RCOK"
    /\ accesses[t][rid[t]].type = "WR"

\* The assertion in Row_occ::write: end_ts exceeds the row's wts.  It rests on
\* end_ts being drawn while every latch of the transaction is held.
WriteAdvancesWts ==
    \A t \in Thread : Installing(t) => end_ts[t] > wts[RowOf(t, rid[t])]

\* No copy is taken of a row that a commit has written back while that commit
\* still has rows to write: the latches make its rows change at once for
\* Row_occ::access.
NoDirtyRead ==
    \A c \in Thread : pc[c] = "return" /\ rc[c] = "RCOK" =>
        \A t \in Thread \ {c} : \A i \in 1..Len(accesses[t]) :
            accesses[t][i].wts # end_ts[c]

\* No attempt that starts now is refused because of what is stored now, so a
\* retry is never doomed: wts comes from the enclave's counter, which cannot
\* overtake the untrusted counter start_ts comes from.
RetryNotDoomed == \A r \in Row : wts[r] < timestamp

\* Records of commits that wrote a common row are logged in end_ts order.
LogInCommitOrder ==
    \A i, j \in 1..Len(log) :
        i < j /\ log[i].rc = "RCOK" /\ log[j].rc = "RCOK"
            /\ log[i].rows \cap log[j].rows # {} => log[i].ts < log[j].ts

\* A row's wts never moves back.
WtsMonotonic == [][\A r \in Row : wts'[r] >= wts[r]]_wts

\* Every attempt ends, committed or aborted, unless one of its pages was
\* stamped by an insert: validation cannot deadlock.
AttemptEnds ==
    \A t \in Thread : pc[t] = "run" ~> pc[t] \in {"idle", "stuck"}

\* Commits of a row, as the log records them.
Commits(r) == Cardinality({i \in 1..Len(log) : log[i].rc = "RCOK" /\ r \in log[i].rows})

\* Once no transaction is active, every row holds the effect of each committed
\* write to it, and of nothing else.
NoLostUpdate ==
    (\A t \in Thread : pc[t] \in {"idle", "stuck"}) =>
        \A r \in Row : data[r] = InitValue + Commits(r)

====
