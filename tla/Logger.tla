------------------------------- MODULE Logger -------------------------------
(***************************************************************************)
(* The redo log outside the enclave.  Workers append records to a ring     *)
(* buffer (Logger::logTxn) and hand each one to the remote storage's batch *)
(* (RemoteStorage::send_log); the log thread flushes the ring to disk      *)
(* (Logger::tryFlush).  Nothing is locked but the batch: the log thread    *)
(* infers which bytes are complete from the workers' _allocate_lsn and     *)
(* _filled_lsn.                                                            *)
(*                                                                         *)
(* Every access to a shared counter is a step of its own.  Positions are   *)
(* counted in units of which Align make the 64 bytes records are aligned   *)
(* to; a byte of a record is the worker that wrote it and its position.    *)
(* Bytes that have been flushed are forgotten: the ring keeps them, but    *)
(* nothing may read them again.                                            *)
(***************************************************************************)
EXTENDS Integers

CONSTANTS
    N,               \* g_thread_cnt: workers, numbered in scan order
    Sizes,           \* the record sizes create_log_entry produces
    MaxEntry,        \* g_max_log_entry_size
    Align,           \* the 64 of logTxn
    Round,           \* the 512 of tryFlush
    Block,           \* g_flush_blocksize
    BufferSize,      \* _log_buffer_size
    LOG_BATCH_SIZE,
    MaxRecords,      \* bound: records logged by all workers
    UINT64_MAX       \* (uint64_t) -1, above every position reached

ASSUME WorkerAssumption == N \in Nat \ {0} /\ MaxRecords \in Nat
ASSUME SizeAssumption ==
    /\ Align \in Nat \ {0} /\ MaxEntry \in Nat /\ MaxEntry % Align = 0
    /\ Sizes \subseteq 1..(MaxEntry - 1)
ASSUME FlushAssumption ==
    /\ Round \in Nat \ {0} /\ Block \in Nat \ {0} /\ BufferSize \in Nat
    /\ Round % Align = 0 /\ Block % Round = 0 /\ BufferSize % Round = 0
    /\ N * MaxEntry + Block < BufferSize
ASSUME BatchAssumption == LOG_BATCH_SIZE \in Nat \ {0}
ASSUME MaxAssumption == UINT64_MAX \in Nat /\ UINT64_MAX >= MaxRecords * MaxEntry

Thread == 1..N

VARIABLES
    lsn_,           \* *_lsn, the log's tail
    persistent_lsn, \* *_persistent_lsn
    filled_lsn,     \* *_filled_lsn[thd]
    allocate_lsn,   \* *_allocate_lsn[thd]
    buffer,         \* the ring
    chunk,          \* the bytes flush has just written to _fd_data
    meta,           \* the last chunk boundary written to _fd
    batch_num,      \* entries packed in RemoteStorage::log_buffer
    sent,           \* entries written to the storage server
    started,        \* records begun so far, by any worker
    pc,             \* where each worker is in logTxn
    rec,            \* the record each worker is logging
    loaded,         \* the value a worker last loaded from *_lsn
    records,        \* the records that have a position and are not flushed
    fpc,            \* where the log thread is in tryFlush
    ready, scan, filledLSN, end  \* tryFlush's local variables

tailVars == <<lsn_, persistent_lsn, filled_lsn, allocate_lsn>>
flushVars == <<fpc, ready, scan, filledLSN, end>>
remoteVars == <<batch_num, sent>>
vars == <<tailVars, buffer, chunk, meta, remoteVars, started, pc, rec, loaded,
          records, flushVars>>

NoByte == <<0, 0>>
Byte == Thread \X Nat \cup {NoByte}
Record == [thd : Thread, size : Sizes \cup {0}, lsn : Nat]

PC == {"idle", "check", "space", "mark", "allocate", "fetch", "add",
       "store", "copy", "send", "fill"}

Init ==
    /\ lsn_ = 0 /\ persistent_lsn = 0
    /\ filled_lsn = [t \in Thread |-> 0]
    /\ allocate_lsn = [t \in Thread |-> UINT64_MAX]
    /\ buffer = [i \in 0..(BufferSize - 1) |-> NoByte]
    /\ chunk = <<>> /\ meta = 0
    /\ batch_num = 0 /\ sent = 0 /\ started = 0
    /\ pc = [t \in Thread |-> "idle"]
    /\ rec = [t \in Thread |-> [thd |-> t, size |-> 0, lsn |-> 0]]
    /\ loaded = [t \in Thread |-> 0]
    /\ records = {}
    /\ fpc = "tail" /\ ready = 0 /\ scan = 1 /\ filledLSN = 0 /\ end = 0

-----------------------------------------------------------------------------
(***************************************************************************)
(* The worker: serialLogTxn and logTxn.                                    *)
(***************************************************************************)

\* Sizes are rounded up to a multiple of Align.
Aligned(size) == IF size % Align = 0 THEN size ELSE size + Align - (size % Align)

Goto(t, label) == pc' = [pc EXCEPT ![t] = label]

\* The value loaded from *_lsn is dead after its use.
Forget(t) == loaded' = [loaded EXCEPT ![t] = 0]

\* cleanup calls send_logs: serialLogTxn begins a record and logTxn loads *_lsn
\* to check the space.
StartRecord(t) ==
    /\ pc[t] = "idle"
    /\ started < MaxRecords
    /\ started' = started + 1
    /\ \E s \in Sizes : rec' = [rec EXCEPT ![t].size = s]
    /\ loaded' = [loaded EXCEPT ![t] = lsn_]
    /\ Goto(t, "space")
    /\ UNCHANGED <<tailVars, buffer, chunk, meta, remoteVars, records, flushVars>>

\* A worker loads *_lsn: for the space check when it tries again, for
\* _allocate_lsn, and for the addition when it is not atomic.
LoadLsn(t, from, to) ==
    /\ pc[t] = from
    /\ loaded' = [loaded EXCEPT ![t] = lsn_]
    /\ Goto(t, to)
    /\ UNCHANGED <<tailVars, buffer, chunk, meta, remoteVars, rec, records, started, flushVars>>

LoadAgain(t) == LoadLsn(t, "check", "space")
LoadForMark(t) == LoadLsn(t, "mark", "allocate")
LoadForAdd(t) == LoadLsn(t, "add", "store")

\* Mutant of Full: the reserve for the other workers' records is forgotten.
FullNoReserve(t) == loaded[t] + rec[t].size >= persistent_lsn + BufferSize

\* The ring is full, less a reserve of one largest record per worker.
Full(t) == loaded[t] + rec[t].size >= persistent_lsn + BufferSize - MaxEntry * N

\* logTxn goes on, or returns -1 and serialLogTxn calls it again.
CheckSpace(t) ==
    /\ pc[t] = "space"
    /\ Goto(t, IF Full(t) THEN "check" ELSE "mark")
    /\ Forget(t)
    /\ UNCHANGED <<tailVars, buffer, chunk, meta, remoteVars, rec, records, started, flushVars>>

\* Nothing of this worker's next record lies below _allocate_lsn.
StoreAllocate(t) ==
    /\ pc[t] = "allocate"
    /\ allocate_lsn' = [allocate_lsn EXCEPT ![t] = loaded[t]]
    /\ Goto(t, "fetch")
    /\ Forget(t)
    /\ UNCHANGED <<lsn_, persistent_lsn, filled_lsn, buffer, chunk, meta, remoteVars,
                   rec, records, started, flushVars>>

SettleAt(t, lsn) ==
    /\ rec' = [rec EXCEPT ![t].lsn = lsn]
    /\ records' = records \cup {[rec[t] EXCEPT !.lsn = lsn]}

\* With the parameter sync (SILO, NO_WAIT): one fetch-and-add.
FetchAdd(t) ==
    /\ pc[t] = "fetch"
    /\ SettleAt(t, lsn_)
    /\ lsn_' = lsn_ + Aligned(rec[t].size)
    /\ Goto(t, "copy")
    /\ UNCHANGED <<persistent_lsn, filled_lsn, allocate_lsn, buffer, chunk, meta,
                   remoteVars, loaded, started, flushVars>>

\* Without it (every other engine, OCC too): lsn = *_lsn, then the load
\* (LoadForAdd) and the store of *_lsn +=.
TakeLsn(t) ==
    /\ pc[t] = "fetch"
    /\ SettleAt(t, lsn_)
    /\ Goto(t, "add")
    /\ UNCHANGED <<tailVars, buffer, chunk, meta, remoteVars, loaded, started, flushVars>>

StoreLsn(t) ==
    /\ pc[t] = "store"
    /\ lsn_' = loaded[t] + Aligned(rec[t].size)
    /\ Goto(t, "copy")
    /\ Forget(t)
    /\ UNCHANGED <<persistent_lsn, filled_lsn, allocate_lsn, buffer, chunk, meta,
                   remoteVars, rec, records, started, flushVars>>

\* The record is copied into the ring, in two parts where it wraps around.
CopyRecord(t) ==
    /\ pc[t] = "copy"
    /\ LET at(i) == (i - rec[t].lsn) % BufferSize IN
       buffer' = [i \in DOMAIN buffer |->
                     IF at(i) < rec[t].size THEN <<t, rec[t].lsn + at(i)>> ELSE buffer[i]]
    /\ Goto(t, "send")
    /\ UNCHANGED <<tailVars, chunk, meta, remoteVars, rec, loaded, records, started, flushVars>>

\* RemoteStorage::send_log, under its mutex: the entry joins the batch, or the
\* full batch is written to the storage server and a new one begun.
SendLog(t) ==
    /\ pc[t] = "send"
    /\ IF batch_num < LOG_BATCH_SIZE
       THEN batch_num' = batch_num + 1 /\ UNCHANGED sent
       ELSE batch_num' = 0 /\ sent' = sent + batch_num
    /\ Goto(t, "fill")
    /\ UNCHANGED <<tailVars, buffer, chunk, meta, rec, loaded, records, started, flushVars>>

\* Mutant of StoreFilled: the record's end is not published.
StoreFilledLost(t) ==
    /\ pc[t] = "fill"
    /\ rec' = [rec EXCEPT ![t].size = 0, ![t].lsn = 0]
    /\ Goto(t, "idle")
    /\ UNCHANGED <<tailVars, buffer, chunk, meta, remoteVars, loaded, records, started, flushVars>>

\* The record is complete.
StoreFilled(t) ==
    /\ pc[t] = "fill"
    /\ filled_lsn' = [filled_lsn EXCEPT ![t] = rec[t].lsn + Aligned(rec[t].size)]
    /\ rec' = [rec EXCEPT ![t].size = 0, ![t].lsn = 0]
    /\ Goto(t, "idle")
    /\ UNCHANGED <<lsn_, persistent_lsn, allocate_lsn, buffer, chunk, meta, remoteVars,
                   loaded, records, started, flushVars>>

-----------------------------------------------------------------------------
(***************************************************************************)
(* The log thread: LogThread::run calls tryFlush until sim_done is set.    *)
(***************************************************************************)

workerVars == <<lsn_, filled_lsn, allocate_lsn, remoteVars, started, pc, rec, loaded>>

\* tryFlush returns; its local variables are dead.  If some worker has set
\* sim_done by then, the log thread returns too, whatever is left in the ring.
ReturnFlush ==
    /\ fpc' \in {"tail", "returned"}
    /\ ready' = 0 /\ scan' = 1 /\ filledLSN' = 0 /\ end' = 0 /\ chunk' = <<>>

\* ready_lsn starts at the tail.
ReadTail ==
    /\ fpc = "tail"
    /\ ready' = lsn_
    /\ fpc' = "filled"
    /\ UNCHANGED <<workerVars, buffer, records, persistent_lsn, chunk, meta, scan, filledLSN, end>>

ReadFilled ==
    /\ fpc = "filled"
    /\ filledLSN' = filled_lsn[scan]
    /\ fpc' = "allocated"
    /\ UNCHANGED <<workerVars, buffer, records, persistent_lsn, chunk, meta, ready, scan, end>>

\* Mutant of Limits: a worker with a record under way does not hold the flush back.
LimitsNever(allocateLSN) == FALSE

\* The worker has claimed a position it has not reported filled.
Limits(allocateLSN) == allocateLSN >= filledLSN /\ ready > allocateLSN

\* _allocate_lsn is read after _filled_lsn; then the next worker's turn.
ReadAllocated ==
    /\ fpc = "allocated"
    /\ ready' = IF Limits(allocate_lsn[scan]) THEN allocate_lsn[scan] ELSE ready
    /\ scan' = scan + 1
    /\ fpc' = IF scan < N THEN "filled" ELSE "decide"
    /\ filledLSN' = 0
    /\ UNCHANGED <<workerVars, buffer, records, persistent_lsn, chunk, meta, end>>

\* Less than a block is ready.  The subtraction is unsigned: a ready_lsn below
\* _persistent_lsn does not count as little.
TooLittle == ready >= persistent_lsn /\ ready - persistent_lsn < Block

FlushNothing ==
    /\ fpc = "decide" /\ TooLittle
    /\ ReturnFlush
    /\ UNCHANGED <<workerVars, buffer, records, persistent_lsn, meta>>

\* assert(ready_lsn >= *_persistent_lsn) fails: the process ends.
AssertFails ==
    /\ fpc = "decide" /\ ready < persistent_lsn
    /\ fpc' = "failed"
    /\ UNCHANGED <<workerVars, buffer, records, persistent_lsn, chunk, meta, ready, scan, filledLSN, end>>

\* flush: what is ready, down to a multiple of Round and at most a block, goes
\* from the ring to the file.
Flush ==
    /\ fpc = "decide" /\ ready >= persistent_lsn /\ ~TooLittle
    /\ LET rounded == ready - (ready % Round)
           cut == IF rounded - persistent_lsn > Block THEN persistent_lsn + Block ELSE rounded
       IN /\ end' = cut
          /\ chunk' = [p \in persistent_lsn..(cut - 1) |-> buffer[p % BufferSize]]
    /\ fpc' = "publish"
    /\ UNCHANGED <<workerVars, buffer, records, persistent_lsn, meta, ready, scan, filledLSN>>

\* Bytes and records below end are on disk.
ForgetFlushed ==
    /\ buffer' = [i \in DOMAIN buffer |->
                     IF \E p \in persistent_lsn..(end - 1) : p % BufferSize = i
                     THEN NoByte ELSE buffer[i]]
    /\ records' = {r \in records : r.lsn + Aligned(r.size) > end}

\* The space becomes free, and ready_lsn is appended to the chunk file.
Publish ==
    /\ fpc = "publish"
    /\ meta' = IF end \div N > persistent_lsn \div N THEN ready ELSE meta
    /\ persistent_lsn' = end
    /\ ForgetFlushed
    /\ ReturnFlush
    /\ UNCHANGED workerVars

-----------------------------------------------------------------------------
AppendStep(t) ==
    \/ StartRecord(t) \/ LoadAgain(t) \/ CheckSpace(t) \/ LoadForMark(t)
    \/ StoreAllocate(t) \/ CopyRecord(t) \/ SendLog(t) \/ StoreFilled(t)

Work(t) == fpc # "failed" /\ (AppendStep(t) \/ FetchAdd(t))

SerialWork(t) ==
    fpc # "failed" /\ (AppendStep(t) \/ TakeLsn(t) \/ LoadForAdd(t) \/ StoreLsn(t))

LogThreadStep ==
    ReadTail \/ ReadFilled \/ ReadAllocated \/ FlushNothing \/ AssertFails \/ Flush \/ Publish

\* The process has ended with its assertion, or the log thread has returned.
Ended == fpc \in {"failed", "returned"} /\ UNCHANGED vars

Next == (\E t \in Thread : Work(t)) \/ LogThreadStep \/ Ended

Spec == Init /\ [][Next]_vars
\* The logger as the engines without sync use it.
SerialNext == (\E t \in Thread : SerialWork(t)) \/ LogThreadStep \/ Ended
SerialSpec == Init /\ [][SerialNext]_vars

-----------------------------------------------------------------------------
(***************************************************************************)
(* Properties.                                                             *)
(***************************************************************************)

\* The types of the logger's state; the batch fits RemoteStorage's buffer.
TypeOK ==
    /\ lsn_ \in Nat /\ persistent_lsn \in Nat /\ meta \in Nat
    /\ filled_lsn \in [Thread -> Nat] /\ allocate_lsn \in [Thread -> Nat]
    /\ buffer \in [0..(BufferSize - 1) -> Byte]
    /\ \A p \in DOMAIN chunk : chunk[p] \in Byte
    /\ batch_num \in 0..LOG_BATCH_SIZE /\ sent \in Nat /\ started \in 0..MaxRecords
    /\ pc \in [Thread -> PC]
    /\ rec \in [Thread -> Record] /\ records \subseteq Record
    /\ loaded \in [Thread -> Nat]
    /\ fpc \in {"tail", "filled", "allocated", "decide", "publish", "failed", "returned"}
    /\ ready \in Nat /\ filledLSN \in Nat /\ end \in Nat /\ scan \in 1..(N + 1)

\* Workers that race past the space check still fit into the ring: the reserve
\* of one record each is enough, however stale the tail they checked.
RingNotOverrun ==
    persistent_lsn <= lsn_ /\ lsn_ <= persistent_lsn + BufferSize

\* What the log thread writes to disk holds every byte of the records in its
\* range: it never flushes a record under way, or one that was overwritten.
FlushedIntact ==
    \A r \in records : \A p \in r.lsn..(r.lsn + r.size - 1) :
        p \in DOMAIN chunk => chunk[p] = <<r.thd, p>>

\* A worker that finds the ring full gets its record in as long as the log thread
\* runs: until then it has returned on sim_done (a worker that finds the ring
\* full later spins for ever) or ended the process with its assertion.
RecordsLogged ==
    \A t \in Thread : pc[t] = "space" ~> (pc[t] = "idle" \/ fpc \in {"failed", "returned"})

\* Two records never share a byte of the log.
RecordsDisjoint ==
    \A r, s \in records :
        r # s => r.lsn + r.size <= s.lsn \/ s.lsn + s.size <= r.lsn

=============================================================================
