# VeriTxn in TLA+

VeriTxn is a database, grown from DBx1000, whose transactions run inside an SGX
enclave (`src/trusted`) while indexes, log, storage and network stay outside
(`src/untrusted`). This directory models its concurrent core: how transactions
execute and commit under each concurrency control that can be built, how workers take
and retry queries, what the TPC-C transactions do to their tables, how rows are found
in the B-tree and kept in the verified page cache, how redo records reach the log and
come back from it after a crash, and how the hashes of changed pages reach a read-only
node.

## The system

| Component | State | Operations | Hard because |
| --- | --- | --- | --- |
| Workers (`thread.cpp`, `thread_enc.cpp`, `manager.cpp`) | query, timestamp, abort buffer | `run`, `run_txn_ecall`, `generate_txn_for_run`, `get_next_ts` | retries, penalties, buffer at its limit |
| Transaction manager (`txn.cpp`, `ycsb_txn.cpp`, `tpcc_txn.cpp`) | accesses, `start_ts`, `end_ts` | `get_row`, `insert_row`, `finish`, `cleanup` | multi-row effects in several steps, aborts half-way |
| OCC (`occ.cpp`, `row_occ.cpp`) | per row a latch and `wts`; active and history lists | `access`, `per_row_validate`, `central_validate`, `write` | latch order, two timestamp counters |
| 2PL (`row_lock.cpp`, `row_enc.cpp`) | per row owners, waiters, lock type | `lock_get`, `lock_release`, waiting, time-out | grants racing time-outs, deadlock |
| Silo, TicToc (`silo.cpp`, `row_silo.cpp`, `tictoc.cpp`, `row_tictoc.cpp`) | one word per row | `access`, `validate_silo`, `validate_tictoc`, `try_renew` | copies without a lock, no-wait retries |
| TIMESTAMP (`row_ts.cpp`) | per row three request lists | `access`, `update_buffer` | requests that wait on each other |
| Partition locks (`plock.cpp`) | owner, sorted waiters, `ready_part` | `lock`, `unlock` | one counter for several waits |
| Logger (`logger.cpp`, `log_thread.cpp`, `re_txn`) | ring, tail, per-worker `_allocate_lsn`, `_filled_lsn`, `_persistent_lsn`; `_disk_lsn`, `_next_lsn`, `_gc_lsn` | `logTxn`, `tryFlush`, `flush`, `tryReadLog`, `get_next_log_entry_non_atom`, `recover` | no lock at all, ring at its limit, torn files |
| Remote storage (`disk.cpp`) | batch buffer | `send_log`, `load_page_disk`, `vaccum` | batch at its limit |
| Page verification (`hash_chain.h`, `index_enc.cpp`) | sorted chain of page hashes | `insert`, `get`, `vaccum`, `sync_version`, `update_verify_hash` | hashes out of order, counters reset without a lock |
| Page cache (`lru_cache.cpp`) | slots, pins, free pool, byte count | `try_load`, `load_and_swap`, `release`, `cache_free` | lock-free hit path, eviction of pages in use |
| B-tree (`index_btree_enc.cpp`, `index_btree.cpp`) | nodes, latches | `index_read`, `index_insert`, splits, `load_all` | latch coupling with upgrades, reads without latches |
| TPC-C (`tpcc_txn.cpp`, `tpcc_wl.cpp`, `tpcc_query.cpp`) | tables and indexes | five transactions | books over several tables, aborts in the middle |
| Messages (`message.cpp`, `msg_queue.cpp`, `transport.cpp`) | queues | send, receive, `AsyncHashMessage` | reordering |

Interactions: a worker takes a timestamp from the untrusted `Manager`, enters the
enclave through `run_txn_ecall`, looks rows up in the enclave's index (which loads
pages through the page cache), asks the concurrency control for each row, and in
`cleanup` sends its log record out through `send_logs`, which runs `logTxn` and
`send_log` on the worker's own thread. One log thread runs `tryFlush`, or `tryReadLog`
in a process that recovers, until some worker has set `sim_done`; it then returns,
whatever is left in the ring. With the hash index and a locking engine,
`finish` also calls `sync_version` for the transaction's pages, which every
`SYNC_VERSION_BATCH` commits queues the page's hash for the output threads; a read-only
node's input threads hand it to `update_verify_hash`.

What makes each part correct is stated as properties in the modules; what is hard to
test in each is listed under `hazards` in `PROJECT.json`, with the property that
would catch it or the reason there is none.

## Modules

| Module | Models | Checked by |
| --- | --- | --- |
| `OccTxn` | transactions under OCC with per-row validation, the default build | `MCOccTxn` |
| `RowLock` | transactions under NO_WAIT, WAIT_DIE and DL_DETECT | `MCRowLock` |
| `AtomicStore` | the abstract promise: an attempt takes effect once and at once, or not at all | through `RowLock` |
| `TxnFrame` | what the next four share: threads, accesses, the record of commits | `MCEngines` |
| `Engines` | the four engines over the same threads and rows, and their properties | `MCEngines` |
| `Silo`, `TicToc`, `TsOrder`, `CentralOcc` | the engines SILO, TICTOC, TIMESTAMP, and OCC with central validation | `MCEngines` |
| `Tpcc` | loading of the TPC-C tables, generators, the five transactions | `MCTpcc` |
| `PartLock`, `Worker` | H-Store's partition locks; the worker loop around them | `MCWorker` |
| `LoadTree`, `BTree` | the B-tree outside the enclave while tables are loaded; the one inside | `MCBTree` |
| `PageCache` | the page cache under both indexes, with eviction and verification | `MCPageCache` |
| `Logger`, `LogReplay` | log ring, log thread, batch for the storage server; crash and replay | `MCLogger` |
| `HashSync` | page hashes from a read-write to a read-only node | `MCHashSync` |
| `OccTxnProofs`, `RowLockProofs`, `SiloProofs`, `EnginesProofs`, `HashSyncProofs`, `WorkerProofs`, `LoggerProofs` | theorems | TLAPS |
| `SeqLemmas` | lemmas on sequences and sets that the proofs share | TLAPS |

`Worker` extends `PartLock`, `BTree` extends `LoadTree` and starts from the tree it
builds, `LogReplay` extends `Logger` and starts from any state it leaves, `Engines`
chooses one of four engines in its initial states, and `MCEngines` gives it the queries
TLC runs.

Operators named in a comment as a mutant of a definition describe a plausible fault
in that definition; each property of a passing run is known to fail with one of them
in place.

### OccTxn

State: the two timestamp counters (`Manager` outside, `ManagerEnc` inside the
enclave), each row's content, `wts` and latch, each page's version, the log, and per
thread the query, the accesses with their copies, the timestamps, `lock_cnt` and a
loop index. A row's content is a number and a write adds one, so a lost write shows.

| Action | Code |
| --- | --- |
| `Begin` | `thread_t::run` picks a query and a `begin_ts`; `run_txn_ecall` installs it |
| `GetRow`, `GetRowAbort` | `txn_man::get_row` with `Row_occ::access`, or a miss in `index_read` |
| `WriteRowInPlace` | `ycsb_txn_man::run_txn` writing the shared row |
| `InsertRow` | `insert_row` and the page stamp of `index_insert` |
| `EndOfQuery`, `FinishAbort`, `FinishValidate`, `FinishPageChanged` | `txn_man::finish`, the recursion on a changed page being the state `stuck` |
| `LatchAndValidate`, `GetEndTs` | the two halves of `per_row_validate` |
| `WriteLog`, `ReturnRow`, `EndCleanup` | `txn_man::cleanup` |
| `ReleaseLatch`, `EndTxn` | the release loop and the return to `thread_t::run` |

Abstractions: the copy of a row (under its latch) and the read of its page's version
right after are one step; local computation is applied when the copy is made; the
log record is the set of rows written and, for the properties, the outcome and the
end timestamp; rows are numbered in the order the code sorts them. `run_txn` can also
end with ERROR, but only where a bucket of the hash index fails its verification; the
module has the B-tree, and `Worker` has what becomes of the thread.

### RowLock

State: per row the lock type, owners and waiters; per transaction `lock_ready`,
`lock_abort`, timestamp, accesses with their undo copies. The algorithm is chosen
in the initial state and fixed. `lock_get` is `LockGranted`, `LockWait` or
`LockRefused`; the wait in `row_t::get_row` is `WaitReady`, `WaitTimeout`,
`WaitAbort` and `GiveUp`; `TakeAccess` and `WriteRow` are the rest of `get_row` and
the computation; `Finish`, `ReturnRow`, `ReleaseRow`, `EndTxn` are `finish` and
`cleanup`.

Abstractions: what makes DL_DETECT abort a waiter, the detector or the time-out, is
one event that may happen to any waiter; inserts are left out, so the page-version
check of `finish` never fires; the log record is left out.

### Silo, TicToc, TsOrder, CentralOcc

A thread runs one query after the other (`Take` in `TxnFrame`) and collects accesses.
The content of a row is the attempt that wrote it, and `hist` and `vers`, which no
action reads, say what every committed attempt read and in which order versions were
installed. `FrameAssumption` says that rows are numbered by primary key and that a query
is not empty and names a row once, which `gen_requests` sees to. `InOrder` lists
accesses in the order of a key: `validate_silo` and `validate_tictoc` sort the write set
by primary key and keep the read set in the order of the accesses.

| Module | State of a row | Actions and code |
| --- | --- | --- |
| `Silo` | tid, lock bit, two halves of data | `ReadWord`, `CopyHalf`, `CheckWord`: `Row_silo::access`. `Validate`, `TryLock`, `LockBusy`, `Backoff`, `AllLocked`, `ValidateRead`, `ValidateWrites`: `validate_silo`. `InstallHalf`, `InstallWord`, `ReleaseInstalled`, `Commit`, `Abort`: the write phase and `cleanup` |
| `TicToc` | lock bit, wts, lease; two halves | the same for `Row_tictoc::access` and `validate_tictoc`, and `LeaseHeld`, `RenewRead`, `RenewSwap`, `RenewRetry` for `renew_lease` and `try_renew`, one step per read and CAS of the word |
| `TsOrder` | wts, rts, min_pts, min_rts, three lists | `Read`, `ReadWaited`, `Prewrite`: `Row_ts::access`. `ReturnRead`, `ReturnWrite`, `ReturnAborted`: `return_row` with `update_buffer` (`UpdateBuffer`, whose loop is repeated `UpdateRound`), all under the row's latch |
| `CentralOcc` | two halves | `CopyHalf`: `Row_occ::access`. `Validate`, `InstallHalf`, `Leave`: `central_validate` around `cleanup` |

Abstractions: a copy of a row is two steps, so that it can be torn; inserts, the log
record and page versions, which these engines treat as OCC does, are left out. So is
YCSB's write to the shared row (`ycsb_txn.cpp:81`), which `OccTxn` has: a write goes to
the access's own copy here.

### Tpcc

Rows are named by table and key and carry the columns transactions compute with. `Init`
is the loader (`init_tab_*`), with the permutation of customers over orders chosen
freely. It copies 4-byte integers into 8-byte columns (`row.cpp:84`), so their upper
halves are whatever lay behind the parameter: `Wide` adds a `leftover`, and the books are
kept relative to what was loaded. `gen_payment` and its like are the generators of
`tpcc_query.cpp`. Payment is
`PayWarehouse`, `PayDistrict`, `PayCustomer`; new order `OrderWarehouse` to
`InsertLine`; order status one step; delivery `DeliveryClaim`, `DeliveryDistrict`,
`DeliveryReturn`, which returns without `finish`, or stays in a loop over order lines that
never advances (`stuck`); stock level `StockLevelLines` and
`StockLevelEnd` with its assertion. Every access may find the row locked (NO_WAIT) and
abort. An insertion into an index may be lost where another thread holds a latch,
because `insert_row` drops the result, and a lookup may miss a key while another thread
inserts. Names share keys (`custNPKey` shifts letters by two bits), within a district and
across districts. The end of the process by an assertion or a null
pointer is the state `crashed`.

Abstractions: `finish` is one step, since `RowLock` shows that it is atomic for the
transaction's rows, and so is an index operation (`BTree`); one leftover serves all rows
of a table; columns and indexes no book is kept in, NEW-ORDER, `c_payment_cnt` and
`s_remote_cnt` among them, are left out. `g_wh_update_enc` is `WH_UPDATE`, which is true,
so payment always writes the warehouse; the name index never changes, so the return of
order status for a name without customers is never taken.

### PartLock and Worker

`Granted`, `Queued`, `Refused` and `Unlock` are `PartMan::lock` and `unlock`. `Worker`
has the loop of `thread_t::run`: `GenerateTxn` (abort buffer first, then a new query),
`GetNextTs` (one by one or in batches), `LockPart`, `UnlockBack` and `WaitReady`
(`Plock::lock`), `RunTxn`, `UnlockPart`, `AbortTxn`, `CommitTxn`, and `ErrorTxn`, the
return of a thread whose transaction ended with ERROR. `Elapse` is the end of a penalty.
A query names a partition once, which the generators see to.

### LoadTree and BTree

`LoadRow` is one `index_insert` of the loader, splits and new roots included, with the
latches it fails to release in `latched`. `LoadAll` copies the tree into the enclave.
There `LatchRoot`, `Descend`, `LatchChild`, `CheckChild`, `LatchLeaf` are `find_leaf`,
one step per latch; `InsertLeaf`, `SplitLeaf`, `InsertIntoParent`, `SplitParent`,
`NewRoot`, `Release` the rest of `index_insert`; `ReadDown` and `ReadLeaf` are
`index_read`. Abstractions: an item is the number of its insertion; nothing is evicted.

### PageCache

A transaction is the sequence of cache operations its accesses and `cleanup` make
(`Program`): `TryLoad` and `Hit` (the path without the latch, in two steps, the count
read in the first and stored in the second), `CopyIn`, `LoadAndSwap`, `Flush`, `FlushOut`,
`Verify` (`load_bucket` or `load_child` around `load_and_swap`), `Release`, and
`WriteBack`, which comes after the pins are gone. `Begin` chooses how many accesses are
recorded and the outcome: `get_row` may abort once the page is pinned and before the
access is recorded, and `cleanup` releases recorded accesses only, so that pin stays. A
worker that finds nothing to evict goes round the load loop for ever. A page's content is
the number of its last write; every page has size one; `_read_cnt` is taken modulo 2^6
for 2^64. An evicted page's memory is not reused.

No run of the module passes, since neither what the verification nor what the pins
promise holds: `pages` and `pages_pins` are the two shortest failures.

### Logger and LogReplay

Every load and store of a shared counter is a step. `StartRecord` to `CheckSpace` are
the space check and its retry, `LoadForMark` and `StoreAllocate` publish
`_allocate_lsn`, `FetchAdd` takes the position (`TakeLsn`, `LoadForAdd`, `StoreLsn`
without `sync`), then `CopyRecord`, `SendLog`, `StoreFilled`. A worker sets `sim_done` at
no particular time for the logger, so at the end of any `tryFlush` the log thread may
return (`ReturnFlush`). The log thread's
`ReadTail`, `ReadFilled`, `ReadAllocated` are its scan, then `FlushNothing`,
`AssertFails` or `Flush`, and `Publish`. `Spec` is the logger with `sync`, which
SILO and NO_WAIT use; `SerialSpec` the one without, which all other engines use.

In `LogReplay` `Crash` ends the process at any point and leaves a file cut at any
rounding boundary of what was being written; other initial states have a file of an
earlier run, any of `OldFiles`: records one after the other, the last torn or not.
`ReadNext`, `ReadGc`, `ReadNothing`, `ReadFile`, `PublishRead` are
`tryReadLog`; `TakeEntry`, `AwaitEntry`, `Applied` are `recover` with
`get_next_log_entry_non_atom` and `set_gc_lsn`. No thread calls `recover`
(`thread.cpp:115` is commented out): the module says what it would do beside the log
thread, and nothing about when. `ReadAssumption` is what the argument parser enforces
(`parser.cpp:156`: a read block is less than half of the ring), that block and ring are
multiples of the rounding of the file, and that a record fits the ring. Under it the
first record may be overwritten while it is replayed, since `_gc_lsn` is still 0 and 0
means no bound; `ReplayIntact` claims a record whole once `_gc_lsn` is set.

Abstractions: positions are counted in small units; a byte is its writer and its
position; flushed bytes are forgotten instead of staying in the ring; the two parts
of a copy that wraps are one step; entries of the batch are counted. One logger
(`NUM_LOGGER` is 1) and, as in the code, one worker that replays.

### HashSync

| Action | Code |
| --- | --- |
| `Commit`, `SkipPage`, `EndSync` | the loop of `txn_man::finish` over the sorted pages |
| `StampTail`, `CountCommit`, `SendHash`, `ResetBatch` | `IndexEnc::sync_version`, one step per access to shared state, and the enqueue |
| `Output` | `MessageThread::run` |
| `Receive`, `CheckSize`, `Vaccum`, `Release` | the input thread and `update_verify_hash` |
| `BeginTxn` | a read-only worker publishing its `begin_ts` |

The pairing of the sorted pages with the accesses in their own order is kept
(`SyncsAt`); so are the plain store that resets `batch_cnt` and the largest
`begin_ts` computed under the name of the smallest.

Abstractions: a version is its commit timestamp; one read-only node, whose clock agrees
with the read-write node's; readings of the clock are distinct; the row locks a
committing transaction still holds restrict which rows two workers commit at once but
not which pages, so they are left out; no page is evicted (`PageCache` has that),
every page is preloaded; a queue never refuses a message and the
connection loses none, which nanomsg promises while both processes live.

## Runs

| Run | Shows | Bounds |
| --- | --- | --- |
| `occ` | latching, timestamps, log order, clean reads and termination | 2 threads, 2 attempts each, 2 rows |
| `occ_lost_update` | violation: two commits of a row lose one write | 2 threads, 1 attempt, 1 row |
| `locks` | lists consistent, no forgotten waiter, no dirty data, atomic commits, attempts end | 3 threads, 1 attempt each, 2 rows, three algorithms |
| `engines` | Silo serializable; no lost update and progress under Silo and TicToc; what holds a read back under TIMESTAMP is on record; one writer per row under central OCC | 2 threads, 4 attempts against 1, 3 rows |
| `tpcc` | money, order numbers and stock add up over the commits, relative to what was loaded | 2 threads, 2 transactions each, 1 warehouse, 2 districts, 2 customers of names with one key, 2 items, 3 leftovers |
| `logger` | no overrun, whole records on disk, ring drains while the log thread runs; what is replayed is a record of the file, whole once `_gc_lsn` is set | 2 workers, 5 records, ring of 12; replay ring of 10, file of up to 7 records |
| `logger_serial` | violation: two records share a position without `sync` | 2 workers, 2 records |
| `hash_sync` | one sender per batch, chain sorted, lookups never older, hashes arrive | 2 workers, 4 commits, 2 queues, batch of 2, trigger 2 |
| `pages` | violation: a bucket loaded between the storing of its new hash and its writing outside fails verification | 2 workers, 2 transactions each, 2 hash buckets, cache of 1 |
| `pages_pins` | violation: a leaf's pin count wraps below zero | 1 worker, B-tree of 3 pages |
| `btree` | loaded tree right, latches owned, insertions found, leaves linked | order 3, 6 keys in every order; 2 threads on a tree of three levels |
| `worker` | waits are for older ones, running owns its partitions, no query lost, attempts end, with threads that return at an error | 3 threads, 2 partitions, buffer of 1, batches of 3 |

Why the bounds are enough for the cases to happen.

- `occ`: two threads ask for two rows against the latch order, one query writes the
  shared row, one inserts into a page another reads, and a second attempt meets the
  timestamps of the first.
- `locks`: with three threads a row can have an owner and two waiters, and two owners
  that share; queries take the rows in opposite orders. Of the three threads one writes,
  one crosses it and one does either; that leaves out only that all do the same.
- `engines`: the first thread's attempts leave the rows with different numbers and
  leases, among which the second thread's transaction commits late; queries cross and
  read what the other writes; `RTS_LEN` is 2, so that a lease overflows.
- `tpcc`: payments by name and number and new orders of one district meet each other, a
  delivery, an order status and a stock level, and any access may abort. A quantity of
  19 with orders of 10 is refilled. The loop a delivery never leaves needs a district
  with more orders than customers and an order line under the old number, thousands of
  orders in the program; no run reaches it.
- `logger`: five records in a ring of twelve, of which eight are reserve, fill it, make
  a worker wait, and wrap it; a record can be cut by the block of two. The file of seven
  records wraps the replay ring, with records that cross its end; the ring is just large
  enough for the parser, two blocks and a bit, so that reading ahead does reach the
  records being replayed.
- `hash_sync`: four commits complete two batches, the second possibly by the oldest
  commit; a commit can be counted between a full batch and its reset; with two queues the
  two hashes arrive in either order, and the second makes the chain longer than the
  trigger.
- `pages`: two buckets and room for one make every change of bucket an eviction, which
  the other worker can meet at any of its steps.
- `btree`: the full tree makes insertions split leaves and inner nodes, upgrade shared
  latches against each other and give up. Readers and inserters are not mixed and the
  tree does not grow a level, for the reasons given under the disagreements below.
- `worker`: a thread can be queued for two partitions at once, be refused the second
  while it owns or waits for the first, and fill its buffer; batches of 3 are used up.

Fairness. A thread is never refused the processor for ever: weak fairness of each
thread's steps (`Step`, `WorkerRuns`, `LogWork`, `LogThreadRuns`, and in `HashSync`
`Output` and `InputStep`), and time passes (`Elapse`). The log thread is fair until it
returns on `sim_done`, and `RecordsLogged` promises nothing after that: a worker that
finds the ring full then spins for ever. The input and output threads too return on
`sim_done`, without draining their queues (`io_thread.cpp:102`, `130`); `HashArrives` is
about the time before, and their workers need no fairness. Replay has none and no
liveness property, since no thread runs it. Nothing is assumed about who gets
a latch or lock, and nothing makes the process crash. Under DL_DETECT the wait loop
itself reads the clock and sets `lock_abort`, so its time-out is a step of the waiting
thread. No run assumes that an attempt commits.

Deadlock is checked in every run but `engines`: under TIMESTAMP a committed write that
was buffered behind an older prewrite stays in the buffer when `update_buffer` finds no
read to serve (`row_ts.cpp:252`), and a later read waits for its prewrite for ever. The
other runs stutter explicitly once their threads have done their share.

## What the violations show

The findings in `PROJECT.json` quote the lines.

1. `start_ts` and `end_ts` come from two counters, so OCC's validation accepts stale
   copies (`occ_lost_update`). `RetryNotDoomed`, which holds, is the other side of
   it: the untrusted counter is always ahead.
2. Without `sync` the log position is taken by a load and a store (`logger_serial`).
3. `release_up_cache` of the B-tree releases the leaf twice (`pages_pins`).
4. An evicted bucket leaves the cache, then its hash is stored, then its content is
   written outside; whoever loads it in between fails the verification (`pages`).

Other disagreements between what the code does and what it seems to intend, which the
models reproduce and no run is spent on:

- YCSB writes the shared row instead of its copy, and under OCC the commit undoes it
  (`ycsb_txn.cpp:81`).
- The waiters' list is youngest first; `row_lock.h:35` says oldest first.
- The assertion in `tryFlush` (`logger.cpp:501`) can fail on a stale `_allocate_lsn`,
  with `sync` too. The properties of the log hold up to that point.
- The log thread returns on `sim_done` without flushing the rest (`log_thread.cpp:53`),
  and a worker that waits for room in the ring never ends (`logger.cpp:432`).
- `send_log` drops the entry that finds the batch full (`disk.cpp:92`).
- `finish` sorts the pages but not the accesses it pairs them with (`txn.cpp:438`).
- TicToc: a lease extended by somebody else is compared with the wrong number, and three
  transactions can commit in a cycle (`row_tictoc.cpp:153`).
- TIMESTAMP: of several buffered writes that become ready one is output and the others
  are dropped (`row_ts.cpp:272`).
- Central OCC compares `start_ts`, which counts attempts, with `tn`, which counts
  commits, and so misses commits made since the transaction began: those with
  `tn <= start_ts` (`occ.cpp:120`).
- A delivery returns without `finish` and keeps its locks (`tpcc_txn.cpp:691`).
- `index_read` of the B-tree releases a latch it has not taken (`index_btree_enc.cpp:497`).
- `insert_into_new_root` does not put the old root into the cache, so its next visitor
  loads another node in its place (`index_btree_enc.cpp:1086`).
- A page can be freed between the two steps of a hit (`lru_cache.cpp:57`) or between the
  release of its pin and the write of its rows (`txn.cpp:127`).
- A page pinned for an access that `get_row` then refuses is never released
  (`txn.cpp:231`).
- A record that ends exactly with the file is not replayed (`logger.cpp:743`), and the
  first one may be overwritten while it is replayed; the code assumes that reading is
  slower than processing (`logger.cpp:752`).
- A comment at `logger.cpp:720` says that the last block of the file may be read back
  corrupted; the workaround beside it is off (`dead_tail` is 0). The model reads what was
  written, so it has no such corruption: `ReplayIntact` says that the positions and the
  ring are right, not that the disk is.

## Theorems

Every theorem holds for all values of the constants that the named assumptions of its
module allow: any set of threads, rows, pages or partitions, any queries, any bounds.
Each inductive invariant was checked by TLC on the module's run before it was proved.

`SeqLemmas` has what the proofs share: what `Min`, `Max`, `InsertAt`, `RemoveAt` and
`Contains` of the community modules return, and facts about remainders. They follow from
the library's theorems on sequences and well-founded orders.

### OCC

`OccTxnProofs`: `Typing` by a type invariant that also bounds `rid`, `next` and
`lock_cnt` by the lengths they index. `Latching` proves the inductive invariant
`LatchingInv`: the accesses are sorted without repetition from validation on, and
the latches a thread holds are those of the visited prefix. Neither part is
inductive without the other: a release is right because the prefix is without
repetition, and the prefix stays sorted because only `FinishValidate` reorders it.
`LatchPrefix` and `OrderedLatching` follow.

On top of `LatchingInv`, `Commit` proves `CommitInv`, that every
`wts` and every `end_ts` was drawn from the enclave's counter, and that a committing
thread holds the latch of every access and has an `end_ts` above the `wts` of each row
it still has to write. The latches are what keeps the last part: another commit can
only write rows it has latched itself. `WritesAdvance` (the assertion in
`Row_occ::write`) and `WtsAdvances` follow. Three more inductive invariants rest on it:
`CounterGap`, which counts the attempts that have a `start_ts` and no `end_ts` yet
between the two counters, gives `RetriesNotDoomed`; `ReadInv`, which says that no copy
carries the `end_ts` of a commit still in progress, gives `ReadsClean`; and `LogInv`,
which relates each logged commit to the `wts` of its rows, gives `LogOrdered`.

### Locking

`RowLockProofs` goes up in four steps, each on the one before.

1. `LockConsistent`: `LockInv` says that owners fit the lock type and that the head of
   the queue conflicts with it. The head is enough: a waiter behind it either conflicts
   with the lock too or with the head. `CompatibleOwners` and `BlockedWaiters` follow.
2. `ListsConsistent`: `ListInv` adds that every transaction owns exactly the rows of
   `Given(t)`, those of the requests it has been granted and not returned, is queued
   once and only where it waits, and that its accesses repeat its requests in order.
   Locks are taken in the order of the query and returned in reverse, so `Given(t)` is a
   prefix.
   `MatchingLists` follows. The delicate steps are a release that grants several waiters
   at once, and the grant that arrives between a time-out and `GiveUp`.
3. `RowsStored`: `DataInv` adds, for every access a transaction holds, what the row
   stores: what was read, what was written over it, or the undo copy again. Two holders
   of a row both read, because of 1 and 2, so no step of one disturbs the other's.
   `ReadsStable` follows.
4. `Atomicity`: `Spec => AtomicCommits`, the refinement of `AtomicStore`. `Begin` is an
   abstract `Begin`, `Finish` a `Commit`, a refused request and a wait given up an `Abort`;
   every other action stutters. That `WriteRow` and `ReturnRow` do, which write rows before
   and after the outcome is known, is where `DataInv` is needed.

### Silo, TicToc and central validation

`EnginesProofs` is about `Engines`: `EnginesKeepInv` proves that the engine of the build
keeps its invariant, and the three theorems below follow from it. `SiloProofs`, which it
extends, has Silo's part and the lemmas on write sets and versions that all engines use.
A row's content is the attempt that wrote it, so each invariant can say which version a
row, a half of a copy or an access holds, and that the accesses follow the query.

`SiloInv` has two parts. `SiloBase` says whose each set lock bit is (`SiloLocks`), that
a row holds its latest version unless its writer is between the data and the word
(`SiloRows`), that a copy or an access is current as long as the row's tid is the one it
noted (`SiloCopy`, `SiloAccess`), and that rows locked for a commit keep the noted tid
until they are installed, under a larger one (`SiloCurrent`). Each needs the others: a
tid names a version only because an installation raises it, which rests on the lock, and
the lock's owner is known only from the sorted write set. The second part, `SiloOrder`,
is what serializability needs and no single state shows: there is a rank of all attempts
such that versions have growing ranks, an attempt is above what it read, and one that
read a version is below whoever replaces it (`ReadBefore`). An attempt gets its rank,
the next free one, when it has all its locks; from then on nobody else can install on
the rows it writes, and a read it validates later is of a row that is neither changed
nor locked by another, so whoever replaces that version takes its locks, and its rank,
later. `SiloSerializable` follows: of any set of commits the one of the smallest rank is
preceded by none.

`TicInv` is like `SiloBase` with the wts of a row's word for the tid. The difference is
that a renewal of a lease may raise wts (when the lease no longer fits its bits) without
a new version, so wts does not name a version; what holds is that it never stays when
the version changes. `TicCurrent` adds that the commit time is above the wts of every
locked row, and `TicSwap` that the word a renewal swaps in does not lower wts.
`CommitsReplaceWhatTheyRead` follows for both engines from `HistoryKept`: a commit's
version stands right after the one it had copied.

`OccInv` for central validation: the list of active sets has exactly the write sets of
the transactions between the two latched sections of `central_validate`, one each
(`OccActive`); the write sets of two transactions that passed are apart (`OccApart`),
because the later one found the earlier one's in the list; and a row holds its latest
version unless its writer is between the halves (`OccRows`). `RowsStayWhole` follows.
Nothing about the history list is needed, or could be: its window misses the commits
with `tn <= start_ts`.

### Page hashes

`HashSyncProofs`: `OneSender`, inductive together with the domains of the variables it
relates (`SenderInv`): only `CountCommit` makes a sender, and only by bringing the
counter to the batch size exactly, which it is not while there is one; only
`ResetBatch` ends one. What the sort returns is not used. `Chains` and the action
property `NeverOlder` come from `ChainInv`: chains are increasing and never empty,
their size is their length, and nothing in a chain, a queue or a socket is younger than
the clock. The last part makes the tail what a lookup now is served, so that it is
enough to show that `Insert` and `Dropped` keep the tail or replace it by a younger one.

### Workers and partition locks

`WorkerProofs`: `WorkerInvariant` proves `WorkerInv`, from which `Waiting`, `Ownership`
and `Queries` follow. Its parts: timestamps are unique, those still in a thread's batch
included (`TsInv`; without it two waiters could be of one age and the queue's order
would not be strict); a thread owns or waits for exactly the partitions its loops have
asked for and not given back (`ClaimInv`); waiters are younger than the owner, each than
the one before (`OrderInv`); `ready_part` counts the queues a thread is in (`ReadyInv`,
a cardinality); and the slots of the abort buffer are counted right, with one in
reserve for the query that runs (`SlotInv`).

### Log

`LoggerProofs` is about the logger with `sync`, with crashes. `LogConsistent` and
`LogSurvives` prove `LogInv`. Its core is `SpaceInv`: a worker takes its position
after a check of the space against a tail that may be stale, so that the tail is below
the threshold plus the reserve is not inductive. What is: for every threshold from the
present one on, if the tail has passed it, the tail and one largest record for each
worker that may still get past the check with what it loaded stay below that threshold
plus the reserve. All later thresholds are needed since a flush moves the threshold
under workers that have loaded their tail already. `NotOverrun` follows, and with it
that a copy never overwrites a byte that is not flushed. `ScanOK` says that no record
under way of a worker already scanned lies below what the log thread will flush, which
rests on the order in which a worker writes `_allocate_lsn`, the tail and
`_filled_lsn` (`OrderOK`); `Intact` follows. `Disjoint` is what `logger_serial` shows
to fail without `sync`.

`ReplayConsistent` proves `ReplayInv`: the records of the log, and so of any file a
crash leaves, follow each other without a gap (`Chain`); every cell of the ring holds
the last position read that belongs there, and the dummy tail repeats the ring's
beginning (`RingHolds`); and the log thread's reads end at most a ring's length after what
it has to keep (`ReadInv`): the beginning of the record at work, or, as long as `_gc_lsn`
is 0, only the end of it (`Kept`). The last part rests on reading only while at most half
of the ring is in use, with a block smaller than the other half; the position the log
thread compares with is an older one, which is on the safe side. `ReplayedWhole` follows,
for every ring that `parser.cpp` lets through.

### What is only model-checked

- Liveness (`AttemptEnds` of four runs, `RecordsLogged`, `HashArrives`): out of this
  prover's reach.
- `ReadersHaveReason`: `cal_min` is a fold over a list and `update_buffer` a loop with as
  many rounds as it takes, so what they compute is induction over data.
- `MoneyBalances` and `StockBooks` of `Tpcc` are about sums over sets, and `LoadedRight`,
  `InsertedFound` and `LeavesLinked` about paths in a tree: induction over data.
- `LatchesOwned` of `BTree` rests on the path from a leaf to the root, induction again.
  `OrderNumbers` of `Tpcc` is not: it would follow from the exclusive lock on the district
  between its read and its commit, and is not proved yet.

`TypeOK`, `LatchOrder` and `WriteAdvancesWts` are proved and, following from other
invariants or being proved for every instance, not part of a run.

## Plan

1. Prove `OrderNumbers`: new orders of a district are numbered without gaps, from the
   exclusive lock on the district between its read and its commit. It needs the types of
   the rows by table, and that the row a delivery finds is an order's.
2. State `min_pts` and `min_rts` of TIMESTAMP as bounds of the lists instead of results of
   a fold, and prove from them that a waiting read is younger than some prewrite.

## Not modelled

- MVCC and Hekaton: these builds do not compile (`thread_enc.cpp:161` calls a function
  that does not exist, and `ManagerEnc::get_min_ts` is `assert(false)`). The deadlock
  detector: a DL_DETECT build uses variables the enclave does not declare
  (`row_enc.cpp:175-184`); `RowLock` keeps the effect it would have on a waiter.
- Scans (`index_next`), which no default workload asks for outside TPC-C's chains, the
  Merkle trees of deferred verification, and the untrusted hash index, which is only
  copied from.
- `lock_free_queue.cpp`, which nothing uses, and the storage server of `rpc_thread.cpp`,
  which answers one request after the other.
- Loading of YCSB, parsing of arguments, statistics, the RocksDB wrapper, the socket
  code and the wrappers of the enclave boundary, which keep no protocol state, and the
  content of rows, keys and messages, which no property tells apart.
