------------------------------ MODULE HashSync ------------------------------
(***************************************************************************)
(* Synchronisation of page hashes between the read-write node and a        *)
(* read-only node (INDEX_STRUCT = IDX_HASH, a locking engine, USE_ASYNC_   *)
(* HASH).  A commit stamps the pages it wrote; every SYNC_VERSION_BATCH    *)
(* commits of a page, the worker whose commit completed the batch sends    *)
(* the page's hash.  Output threads pass it on, the read-only node's input *)
(* threads insert it into the page's hash_chain and vaccum the chain.      *)
(*                                                                         *)
(* A version is its commit timestamp; the hash value is data.  Pages are   *)
(* numbered by their addresses.  Every reading of the clock, which counts  *)
(* nanoseconds, gives a new time.  With MSG_TIME_LIMIT = 0 an output       *)
(* thread sends each message as soon as it has packed it.                  *)
(***************************************************************************)
EXTENDS Integers, Sequences, FiniteSets, SequencesExt, TLC

CONSTANTS
    Worker,         \* workers of the read-write node
    Reader,         \* workers of the read-only node
    Page,           \* the pages, numbered by address
    Query,          \* what a transaction accesses: sequences of [page, type]
    Queue,          \* output threads, each with a queue, a socket and the input
                    \* thread that serves it (OUTPUT_CNT = INPUT_CNT)
    SyncBatch,      \* SYNC_VERSION_BATCH
    VaccumTrigger,  \* VACCUM_TRIGGER
    MaxCommits,     \* bound: commits of all workers
    MaxBegins,      \* bound: transactions each reader begins
    NoQueue         \* the holder of a free page latch

ASSUME BatchAssumption == SyncBatch \in Nat \ {0}
ASSUME TriggerAssumption == VaccumTrigger \in Nat
ASSUME PageAssumption == Page \subseteq Nat
ASSUME BoundAssumption == MaxCommits \in Nat /\ MaxBegins \in Nat
ASSUME LatchAssumption == NoQueue \notin Queue
ASSUME QueryAssumption == Query \subseteq Seq([page : Page, type : {"RD", "WR"}])

VARIABLES
    clock,      \* get_sys_clock
    \* the read-write node
    tail_ts,    \* commit_ts of the tail of the page's chain
    batch_cnt,  \* hash_chain::batch_cnt
    pc, commits, query, commit_t,
    pos,        \* position of finish's loop over the pages
    m_queue,    \* MessageQueue::m_queue
    socket,     \* batches under way, in the order of the connection
    \* the read-only node
    chain,      \* hash_chain: commit_ts of the items, head to tail
    size,       \* hash_chain::size
    latch,      \* the page latch update_verify_hash holds
    ipc,        \* where each input thread is
    valid_ts,   \* the bound it vaccums to
    begin_ts, begins

rwVars == <<tail_ts, batch_cnt, pc, commits, query, commit_t, pos>>
roVars == <<chain, size, latch, ipc, valid_ts>>
readerVars == <<begin_ts, begins>>
vars == <<clock, rwVars, m_queue, socket, roVars, readerVars>>

HashMessage == [page : Page, ts : Nat]

\* IndexEnc::init, on either node: a chain for every page, to which the load of
\* the page gives its first item.
ChainInit ==
    /\ tail_ts = [p \in Page |-> 0]
    /\ batch_cnt = [p \in Page |-> 0]
    /\ chain = [p \in Page |-> <<0>>]
    /\ size = [p \in Page |-> 1]

\* MessageQueue::init and Transport::init: for every output thread a queue and a
\* connection of its own.
QueueInit == m_queue = [q \in Queue |-> <<>>]
TransportInit == socket = [q \in Queue |-> <<>>]

\* Both nodes have preloaded every page.
Init ==
    /\ clock = 1
    /\ ChainInit /\ QueueInit /\ TransportInit
    /\ pc = [w \in Worker |-> "idle"]
    /\ commits = 0
    /\ query = [w \in Worker |-> <<>>]
    /\ commit_t = [w \in Worker |-> 0]
    /\ pos = [w \in Worker |-> 1]
    /\ latch = [p \in Page |-> NoQueue]
    /\ ipc = [q \in Queue |-> "recv"]
    /\ valid_ts = [q \in Queue |-> 0]
    /\ begin_ts = [r \in Reader |-> 0]
    /\ begins = [r \in Reader |-> 0]

-----------------------------------------------------------------------------
(***************************************************************************)
(* The read-write node.                                                    *)
(***************************************************************************)
\* finish sorts the pages and leaves the accesses in the order of the query.
SortedPages(q) == SortSeq([i \in 1..Len(q) |-> q[i].page], <)

\* The loop takes the first occurrence of a page, and pairs it with the access
\* at the same position.
SyncsAt(q, i) ==
    LET ps == SortedPages(q) IN
        /\ i > 1 => ps[i] # ps[i - 1]
        /\ q[i].type = "WR"

PageAt(w) == SortedPages(query[w])[pos[w]]
InLoop(w) == pc[w] = "sync" /\ pos[w] <= Len(query[w])

\* finish(RCOK) of a transaction takes its commit time.
Commit(w) ==
    /\ pc[w] = "idle"
    /\ commits < MaxCommits
    /\ \E q \in Query : query' = [query EXCEPT ![w] = q]
    /\ commit_t' = [commit_t EXCEPT ![w] = clock]
    /\ clock' = clock + 1
    /\ commits' = commits + 1
    /\ pc' = [pc EXCEPT ![w] = "sync"]
    /\ UNCHANGED <<tail_ts, batch_cnt, pos, m_queue, socket, roVars, readerVars>>

\* A page already dealt with, or sync_version(..., updated = false): statistics.
SkipPage(w) ==
    /\ InLoop(w)
    /\ ~SyncsAt(query[w], pos[w])
    /\ pos' = [pos EXCEPT ![w] = @ + 1]
    /\ UNCHANGED <<clock, tail_ts, batch_cnt, pc, commits, query, commit_t, m_queue,
                   socket, roVars, readerVars>>

\* sync_version: the "delayed timestamp update" of the tail, under no lock.
StampTail(w) ==
    /\ InLoop(w)
    /\ SyncsAt(query[w], pos[w])
    /\ tail_ts' = [tail_ts EXCEPT ![PageAt(w)] = commit_t[w]]
    /\ pc' = [pc EXCEPT ![w] = "count"]
    /\ UNCHANGED <<clock, batch_cnt, commits, query, commit_t, pos, m_queue, socket,
                   roVars, readerVars>>

\* Mutant of CountCommit: every count from the batch size on sends.
CountAtLeast(w) ==
    /\ pc[w] = "count"
    /\ batch_cnt' = [batch_cnt EXCEPT ![PageAt(w)] = @ + 1]
    /\ IF batch_cnt[PageAt(w)] + 1 >= SyncBatch
       THEN pc' = [pc EXCEPT ![w] = "send"] /\ UNCHANGED pos
       ELSE pc' = [pc EXCEPT ![w] = "sync"] /\ pos' = [pos EXCEPT ![w] = @ + 1]
    /\ UNCHANGED <<clock, tail_ts, commits, query, commit_t, m_queue, socket, roVars,
                   readerVars>>

\* ATOM_ADD_FETCH on batch_cnt: only the commit that completes the batch goes on.
CountCommit(w) ==
    /\ pc[w] = "count"
    /\ batch_cnt' = [batch_cnt EXCEPT ![PageAt(w)] = @ + 1]
    /\ IF batch_cnt[PageAt(w)] + 1 = SyncBatch
       THEN pc' = [pc EXCEPT ![w] = "send"] /\ UNCHANGED pos
       ELSE pc' = [pc EXCEPT ![w] = "sync"] /\ pos' = [pos EXCEPT ![w] = @ + 1]
    /\ UNCHANGED <<clock, tail_ts, commits, query, commit_t, m_queue, socket, roVars,
                   readerVars>>

\* async_hash_value: the message goes to a queue chosen by the clock.
SendHash(w) ==
    /\ pc[w] = "send"
    /\ \E q \in Queue :
        m_queue' = [m_queue EXCEPT ![q] =
                        Append(@, [page |-> PageAt(w), ts |-> commit_t[w]])]
    /\ pc' = [pc EXCEPT ![w] = "reset"]
    /\ UNCHANGED <<clock, tail_ts, batch_cnt, commits, query, commit_t, pos, socket,
                   roVars, readerVars>>

\* batch_cnt = 0, a plain store: commits counted since the batch are forgotten.
ResetBatch(w) ==
    /\ pc[w] = "reset"
    /\ batch_cnt' = [batch_cnt EXCEPT ![PageAt(w)] = 0]
    /\ pos' = [pos EXCEPT ![w] = @ + 1]
    /\ pc' = [pc EXCEPT ![w] = "sync"]
    /\ UNCHANGED <<clock, tail_ts, commits, query, commit_t, m_queue, socket, roVars,
                   readerVars>>

\* The loop ends; cleanup does not touch the hashes, and the transaction's
\* variables die.
EndSync(w) ==
    /\ pc[w] = "sync"
    /\ pos[w] > Len(query[w])
    /\ pc' = [pc EXCEPT ![w] = "idle"]
    /\ query' = [query EXCEPT ![w] = <<>>]
    /\ commit_t' = [commit_t EXCEPT ![w] = 0]
    /\ pos' = [pos EXCEPT ![w] = 1]
    /\ UNCHANGED <<clock, tail_ts, batch_cnt, commits, m_queue, socket, roVars,
                   readerVars>>

WorkerStep(w) ==
    \/ Commit(w) \/ SkipPage(w) \/ StampTail(w) \/ CountCommit(w) \/ SendHash(w)
    \/ ResetBatch(w) \/ EndSync(w)

-----------------------------------------------------------------------------
(***************************************************************************)
(* Transport.                                                              *)
(***************************************************************************)
\* MessageQueue::dequeue: an output thread serves its own queue.
dequeue(q) ==
    /\ m_queue[q] # <<>>
    /\ m_queue' = [m_queue EXCEPT ![q] = Tail(@)]

\* Transport::send_msg, which retries until the socket takes the batch.
send_msg(q, msg) == socket' = [socket EXCEPT ![q] = Append(@, msg)]

\* Transport::recv_msg: the next batch of the connection the thread listens to.
recv_msg(q) ==
    /\ socket[q] # <<>>
    /\ socket' = [socket EXCEPT ![q] = Tail(@)]

\* Mutant of Output: the message leaves the queue and is not sent.
OutputLost(q) ==
    /\ dequeue(q)
    /\ UNCHANGED <<clock, rwVars, socket, roVars, readerVars>>

\* MessageThread::run: dequeue, pack and send.
Output(q) ==
    /\ dequeue(q)
    /\ send_msg(q, Head(m_queue[q]))
    /\ UNCHANGED <<clock, rwVars, roVars, readerVars>>

-----------------------------------------------------------------------------
(***************************************************************************)
(* The read-only node.                                                     *)
(***************************************************************************)
\* Mutant of Insert: every hash is linked after the tail.
InsertAtTail(ch, ts) == Append(ch, ts)

\* hash_chain::insert, on the commit timestamps: after the tail, before the
\* head, or before the first later one unless it is there already.
Insert(ch, ts) ==
    IF ch = <<>> \/ ts > Last(ch) THEN Append(ch, ts)
    ELSE IF ts < Head(ch) THEN <<ts>> \o ch
    ELSE LET i == Min({j \in 1..Len(ch) : ch[j] >= ts})
         IN IF ch[i] = ts THEN ch ELSE InsertAt(ch, i, ts)

\* The commit_ts hash_chain::get(ts) answers with, or NoVersion.
NoVersion == -1
Get(ch, ts) ==
    IF ch = <<>> \/ ts < Head(ch) THEN NoVersion
    ELSE Max({v \in Range(ch) : v <= ts})

\* Mutant of Dropped: an item goes when it is itself old enough.
DroppedByOwnTs(ch, sz, ts) ==
    Max({n \in 0..Len(ch) : \A i \in 1..n : ch[i] <= ts})

\* How many items hash_chain::vaccum drops from the head: while there are two,
\* and the second is old enough to serve ts.
Dropped(ch, sz, ts) ==
    Max({n \in 0..(Len(ch) - 1) : n < sz /\ \A i \in 2..(n + 1) : ch[i] <= ts} \cup {0})

\* Stats::get_min_begin_ts, which computes the largest.
MinBeginTs == Max({begin_ts[r] : r \in Reader} \cup {0})

\* latch_node for LATCH_EX, which is tried until it succeeds, and release_latch.
latch_node(p, q) == latch[p] = NoQueue /\ latch' = [latch EXCEPT ![p] = q]
release_latch(p) == latch' = [latch EXCEPT ![p] = NoQueue]

\* InputThread: a message is received, and update_verify_hash latches the page
\* and inserts the hash.
Receive(q) ==
    /\ ipc[q] = "recv"
    /\ recv_msg(q)
    /\ LET m == Head(socket[q])
           p == m.page
       IN /\ latch_node(p, q)
          /\ chain' = [chain EXCEPT ![p] = Insert(@, m.ts)]
          /\ size' = [size EXCEPT ![p] = IF m.ts \in Range(chain[p]) THEN @ ELSE @ + 1]
    /\ ipc' = [ipc EXCEPT ![q] = "inserted"]
    /\ UNCHANGED <<clock, rwVars, m_queue, valid_ts, readerVars>>

\* The page an input thread is updating.
LatchedPage(q) == CHOOSE p \in Page : latch[p] = q

\* A chain grown past the trigger is going to be vaccumed.
CheckSize(q) ==
    /\ ipc[q] = "inserted"
    /\ IF size[LatchedPage(q)] > VaccumTrigger
       THEN /\ valid_ts' = [valid_ts EXCEPT ![q] = MinBeginTs]
            /\ ipc' = [ipc EXCEPT ![q] = "vaccum"]
       ELSE /\ ipc' = [ipc EXCEPT ![q] = "release"]
            /\ UNCHANGED valid_ts
    /\ UNCHANGED <<clock, rwVars, m_queue, socket, chain, size, latch, readerVars>>

Vaccum(q) ==
    /\ ipc[q] = "vaccum"
    /\ LET p == LatchedPage(q)
           n == Dropped(chain[p], size[p], valid_ts[q])
       IN /\ chain' = [chain EXCEPT ![p] = SubSeq(@, n + 1, Len(@))]
          /\ size' = [size EXCEPT ![p] = @ - n]
    /\ ipc' = [ipc EXCEPT ![q] = "release"]
    /\ valid_ts' = [valid_ts EXCEPT ![q] = 0]
    /\ UNCHANGED <<clock, rwVars, m_queue, socket, latch, readerVars>>

\* sync_bucket_from_disk, then the page latch and the cache pin are released.
Release(q) ==
    /\ ipc[q] = "release"
    /\ release_latch(LatchedPage(q))
    /\ ipc' = [ipc EXCEPT ![q] = "recv"]
    /\ UNCHANGED <<clock, rwVars, m_queue, socket, chain, size, valid_ts, readerVars>>

InputStep(q) == Receive(q) \/ CheckSize(q) \/ Vaccum(q) \/ Release(q)

\* thread_t::run of a read-only worker publishes the time it begins at.  Its
\* lookups, load_bucket's get(get_enc_time()), change nothing.
BeginTxn(r) ==
    /\ begins[r] < MaxBegins
    /\ begins' = [begins EXCEPT ![r] = @ + 1]
    /\ begin_ts' = [begin_ts EXCEPT ![r] = clock]
    /\ clock' = clock + 1
    /\ UNCHANGED <<rwVars, m_queue, socket, roVars>>

-----------------------------------------------------------------------------
\* Every commit is synchronised and every hash handled.
Quiescent ==
    /\ \A w \in Worker : pc[w] = "idle" /\ commits = MaxCommits
    /\ \A q \in Queue : m_queue[q] = <<>> /\ socket[q] = <<>> /\ ipc[q] = "recv"
    /\ UNCHANGED vars

Next ==
    \/ \E w \in Worker : WorkerStep(w)
    \/ \E q \in Queue : Output(q) \/ InputStep(q)
    \/ \E r \in Reader : BeginTxn(r)
    \/ Quiescent

\* Output and input threads poll until sim_done, when they return with whatever
\* is queued; the fairness is that of the run before.
Fairness == \A q \in Queue : WF_vars(Output(q)) /\ WF_vars(InputStep(q))

Spec == Init /\ [][Next]_vars
FairSpec == Spec /\ Fairness

-----------------------------------------------------------------------------
(***************************************************************************)
(* Properties.                                                             *)
(***************************************************************************)

\* The types of both nodes' state and of the messages between them.
TypeOK ==
    /\ clock \in Nat
    /\ tail_ts \in [Page -> Nat] /\ batch_cnt \in [Page -> Nat]
    /\ pc \in [Worker -> {"idle", "sync", "count", "send", "reset"}]
    /\ commits \in Nat
    /\ query \in [Worker -> Query \cup {<<>>}]
    /\ commit_t \in [Worker -> Nat] /\ pos \in [Worker -> Nat]
    /\ m_queue \in [Queue -> Seq(HashMessage)]
    /\ socket \in [Queue -> Seq(HashMessage)]
    /\ chain \in [Page -> Seq(Nat)] /\ size \in [Page -> Nat]
    /\ latch \in [Page -> Queue \cup {NoQueue}]
    /\ ipc \in [Queue -> {"recv", "inserted", "vaccum", "release"}]
    /\ valid_ts \in [Queue -> Nat]
    /\ begin_ts \in [Reader -> Nat] /\ begins \in [Reader -> Nat]

Sending(w, p) == pc[w] \in {"send", "reset"} /\ PageAt(w) = p

\* A full batch of a page has exactly one worker that sends its hash and resets
\* the counter, however many commits are counted before the reset: the counter
\* can neither stay full with nobody to reset it, nor have two hashes sent.
OneSenderPerBatch ==
    \A p \in Page :
        /\ batch_cnt[p] >= SyncBatch <=> \E w \in Worker : Sending(w, p)
        /\ \A v, w \in Worker : Sending(v, p) /\ Sending(w, p) => v = w

\* Hashes arrive in any order of their timestamps, before and after a vaccum,
\* and still the chain is sorted without repetition and its size is right, which
\* is what insert, get and vaccum rely on when they look at the tail only.
ChainSound ==
    \A p \in Page :
        /\ size[p] = Len(chain[p])
        /\ \A i, j \in 1..Len(chain[p]) : i < j => chain[p][i] < chain[p][j]

\* The version a lookup of the page is served now.
Served(p) == Get(chain[p], clock)

\* No lookup is served an older version than an earlier one was, or none at
\* all: neither a late hash nor a vaccum, whose bound is the largest begin_ts
\* although it is called the smallest, takes the newest version away.
ServedNeverOlder == [][\A p \in Page : Served(p)' >= Served(p)]_vars

\* The times a bounded instance can reach.
Time == 1..(MaxCommits + Cardinality(Reader) * MaxBegins)

Queued(p, ts) == \E q \in Queue : \E i \in 1..Len(m_queue[q]) :
    m_queue[q][i] = [page |-> p, ts |-> ts]

\* A hash that was sent arrives: lookups are then served it or a newer one.
HashArrives == \A p \in Page : \A ts \in Time : Queued(p, ts) ~> Served(p) >= ts

=============================================================================
