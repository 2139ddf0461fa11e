----------------------------- MODULE LogReplay -----------------------------
(***************************************************************************)
(* A crash of the logger, and the replay of the file it left.  The process *)
(* is started again with g_log_recover: the log thread reads the file into *)
(* the ring (Logger::tryReadLog) while worker 0 takes the records out of   *)
(* it (re_txn_man::recover; the call in thread_t::run is commented out, so *)
(* that nothing here says when it runs).  Nothing is locked: the log       *)
(* thread infers from _next_lsn and _gc_lsn which cells are free.          *)
(*                                                                         *)
(* The ring is followed by MaxEntry cells that repeat its beginning, so    *)
(* that a record that wraps around can be read in one piece.  A cell holds *)
(* the position in the file it was read from.  Only worker 0 replays, so   *)
(* one _gc_lsn stands for the array.                                       *)
(***************************************************************************)
EXTENDS Logger

CONSTANTS
    ReadBlock,      \* g_read_blocksize
    RingSize,       \* _log_buffer_size when the process is started to recover
    OldFiles        \* the files an earlier run may have left: records and length

\* The parser enlarges the buffer if the block is half of it or more.  A record
\* fits the buffer, as it did when it was logged.
ASSUME ReadAssumption ==
    /\ ReadBlock \in Nat \ {0} /\ RingSize \in Nat
    /\ ReadBlock % Round = 0 /\ RingSize % Round = 0
    /\ ReadBlock < RingSize \div 2 /\ MaxEntry <= RingSize

\* The position after a record, in the log and in the file.
EndOf(r) == r.lsn + Aligned(r.size)

\* The records stand one after the other from the beginning up to `limit`; the
\* last one may go beyond it.
Chain(rs, limit) ==
    /\ limit > 0 => \E r \in rs : r.lsn = 0
    /\ \A r \in rs : EndOf(r) < limit => \E s \in rs : s.lsn = EndOf(r)

\* What a run wrote, the last record torn or not.
ASSUME FileAssumption ==
    \A f \in OldFiles :
        /\ f.end \in Nat /\ f.records \subseteq [lsn : Nat, size : 1..(MaxEntry - 1)]
        /\ Chain(f.records, f.end)

VARIABLES
    recovering,     \* the process runs with g_log_recover
    file,           \* the records in the data file, a torn last one included
    fileEnd,        \* the length of the data file
    ring,           \* _buffer, with its dummy tail
    disk_lsn, next_lsn, gc_lsn,
    rpc,            \* where the log thread is in tryReadLog
    gc, bytes,      \* its local variables
    entry           \* the record recover_txn works on, by its positions

readVars == <<ring, disk_lsn, rpc, gc, bytes>>
replayVars == <<next_lsn, gc_lsn, entry>>
allVars == <<vars, recovering, file, fileEnd, readVars, replayVars>>

NoCell == -1
NoEntry == [lsn |-> 0, size |-> 0]
NewRing == [i \in 0..(RingSize + MaxEntry - 1) |-> NoCell]
Extent(r) == [lsn |-> r.lsn, size |-> r.size]

RestartInit ==
    /\ Init
    /\ \/ recovering = FALSE /\ file = {} /\ fileEnd = 0 /\ ring = <<>>
       \/ /\ recovering = TRUE /\ ring = NewRing
          /\ \E f \in OldFiles : file = f.records /\ fileEnd = f.end
    /\ rpc = "next" /\ gc = 0 /\ bytes = 0
    /\ disk_lsn = 0 /\ next_lsn = 0 /\ gc_lsn = 0 /\ entry = NoEntry

-----------------------------------------------------------------------------
\* The logger at work; flushed records stay in the file.
Logging ==
    /\ ~recovering
    /\ file' = file \cup {Extent(r) : r \in records \ records'}
    /\ UNCHANGED <<recovering, fileEnd, readVars, replayVars>>

LogWork(t) == Work(t) /\ Logging
LogFlush == LogThreadStep /\ Logging
LogEnded == Ended /\ Logging

\* The logger's memory is gone; as it is not used again, it is as at the start.
Lost ==
    /\ lsn_' = 0 /\ persistent_lsn' = 0
    /\ filled_lsn' = [t \in Thread |-> 0]
    /\ allocate_lsn' = [t \in Thread |-> UINT64_MAX]
    /\ buffer' = [i \in DOMAIN buffer |-> NoByte]
    /\ chunk' = <<>> /\ meta' = 0 /\ batch_num' = 0 /\ sent' = 0 /\ started' = 0
    /\ pc' = [t \in Thread |-> "idle"]
    /\ rec' = [t \in Thread |-> [thd |-> t, size |-> 0, lsn |-> 0]]
    /\ loaded' = [t \in Thread |-> 0]
    /\ records' = {}
    /\ fpc' = "tail" /\ ready' = 0 /\ scan' = 1 /\ filledLSN' = 0 /\ end' = 0

\* Logger::init with g_log_recover: the buffer is allocated, the positions are 0.
init ==
    /\ ring' = NewRing
    /\ UNCHANGED <<disk_lsn, rpc, gc, bytes, replayVars>>

\* The process stops at any point, a write of the log thread under way or not,
\* and is started again to replay the file.
Crash ==
    /\ ~recovering /\ recovering' = TRUE
    /\ \E cut \in persistent_lsn..(IF fpc = "publish" THEN end ELSE persistent_lsn) :
          /\ cut % Round = 0
          /\ fileEnd' = cut
          /\ file' = {r \in file \cup {Extent(r) : r \in records} : r.lsn < cut}
    /\ Lost
    /\ init

-----------------------------------------------------------------------------
(***************************************************************************)
(* The log thread: LogThread::run calls tryReadLog until the file ends.    *)
(***************************************************************************)

Recovering == recovering /\ UNCHANGED <<vars, recovering, file, fileEnd>>

ReadNext ==
    /\ rpc = "next"
    /\ gc' = next_lsn
    /\ rpc' = "gc"
    /\ UNCHANGED <<ring, disk_lsn, bytes, replayVars>>

\* A worker that has not replayed a record has a _gc_lsn of 0, and the end of the
\* record it may be working on is taken for what is kept.
ReadGc ==
    /\ rpc = "gc"
    /\ gc' = IF gc > gc_lsn /\ gc_lsn # 0 THEN gc_lsn ELSE gc
    /\ rpc' = "read"
    /\ UNCHANGED <<ring, disk_lsn, bytes, replayVars>>

\* Where this read may end: a cell still in use is not overwritten.
ReadEnd ==
    LET kept == gc - (gc % Round) IN
    IF disk_lsn + ReadBlock - kept >= RingSize
    THEN kept + RingSize - Round
    ELSE disk_lsn + ReadBlock

HalfFull == disk_lsn - gc > RingSize \div 2
TooShort == ReadEnd - disk_lsn < ReadBlock \div 2 \/ ReadEnd = disk_lsn

\* Mutant of Repeated: a read that wraps around does not fill the dummy tail.
RepeatedNoWrap(k, from, to, short) == k >= from /\ (to > 0 => k < to)

\* Cell k of the ring is repeated in the dummy tail, by a read into the cells
\* from `from` up to `to`; a read that wraps around and ends in its first part
\* (short) does not reach the beginning.
Repeated(k, from, to, short) ==
    IF to > 0 /\ from >= to
    THEN k >= from \/ (~short /\ k < to)
    ELSE k >= from /\ (to > 0 => k < to)

\* The ring after the bytes of the file below `last` are read into it.
Filled(last, from, to) ==
    LET read(i) == {p \in disk_lsn..(last - 1) : p % RingSize = i}
        cell(i) == IF read(i) # {} THEN CHOOSE p \in read(i) : TRUE ELSE ring[i]
        short == last - disk_lsn < RingSize - from
    IN [i \in DOMAIN ring |->
           IF i < RingSize THEN cell(i)
           ELSE IF Repeated(i - RingSize, from, to, short) THEN cell(i - RingSize)
           ELSE ring[i]]

ReadNothing ==
    /\ rpc = "read" /\ (HalfFull \/ TooShort)
    /\ rpc' = "next" /\ gc' = 0
    /\ UNCHANGED <<ring, disk_lsn, bytes, replayVars>>

\* read(2) into the ring, in two parts where it wraps around.
ReadFile ==
    /\ rpc = "read" /\ ~HalfFull /\ ~TooShort
    /\ LET last == IF ReadEnd > fileEnd THEN fileEnd ELSE ReadEnd IN
       /\ ring' = Filled(last, disk_lsn % RingSize, ReadEnd % RingSize)
       /\ bytes' = last - disk_lsn
       /\ rpc' = IF last < ReadEnd THEN "eof" ELSE "publish"
    /\ gc' = 0
    /\ UNCHANGED <<disk_lsn, replayVars>>

\* *_disk_lsn = end_lsn; at the end of the file the thread returns.
PublishRead ==
    /\ rpc \in {"publish", "eof"}
    /\ disk_lsn' = disk_lsn + bytes
    /\ rpc' = IF rpc = "eof" THEN "finished" ELSE "next"
    /\ bytes' = 0
    /\ UNCHANGED <<ring, gc, replayVars>>

ReadStep ==
    Recovering /\ (ReadNext \/ ReadGc \/ ReadNothing \/ ReadFile \/ PublishRead)

-----------------------------------------------------------------------------
(***************************************************************************)
(* Worker 0: recover and get_next_log_entry_non_atom.                      *)
(***************************************************************************)

\* The size field of the record whose header was read from position p.
HeaderSize(p) ==
    IF \E r \in file : r.lsn = p THEN {r.size : r \in {x \in file : x.lsn = p}} ELSE Sizes

\* The records that can be taken: none if the header or the rest is not read yet.
\* (dead_tail, meant to leave out the last blocks of the file because of corrupted
\* data seen there, is 0.)
Available ==
    {[lsn |-> next_lsn, size |-> s] : s \in
        {s \in HeaderSize(ring[next_lsn % RingSize]) :
            next_lsn < disk_lsn /\ next_lsn + Aligned(s) < disk_lsn}}

TakeEntry ==
    /\ entry = NoEntry
    /\ \E r \in Available :
          /\ entry' = r
          /\ next_lsn' = EndOf(r)
    /\ UNCHANGED <<readVars, gc_lsn>>

\* There is none; the worker tries again, at the end of the file too.
AwaitEntry == entry = NoEntry /\ Available = {} /\ UNCHANGED <<readVars, replayVars>>

set_gc_lsn(lsn) == gc_lsn' = lsn

\* recover_txn has applied the record: its cells may be overwritten.
Applied ==
    /\ entry # NoEntry
    /\ set_gc_lsn(EndOf(entry) - 1)
    /\ entry' = NoEntry
    /\ UNCHANGED <<readVars, next_lsn>>

ReplayStep == Recovering /\ (TakeEntry \/ AwaitEntry \/ Applied)

-----------------------------------------------------------------------------
\* LogThread::run, in both modes.
LogThreadRuns == LogFlush \/ ReadStep

RestartNext ==
    (\E t \in Thread : LogWork(t)) \/ LogThreadRuns \/ ReplayStep \/ LogEnded \/ Crash

\* The threads that are started run until they return; nothing makes the process
\* crash, and nothing makes a worker replay.
RestartFairness ==
    (\A t \in Thread : WF_allVars(LogWork(t))) /\ WF_allVars(LogThreadRuns)

RestartSpec == RestartInit /\ [][RestartNext]_allVars /\ RestartFairness

-----------------------------------------------------------------------------
(***************************************************************************)
(* Properties.                                                             *)
(***************************************************************************)

\* The record is whole in the ring and its dummy tail.
Whole(r) == \A i \in 0..(r.size - 1) : ring[(r.lsn % RingSize) + i] = r.lsn + i

\* The record recover_txn works on is a record of the file that a crash has not
\* torn, never one misread; and from the second record on, when _gc_lsn says what
\* is done, it stays whole while the log thread reads on.  (The first record may
\* be overwritten while it is replayed: _gc_lsn is still 0 then.)
ReplayIntact ==
    entry # NoEntry =>
        /\ entry \in file /\ EndOf(entry) <= fileEnd
        /\ gc_lsn # 0 => Whole(entry)

=============================================================================
