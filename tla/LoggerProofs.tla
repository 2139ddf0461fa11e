---------------------------- MODULE LoggerProofs ----------------------------
(***************************************************************************)
(* Proofs about Logger and LogReplay for any number of workers, any record *)
(* sizes, block sizes and ring that the constants' assumptions allow.      *)
(***************************************************************************)
EXTENDS LogReplay, SeqLemmas

-----------------------------------------------------------------------------
(***************************************************************************)
(* The inductive invariant.                                                *)
(***************************************************************************)
\* A worker's record has a position and is not reported filled.
UnderWay(t) == pc[t] \in {"copy", "send", "fill"}

\* The log thread is at work on what it read from *_lsn.
Flushing == fpc \in {"filled", "allocated", "decide", "publish"}

\* What is flushed lies below what is ready, and that below the tail.
TailInv ==
    /\ persistent_lsn <= lsn_ /\ persistent_lsn % Round = 0
    /\ Flushing => ready <= lsn_
    /\ fpc = "tail" => scan = 1
    /\ fpc \in {"filled", "allocated"} => scan <= N
    /\ IF fpc = "publish"
       THEN /\ persistent_lsn <= end /\ end <= ready /\ end % Round = 0
            /\ DOMAIN chunk = persistent_lsn..(end - 1)
       ELSE DOMAIN chunk = {}

\* The position from which on the ring counts as full.
Threshold == persistent_lsn + BufferSize - MaxEntry * N

\* Workers that may still claim a position if the ring counts as full from c on:
\* they have passed the space check, or will pass it with the tail they loaded.
Passing(c) ==
    {t \in Thread : \/ pc[t] \in {"mark", "allocate", "fetch"}
                    \/ pc[t] = "space" /\ loaded[t] + rec[t].size < c}

\* Once the tail is past c, only those workers add to it, each once.  For the
\* present threshold that is RingNotOverrun; the threshold moves while workers
\* hold stale tails, so it is needed for all later ones as well.
SpaceInv ==
    \A c \in Nat : Threshold <= c /\ c <= lsn_ =>
        lsn_ + MaxEntry * Cardinality(Passing(c)) < c + MaxEntry * N

\* A worker's counters follow the tail in the order it writes them.
OrderOK(t) ==
    /\ filled_lsn[t] <= lsn_ /\ rec[t].thd = t
    /\ pc[t] # "idle" => rec[t].size \in Sizes
    /\ pc[t] = "allocate" => filled_lsn[t] <= loaded[t] /\ loaded[t] <= lsn_
    /\ pc[t] = "fetch" => filled_lsn[t] <= allocate_lsn[t] /\ allocate_lsn[t] <= lsn_
    /\ UnderWay(t) =>
          /\ filled_lsn[t] <= allocate_lsn[t] /\ allocate_lsn[t] <= rec[t].lsn
          /\ rec[t] \in records /\ persistent_lsn <= rec[t].lsn

\* The log thread's scan: no record of a worker it has looked at lies below ready.
Scanned(t) == fpc \in {"decide", "publish"} \/ (fpc \in {"filled", "allocated"} /\ t < scan)
ScanOK(t) ==
    /\ Scanned(t) /\ UnderWay(t) => ready <= rec[t].lsn
    /\ fpc = "allocated" /\ t = scan => filledLSN <= filled_lsn[t]

\* A record that is in the ring keeps all its bytes until they are flushed.
Copied(r) == ~(pc[r.thd] = "copy" /\ rec[r.thd] = r)
RecordOK(r) ==
    /\ r.size \in Sizes /\ r.lsn + Aligned(r.size) <= lsn_
    /\ Copied(r) => \A p \in r.lsn..(r.lsn + r.size - 1) :
                        p >= persistent_lsn => buffer[p % BufferSize] = <<r.thd, p>>

LogInv ==
    /\ TypeOK /\ TailInv /\ SpaceInv
    /\ \A t \in Thread : OrderOK(t) /\ ScanOK(t)
    /\ \A r \in records : RecordOK(r)
    /\ RecordsDisjoint /\ FlushedIntact

-----------------------------------------------------------------------------
(***************************************************************************)
(* Arithmetic of positions.                                                *)
(***************************************************************************)
\* Division with remainder.
LEMMA DivMod ==
  ASSUME NEW x \in Int, NEW n \in Nat, n > 0
  PROVE  /\ x \div n \in Int /\ x % n \in Nat /\ x % n < n
         /\ x = n * (x \div n) + (x % n)
  OBVIOUS

\* The remainder is determined by the equation.
LEMMA ModIs ==
  ASSUME NEW q \in Int, NEW n \in Nat, NEW r \in Nat, r < n
  PROVE  (n * q + r) % n = r
  OBVIOUS

\* Multiples of n that are less than n apart are equal.
LEMMA MultipleApart ==
  ASSUME NEW n \in Nat, n > 0, NEW j \in Int, NEW k \in Int, n * j < n * k + n
  PROVE  j <= k
<1> SUFFICES ASSUME j > k PROVE FALSE
  OBVIOUS
<1>1. PICK d \in Nat : j = k + 1 + d
  <2>1. j - k - 1 \in Nat /\ j = k + 1 + (j - k - 1)
    OBVIOUS
  <2> QED BY <2>1
<1>2. n * j = n * k + n + n * d
  BY <1>1
<1>3. n * d \in Nat /\ n * k \in Int
  OBVIOUS
<1> QED BY <1>2, <1>3

\* Positions less than n apart lie in different cells of a ring of n.
LEMMA SameCell ==
  ASSUME NEW n \in Nat, n > 0, NEW a \in Int, NEW b \in Int,
         a % n = b % n, a < b + n, b < a + n
  PROVE  a = b
<1>1. /\ a \div n \in Int /\ b \div n \in Int /\ a % n \in Nat
      /\ a = n * (a \div n) + (a % n)
      /\ b = n * (b \div n) + (a % n)
  BY DivMod
<1> DEFINE j == a \div n
           k == b \div n
           r == a % n
<1>2. j \in Int /\ k \in Int /\ r \in Nat /\ a = n * j + r /\ b = n * k + r
  BY <1>1
<1> HIDE DEF j, k, r
<1>3. n * j \in Int /\ n * k \in Int
  BY <1>2
<1>4. n * j < n * k + n /\ n * k < n * j + n
  BY <1>2, <1>3
<1>5. j <= k /\ k <= j
  BY <1>2, <1>4, MultipleApart
<1>6. j = k
  BY <1>2, <1>5
<1> QED BY <1>2, <1>6

\* The distance of cell i from position l leads back to the cell,
LEMMA CellAhead ==
  ASSUME NEW n \in Nat, n > 0, NEW l \in Int, NEW i \in 0..(n - 1)
  PROVE  (l + ((i - l) % n)) % n = i
<1> DEFINE q == (i - l) \div n
           d == (i - l) % n
<1>1. q \in Int /\ d \in Nat /\ i - l = n * q + d
  BY DivMod
<1> HIDE DEF q, d
<1>2. l + d = n * (-q) + i /\ -q \in Int
  BY <1>1
<1>3. (n * (-q) + i) % n = i
  BY <1>2, ModIs
<1> QED BY <1>2, <1>3 DEF d

\* and that of the cell of a later position is how much later it is.
LEMMA CellDistance ==
  ASSUME NEW n \in Nat, n > 0, NEW l \in Int, NEW p \in Int, l <= p, p < l + n
  PROVE  ((p % n) - l) % n = p - l
<1> DEFINE q == p \div n
           d == p % n
<1>1. q \in Int /\ d \in Nat /\ p = n * q + d
  BY DivMod
<1> HIDE DEF q, d
<1>2. d - l = n * (-q) + (p - l) /\ -q \in Int
  BY <1>1
<1>3. (n * (-q) + (p - l)) % n = p - l
  BY <1>2, ModIs
<1> QED BY <1>2, <1>3 DEF d

\* Multiples add up.
LEMMA MultipleSum ==
  ASSUME NEW n \in Nat, n > 0, NEW a \in Nat, NEW b \in Nat, a % n = 0, b % n = 0
  PROVE  (a + b) % n = 0
<1> DEFINE j == a \div n
           k == b \div n
<1>1. j \in Int /\ k \in Int /\ a = n * j /\ b = n * k
  BY DivMod
<1> HIDE DEF j, k
<1>2. a + b = n * (j + k) + 0 /\ j + k \in Int
  BY <1>1
<1>3. (n * (j + k) + 0) % n = 0
  BY <1>2, ModIs
<1> QED BY <1>2, <1>3

\* Rounding down to a multiple of n stays above every multiple below.
LEMMA RoundDown ==
  ASSUME NEW n \in Nat, n > 0, NEW m \in Nat, NEW x \in Nat, m % n = 0, m <= x
  PROVE  m <= x - (x % n) /\ x - (x % n) <= x
<1> DEFINE j == m \div n
           k == x \div n
           r == x % n
<1>1. j \in Int /\ k \in Int /\ r \in Nat /\ r < n /\ m = n * j /\ x = n * k + r
  BY DivMod
<1> HIDE DEF j, k, r
<1>2. n * j \in Int /\ n * k \in Int /\ n * j < n * k + n
  BY <1>1
<1>3. j <= k
  BY <1>1, <1>2, MultipleApart
<1>4. PICK d \in Nat : k = j + d
  <2>1. k - j \in Nat /\ k = j + (k - j)
    BY <1>1, <1>3
  <2> QED BY <2>1
<1>5. n * k = n * j + n * d /\ n * d \in Nat
  BY <1>1, <1>4
<1>6. n * j <= n * k
  BY <1>2, <1>5
<1> QED BY <1>1, <1>2, <1>6 DEF r

\* A record's aligned size has room for the record, and is at most the largest.
LEMMA AlignedSize ==
  ASSUME NEW s \in 1..(MaxEntry - 1)
  PROVE  Aligned(s) \in Nat /\ s <= Aligned(s) /\ Aligned(s) <= MaxEntry
<1>1. Align \in Nat /\ Align > 0 /\ MaxEntry \in Nat /\ MaxEntry % Align = 0 /\ s \in Nat
  BY SizeAssumption
<1> DEFINE k == s \div Align
           r == s % Align
           m == MaxEntry \div Align
<1>2. k \in Int /\ r \in Nat /\ r < Align /\ s = Align * k + r
  BY <1>1, DivMod
<1>3. m \in Int /\ MaxEntry = Align * m
  BY <1>1, DivMod
<1> HIDE DEF k, m
<1>4. CASE r = 0
  BY <1>1, <1>4 DEF Aligned
<1>5. CASE r # 0
  <2>1. Aligned(s) = s + Align - r
    BY <1>5 DEF Aligned
  <2> HIDE DEF r
  <2>2. Align * k \in Int /\ Align * m \in Int /\ Align * k < Align * m
    BY <1>1, <1>2, <1>3, <1>5
  <2>3. Align * (k + 1) = Align * k + Align /\ k + 1 \in Int
    BY <1>1, <1>2
  <2>4. ~(m <= k)
    <3> SUFFICES ASSUME m <= k PROVE FALSE
      OBVIOUS
    <3>1. k - m \in Nat /\ Align * k = Align * m + Align * (k - m)
      BY <1>1, <1>2, <1>3
    <3>2. Align * (k - m) \in Nat
      BY <1>1, <3>1
    <3> QED BY <2>2, <3>1, <3>2
  <2>5. m - (k + 1) \in Nat /\ Align * m = Align * (k + 1) + Align * (m - (k + 1))
    BY <1>1, <1>2, <1>3, <2>4
  <2>6. Align * (m - (k + 1)) \in Nat
    BY <1>1, <2>5
  <2>7. Align * (k + 1) <= Align * m
    BY <1>1, <2>2, <2>3, <2>5, <2>6
  <2> QED BY <1>1, <1>2, <1>3, <2>1, <2>2, <2>3, <2>7
<1> QED BY <1>4, <1>5

\* The constants' assumptions, and the size of a record under way.
LEMMA Constants ==
  /\ N \in Nat /\ N > 0 /\ MaxEntry \in Nat
  /\ Round \in Nat /\ Round > 0 /\ Block \in Nat /\ Block > 0 /\ Block % Round = 0
  /\ BufferSize \in Nat /\ BufferSize > 0
  /\ MaxEntry * N \in Nat /\ MaxEntry * N + Block < BufferSize
  /\ MaxEntry < BufferSize
  /\ \A s \in Sizes : s \in 1..(MaxEntry - 1) /\ s \in Nat /\ s > 0 /\ s < BufferSize
  /\ \A s \in Sizes : Aligned(s) \in Nat /\ s <= Aligned(s) /\ Aligned(s) <= MaxEntry
<1>1. /\ N \in Nat /\ N > 0 /\ MaxEntry \in Nat
      /\ Round \in Nat /\ Round > 0 /\ Block \in Nat /\ Block > 0 /\ Block % Round = 0
      /\ BufferSize \in Nat /\ N * MaxEntry + Block < BufferSize
  BY WorkerAssumption, SizeAssumption, FlushAssumption
<1>2. N * MaxEntry = MaxEntry * N /\ MaxEntry * N \in Nat
  BY <1>1
<1>3. MaxEntry <= MaxEntry * N
  <2>1. N - 1 \in Nat /\ MaxEntry * N = MaxEntry + MaxEntry * (N - 1)
    BY <1>1
  <2>2. MaxEntry * (N - 1) \in Nat
    BY <1>1, <2>1
  <2> QED BY <1>1, <2>1, <2>2
<1>4. BufferSize > 0 /\ MaxEntry * N + Block < BufferSize /\ MaxEntry < BufferSize
  BY <1>1, <1>2, <1>3
<1>5. \A s \in Sizes : s \in 1..(MaxEntry - 1)
  BY SizeAssumption
<1>6. \A s \in Sizes : s \in 1..(MaxEntry - 1) /\ s \in Nat /\ s > 0 /\ s < BufferSize
  BY <1>1, <1>4, <1>5
<1>7. \A s \in Sizes : Aligned(s) \in Nat /\ s <= Aligned(s) /\ Aligned(s) <= MaxEntry
  BY <1>5, AlignedSize
<1> QED BY <1>1, <1>2, <1>4, <1>6, <1>7

\* Where a worker is in logTxn, it has a size, and its end a place.
LEMMA Position ==
  ASSUME TypeOK, NEW t \in Thread
  PROVE  /\ rec[t] \in Record /\ rec[t].size \in Nat /\ rec[t].lsn \in Nat /\ rec[t].thd \in Thread
         /\ loaded[t] \in Nat /\ filled_lsn[t] \in Nat /\ allocate_lsn[t] \in Nat
<1>1. rec[t] \in Record /\ loaded[t] \in Nat /\ filled_lsn[t] \in Nat /\ allocate_lsn[t] \in Nat
  BY DEF TypeOK
<1> QED BY <1>1, Constants DEF Record

-----------------------------------------------------------------------------
(***************************************************************************)
(* Types.                                                                  *)
(***************************************************************************)
\* The log thread's types, when it changes nothing of the workers'.
LEMMA TypeLogThread ==
  ASSUME TypeOK, TailInv, LogThreadStep
  PROVE  TypeOK'
<1> USE DEF TypeOK, workerVars, remoteVars
<1>0. N \in Nat /\ N > 0
  BY Constants
<1>1. CASE ReadTail
  BY <1>1 DEF ReadTail
<1>2. CASE ReadFilled
  <2>1. scan \in Thread
    BY <1>0, <1>2 DEF ReadFilled, TailInv, Thread
  <2> QED BY <1>2, <2>1 DEF ReadFilled
<1>3. CASE ReadAllocated
  <2>1. scan \in Thread
    BY <1>0, <1>3 DEF ReadAllocated, TailInv, Thread
  <2>2. ready' \in Nat
    BY <1>3, <2>1 DEF ReadAllocated
  <2>3. scan' \in 1..(N + 1)
    BY <1>0, <1>3, <2>1 DEF ReadAllocated, Thread
  <2> QED BY <1>3, <2>2, <2>3 DEF ReadAllocated
<1>4. CASE FlushNothing
  BY <1>0, <1>4 DEF FlushNothing, ReturnFlush
<1>5. CASE AssertFails
  BY <1>5 DEF AssertFails
<1>6. CASE Flush
  <2> DEFINE rounded == ready - (ready % Round)
             cut == IF rounded - persistent_lsn > Block THEN persistent_lsn + Block ELSE rounded
  <2>1. end' = cut /\ chunk' = [p \in persistent_lsn..(cut - 1) |-> buffer[p % BufferSize]]
    BY <1>6 DEF Flush
  <2>2. rounded \in Nat
    <3>1. ready \in Nat /\ Round \in Nat /\ Round > 0
      BY Constants
    <3>2. PICK z \in Nat : z = 0
      OBVIOUS
    <3>5. z % Round = 0 /\ z <= ready
      BY <3>1, <3>2
    <3>3. z <= ready - (ready % Round)
      BY <3>1, <3>5, RoundDown
    <3>4. ready % Round \in Nat
      BY <3>1, DivMod
    <3> QED BY <3>1, <3>2, <3>3, <3>4
  <2> HIDE DEF rounded
  <2>3. cut \in Nat
    BY <2>2, Constants
  <2> HIDE DEF cut
  <2>4. \A p \in persistent_lsn..(cut - 1) : buffer[p % BufferSize] \in Byte
    <3> TAKE p \in persistent_lsn..(cut - 1)
    <3>1. p \in Int
      BY <2>3
    <3>2. p % BufferSize \in 0..(BufferSize - 1)
      BY <3>1, Constants, DivMod
    <3> QED BY <3>2
  <2>5. \A p \in DOMAIN chunk' : chunk'[p] \in Byte
    BY <2>1, <2>4
  <2> QED BY <1>6, <2>1, <2>3, <2>5 DEF Flush
<1>7. CASE Publish
  <2>1. buffer' \in [0..(BufferSize - 1) -> Byte]
    BY <1>7 DEF Publish, ForgetFlushed, Byte
  <2>2. records' \subseteq Record
    BY <1>7 DEF Publish, ForgetFlushed
  <2> QED BY <1>0, <1>7, <2>1, <2>2 DEF Publish, ReturnFlush
<1> QED BY <1>1, <1>2, <1>3, <1>4, <1>5, <1>6, <1>7 DEF LogThreadStep

\* The workers' types.
LEMMA TypeWorker ==
  ASSUME TypeOK, NEW t \in Thread, OrderOK(t), Work(t)
  PROVE  TypeOK'
<1> USE DEF TypeOK, tailVars, remoteVars, flushVars
<1>0. /\ rec[t] \in Record /\ rec[t].size \in Nat /\ rec[t].lsn \in Nat
      /\ loaded[t] \in Nat
  BY Position
<1>1. CASE StartRecord(t)
  <2>1. rec' \in [Thread -> Record]
    <3>1. PICK s \in Sizes : rec' = [rec EXCEPT ![t].size = s]
      BY <1>1 DEF StartRecord
    <3> QED BY <1>0, <3>1 DEF Record
  <2>2. loaded' \in [Thread -> Nat]
    BY <1>1 DEF StartRecord
  <2>5. started' \in 0..MaxRecords
    BY <1>1, WorkerAssumption DEF StartRecord
  <2>3. pc' \in [Thread -> PC]
    BY <1>1 DEF StartRecord, Goto, PC
  <2> QED BY <1>1, <2>1, <2>2, <2>3, <2>5 DEF StartRecord
<1>2. CASE \E a \in {"check", "mark"}, b \in {"space", "allocate"} : LoadLsn(t, a, b)
  <2>1. loaded' \in [Thread -> Nat]
    BY <1>2 DEF LoadLsn
  <2>2. pc' \in [Thread -> PC]
    BY <1>2 DEF LoadLsn, Goto, PC
  <2> QED BY <1>2, <2>1, <2>2 DEF LoadLsn
<1>3. CASE CheckSpace(t)
  <2>1. loaded' \in [Thread -> Nat]
    BY <1>3 DEF CheckSpace, Forget
  <2>2. pc' \in [Thread -> PC]
    BY <1>3 DEF CheckSpace, Goto, PC
  <2> QED BY <1>3, <2>1, <2>2 DEF CheckSpace
<1>4. CASE StoreAllocate(t)
  <2>1. loaded' \in [Thread -> Nat] /\ allocate_lsn' \in [Thread -> Nat]
    BY <1>0, <1>4 DEF StoreAllocate, Forget
  <2>2. pc' \in [Thread -> PC]
    BY <1>4 DEF StoreAllocate, Goto, PC
  <2> QED BY <1>4, <2>1, <2>2 DEF StoreAllocate
<1>5. CASE CopyRecord(t)
  <2> DEFINE at(i) == (i - rec[t].lsn) % BufferSize
  <2>1. \A i \in 0..(BufferSize - 1) : at(i) \in Nat /\ rec[t].lsn + at(i) \in Nat
    BY <1>0, Constants, DivMod
  <2>2. buffer' = [i \in 0..(BufferSize - 1) |->
                     IF at(i) < rec[t].size THEN <<t, rec[t].lsn + at(i)>> ELSE buffer[i]]
    BY <1>5 DEF CopyRecord
  <2> HIDE DEF at
  <2>3. buffer' \in [0..(BufferSize - 1) -> Byte]
    BY <2>1, <2>2 DEF Byte
  <2>4. pc' \in [Thread -> PC]
    BY <1>5 DEF CopyRecord, Goto, PC
  <2> QED BY <1>5, <2>3, <2>4 DEF CopyRecord
<1>6. CASE SendLog(t)
  <2>1. batch_num' \in 0..LOG_BATCH_SIZE /\ sent' \in Nat
    BY <1>6, BatchAssumption DEF SendLog
  <2>2. pc' \in [Thread -> PC]
    BY <1>6 DEF SendLog, Goto, PC
  <2> QED BY <1>6, <2>1, <2>2 DEF SendLog
<1>7. CASE StoreFilled(t)
  <2>1. Aligned(rec[t].size) \in Nat
    BY <1>7, Constants DEF StoreFilled, OrderOK
  <2>2. filled_lsn' \in [Thread -> Nat]
    <3>1. filled_lsn' = [filled_lsn EXCEPT ![t] = rec[t].lsn + Aligned(rec[t].size)]
      BY <1>7 DEF StoreFilled
    <3>2. rec[t].lsn + Aligned(rec[t].size) \in Nat
      BY <1>0, <2>1
    <3> QED BY <3>1, <3>2
  <2>3. rec' \in [Thread -> Record]
    BY <1>0, <1>7 DEF StoreFilled, Record
  <2>4. pc' \in [Thread -> PC]
    BY <1>7 DEF StoreFilled, Goto, PC
  <2> QED BY <1>7, <2>2, <2>3, <2>4 DEF StoreFilled
<1>8. CASE FetchAdd(t)
  <2>1. lsn_' \in Nat
    <3>1. Aligned(rec[t].size) \in Nat
      BY <1>8, Constants DEF FetchAdd, OrderOK
    <3> QED BY <1>8, <3>1 DEF FetchAdd
  <2>2. rec' \in [Thread -> Record] /\ records' \subseteq Record
    BY <1>0, <1>8 DEF FetchAdd, SettleAt, Record
  <2>3. pc' \in [Thread -> PC]
    BY <1>8 DEF FetchAdd, Goto, PC
  <2> QED BY <1>8, <2>1, <2>2, <2>3 DEF FetchAdd
<1> QED BY <1>1, <1>2, <1>3, <1>4, <1>5, <1>6, <1>7, <1>8
        DEF Work, AppendStep, LoadAgain, LoadForMark

-----------------------------------------------------------------------------
(***************************************************************************)
(* Counters and the space in the ring.                                     *)
(***************************************************************************)
\* A worker leaves the log thread and the other workers alone, and moves the
\* tail forward only.
LEMMA WorkerFrame ==
  ASSUME TypeOK, NEW t \in Thread, OrderOK(t), Work(t)
  PROVE  /\ UNCHANGED <<persistent_lsn, chunk, flushVars>>
         /\ lsn_ \in Nat /\ lsn_' \in Nat /\ lsn_ <= lsn_'
         /\ \A u \in Thread \ {t} :
               /\ pc'[u] = pc[u] /\ rec'[u] = rec[u] /\ loaded'[u] = loaded[u]
               /\ filled_lsn'[u] = filled_lsn[u] /\ allocate_lsn'[u] = allocate_lsn[u]
<1>1. UNCHANGED <<persistent_lsn, chunk, flushVars>>
  BY DEF Work, AppendStep, LoadAgain, LoadForMark, StartRecord, LoadLsn, CheckSpace,
         StoreAllocate, CopyRecord, SendLog, StoreFilled, FetchAdd, tailVars
<1>2. lsn_ \in Nat /\ lsn_' \in Nat
  BY TypeWorker DEF TypeOK
<1>3. lsn_ <= lsn_'
  <2>1. CASE FetchAdd(t)
    <3>1. Aligned(rec[t].size) \in Nat
      BY <2>1, Constants DEF FetchAdd, OrderOK
    <3> QED BY <1>2, <2>1, <3>1 DEF FetchAdd
  <2>2. CASE AppendStep(t)
    <3>1. lsn_' = lsn_
      BY <2>2 DEF AppendStep, LoadAgain, LoadForMark, StartRecord, LoadLsn, CheckSpace,
         StoreAllocate, CopyRecord, SendLog, StoreFilled, tailVars
    <3> QED BY <1>2, <3>1
  <2> QED BY <2>1, <2>2 DEF Work
<1>4. ASSUME NEW u \in Thread \ {t}
      PROVE  /\ pc'[u] = pc[u] /\ rec'[u] = rec[u] /\ loaded'[u] = loaded[u]
             /\ filled_lsn'[u] = filled_lsn[u] /\ allocate_lsn'[u] = allocate_lsn[u]
  BY DEF TypeOK, Work, AppendStep, LoadAgain, LoadForMark, StartRecord, LoadLsn, CheckSpace,
         StoreAllocate, CopyRecord, SendLog, StoreFilled, FetchAdd, tailVars, SettleAt, Goto, Forget
<1> QED BY <1>1, <1>2, <1>3, <1>4

\* flush writes exactly a block: a block is a multiple of what it rounds to.
LEMMA FlushBlock ==
  ASSUME TypeOK, TailInv, Flush
  PROVE  /\ end' = persistent_lsn + Block /\ end' <= ready /\ end' % Round = 0
         /\ chunk' = [p \in persistent_lsn..(end' - 1) |-> buffer[p % BufferSize]]
<1> DEFINE rounded == ready - (ready % Round)
           cut == IF rounded - persistent_lsn > Block THEN persistent_lsn + Block ELSE rounded
<1>1. end' = cut /\ chunk' = [p \in persistent_lsn..(cut - 1) |-> buffer[p % BufferSize]]
  BY DEF Flush
<1>2. ready \in Nat /\ persistent_lsn \in Nat /\ persistent_lsn % Round = 0
  BY DEF TypeOK, TailInv
<1>3. persistent_lsn + Block <= ready
  BY <1>2, Constants DEF Flush, TooLittle
<1>4. (persistent_lsn + Block) % Round = 0
  BY <1>2, Constants, MultipleSum
<1>5. PICK m \in Nat : m = persistent_lsn + Block
  BY <1>2, Constants
<1>6. m <= rounded
  BY <1>2, <1>3, <1>4, <1>5, Constants, RoundDown
<1>7. rounded \in Int
  BY <1>2, Constants, DivMod
<1> HIDE DEF rounded
<1>8. cut = persistent_lsn + Block
  BY <1>2, <1>5, <1>6, <1>7, Constants
<1> QED BY <1>1, <1>3, <1>4, <1>8

LEMMA TailStep ==
  ASSUME LogInv, Next
  PROVE  TailInv'
<1> USE DEF LogInv
<1>0. TypeOK /\ TailInv /\ N \in Nat /\ N > 0 /\ lsn_ \in Nat /\ persistent_lsn \in Nat
      /\ ready \in Nat /\ end \in Nat /\ scan \in 1..(N + 1)
  BY Constants DEF TypeOK
<1>1. CASE \E t \in Thread : Work(t)
  <2>1. PICK t \in Thread : Work(t)
    BY <1>1
  <2>2. UNCHANGED <<persistent_lsn, chunk, flushVars>> /\ lsn_' \in Nat /\ lsn_ <= lsn_'
    BY <2>1, WorkerFrame
  <2> QED BY <1>0, <2>2 DEF TailInv, Flushing, flushVars
<1>2. CASE ReadTail
  BY <1>0, <1>2 DEF ReadTail, TailInv, Flushing, workerVars
<1>3. CASE ReadFilled
  BY <1>0, <1>3 DEF ReadFilled, TailInv, Flushing, workerVars
<1>4. CASE ReadAllocated
  <2>1. scan \in Thread /\ scan <= N
    BY <1>0, <1>4 DEF ReadAllocated, TailInv, Thread
  <2>2. ready' <= lsn_
    <3>1. allocate_lsn[scan] \in Nat
      BY <1>0, <2>1 DEF TypeOK
    <3> QED BY <1>0, <1>4, <3>1 DEF ReadAllocated, Limits, TailInv, Flushing
  <2>3. fpc' \in {"filled", "allocated"} => scan' <= N
    BY <1>0, <1>4, <2>1 DEF ReadAllocated
  <2> QED BY <1>0, <1>4, <2>2, <2>3 DEF ReadAllocated, TailInv, Flushing, workerVars
<1>5. CASE FlushNothing
  <2>1. DOMAIN chunk' = {}
    BY <1>5 DEF FlushNothing, ReturnFlush
  <2> QED BY <1>0, <1>5, <2>1 DEF FlushNothing, ReturnFlush, TailInv, Flushing, workerVars
<1>6. CASE AssertFails
  BY <1>0, <1>6 DEF AssertFails, TailInv, Flushing, workerVars
<1>7. CASE Flush
  <2>1. /\ end' = persistent_lsn + Block /\ end' <= ready /\ end' % Round = 0
        /\ DOMAIN chunk' = persistent_lsn..(end' - 1)
    BY <1>0, <1>7, FlushBlock
  <2>2. persistent_lsn <= end'
    BY <1>0, <2>1, Constants
  <2> QED BY <1>0, <1>7, <2>1, <2>2 DEF Flush, TailInv, Flushing, workerVars
<1>8. CASE Publish
  <2>1. DOMAIN chunk' = {}
    BY <1>8 DEF Publish, ReturnFlush
  <2>2. persistent_lsn' = end /\ end <= lsn_ /\ end % Round = 0
    BY <1>0, <1>8 DEF Publish, TailInv, Flushing
  <2> QED BY <1>0, <1>8, <2>1, <2>2 DEF Publish, ReturnFlush, TailInv, Flushing, workerVars
<1>9. CASE Ended
  BY <1>0, <1>9 DEF Ended, vars, flushVars, tailVars, TailInv, Flushing
<1> QED BY <1>1, <1>2, <1>3, <1>4, <1>5, <1>6, <1>7, <1>8, <1>9 DEF Next, LogThreadStep

\* The workers that may still claim a position are finitely many.
LEMMA PassingFinite ==
  ASSUME NEW c
  PROVE  /\ IsFiniteSet(Passing(c)) /\ Cardinality(Passing(c)) \in Nat
         /\ Cardinality(Passing(c)) <= N
<1>1. IsFiniteSet(Thread) /\ Cardinality(Thread) = N
  BY Constants, FS_Interval DEF Thread
<1>2. Passing(c) \in SUBSET Thread
  BY DEF Passing
<1> HIDE DEF Passing
<1> QED BY <1>1, <1>2, FS_Subset, FS_CardinalityType

\* Multiplication is monotonic.
LEMMA MultipleMono ==
  ASSUME NEW m \in Nat, NEW j \in Nat, NEW k \in Nat, j <= k
  PROVE  m * j <= m * k /\ m * j \in Nat /\ m * k \in Nat
<1>1. k - j \in Nat /\ m * k = m * j + m * (k - j)
  OBVIOUS
<1>2. m * (k - j) \in Nat /\ m * j \in Nat /\ m * k \in Nat
  BY <1>1
<1> QED BY <1>1, <1>2

LEMMA DifferenceMono ==
  ASSUME NEW p \in Nat, NEW q \in Nat, NEW b \in Nat, NEW x \in Nat, p <= q
  PROVE  p + b - x \in Int /\ q + b - x \in Int /\ p + b - x <= q + b - x
  OBVIOUS

\* While the tail stands still and no worker joins those that may claim a
\* position, the space stays enough; a flush only raises the threshold.
LEMMA SpaceQuiet ==
  ASSUME TypeOK, SpaceInv, lsn_' = lsn_, persistent_lsn' \in Nat, persistent_lsn <= persistent_lsn',
         \A c \in Nat : Threshold <= c /\ c <= lsn_ => Passing(c)' \subseteq Passing(c)
  PROVE  SpaceInv'
<1>1. lsn_ \in Nat /\ persistent_lsn \in Nat
  BY DEF TypeOK
<1>2. Threshold \in Int /\ Threshold' \in Int /\ Threshold <= Threshold'
  <2>1. PICK x \in Nat : x = MaxEntry * N
    BY Constants
  <2>2. /\ Threshold = persistent_lsn + BufferSize - x
        /\ Threshold' = persistent_lsn' + BufferSize - x
    BY <2>1 DEF Threshold
  <2>3. BufferSize \in Nat
    BY Constants
  <2>4. persistent_lsn' \in Nat /\ persistent_lsn <= persistent_lsn'
    OBVIOUS
  <2>5. PICK y \in Nat : y = persistent_lsn'
    BY <2>4
  <2>6. /\ persistent_lsn + BufferSize - x \in Int
        /\ y + BufferSize - x \in Int
        /\ persistent_lsn + BufferSize - x <= y + BufferSize - x
    <3>1. persistent_lsn <= y
      BY <2>4, <2>5, Zenon
    <3> QED BY <1>1, <2>3, <3>1, DifferenceMono
  <2> QED BY <2>2, <2>5, <2>6, Zenon
<1> SUFFICES ASSUME NEW c \in Nat, Threshold' <= c, c <= lsn_
             PROVE  lsn_ + MaxEntry * Cardinality(Passing(c)') < c + MaxEntry * N
  BY DEF SpaceInv
<1>3. Threshold <= c
  BY <1>2
<1> DEFINE K == Passing(c)
           L == Passing(c)'
<1>4. lsn_ + MaxEntry * Cardinality(K) < c + MaxEntry * N
  BY <1>3 DEF SpaceInv
<1>5. L \in SUBSET K
  BY <1>3
<1>6. IsFiniteSet(K) /\ Cardinality(K) \in Nat
  BY PassingFinite
<1> HIDE DEF K, L
<1>7. Cardinality(L) \in Nat /\ Cardinality(L) <= Cardinality(K)
  BY <1>5, <1>6, FS_Subset, FS_CardinalityType
<1>8. /\ MaxEntry * Cardinality(L) <= MaxEntry * Cardinality(K)
      /\ MaxEntry * Cardinality(L) \in Nat /\ MaxEntry * Cardinality(K) \in Nat
  BY <1>6, <1>7, Constants, MultipleMono
<1>9. MaxEntry * N \in Nat
  BY Constants
<1>10. lsn_ + MaxEntry * Cardinality(L) < c + MaxEntry * N
  BY <1>1, <1>4, <1>8, <1>9
<1> QED BY <1>10 DEF L

\* A claim moves the tail by at most one largest record, and the worker that
\* made it makes no other.
LEMMA SpaceClaim ==
  ASSUME TypeOK, SpaceInv, NEW t \in Thread, OrderOK(t), FetchAdd(t)
  PROVE  SpaceInv'
<1>1. lsn_ \in Nat /\ persistent_lsn' = persistent_lsn /\ persistent_lsn \in Nat
  BY DEF TypeOK, FetchAdd
<1> DEFINE a == Aligned(rec[t].size)
<1>2. a \in Nat /\ a <= MaxEntry /\ lsn_' = lsn_ + a
  BY Constants DEF FetchAdd, OrderOK
<1>3. Threshold' = Threshold /\ Threshold \in Int
  BY <1>1, Constants DEF Threshold
<1>4. MaxEntry \in Nat /\ N \in Nat /\ MaxEntry * N \in Nat
  BY Constants
<1> SUFFICES ASSUME NEW c \in Nat, Threshold <= c, c <= lsn_ + a
             PROVE  lsn_ + a + MaxEntry * Cardinality(Passing(c)') < c + MaxEntry * N
  BY <1>2, <1>3 DEF SpaceInv
<1> DEFINE K == Passing(c)
           L == Passing(c)'
<1>5. pc[t] = "fetch" /\ pc'[t] = "copy" /\ \A u \in Thread \ {t} : pc'[u] = pc[u]
  BY DEF FetchAdd, Goto, TypeOK
<1>6. \A u \in Thread \ {t} : rec'[u] = rec[u] /\ loaded'[u] = loaded[u]
  BY DEF FetchAdd, SettleAt, TypeOK
<1>7. t \in K /\ L = K \ {t}
  BY <1>5, <1>6 DEF Passing
<1>8. IsFiniteSet(K) /\ Cardinality(K) \in Nat /\ Cardinality(K) <= N
  BY PassingFinite
<1>9. c <= lsn_ => lsn_ + MaxEntry * Cardinality(K) < c + MaxEntry * N
  BY DEF SpaceInv
<1> HIDE DEF K, L, a
<1>10. Cardinality(L) = Cardinality(K) - 1 /\ IsFiniteSet(L)
  BY <1>7, <1>8, FS_RemoveElement
<1>11. Cardinality(L) \in Nat
  BY <1>10, FS_CardinalityType
<1>12. /\ MaxEntry * Cardinality(L) \in Nat /\ MaxEntry * Cardinality(K) \in Nat
       /\ MaxEntry * Cardinality(K) = MaxEntry * Cardinality(L) + MaxEntry
  BY <1>4, <1>8, <1>10, <1>11
<1>13. MaxEntry * Cardinality(K) <= MaxEntry * N
  BY <1>4, <1>8, MultipleMono
<1>14. lsn_ + a + MaxEntry * Cardinality(L) < c + MaxEntry * N
  <2>1. CASE c <= lsn_
    BY <1>1, <1>2, <1>4, <1>9, <1>12, <2>1
  <2>2. CASE lsn_ < c
    BY <1>1, <1>2, <1>4, <1>12, <1>13, <2>2
  <2> QED BY <1>1, <2>1, <2>2
<1> QED BY <1>14 DEF L

LEMMA SpaceStep ==
  ASSUME LogInv, Next
  PROVE  SpaceInv'
<1>0. TypeOK /\ TailInv /\ SpaceInv /\ (\A t \in Thread : OrderOK(t))
      /\ lsn_ \in Nat /\ persistent_lsn \in Nat
  BY DEF LogInv, TypeOK
<1>1. ASSUME NEW t \in Thread, AppendStep(t), fpc # "failed"
      PROVE  SpaceInv'
  <2>1. lsn_' = lsn_ /\ persistent_lsn' = persistent_lsn
    BY <1>1 DEF AppendStep, LoadAgain, LoadForMark, StartRecord, LoadLsn, CheckSpace,
         StoreAllocate, CopyRecord, SendLog, StoreFilled, tailVars
  <2>2. \A u \in Thread \ {t} : pc'[u] = pc[u] /\ rec'[u] = rec[u] /\ loaded'[u] = loaded[u]
    BY <1>0, <1>1, WorkerFrame DEF Work
  <2>3. rec[t].size \in Nat /\ loaded[t] \in Nat
    BY <1>0, Position
  <2>7. pc \in [Thread -> PC] /\ loaded \in [Thread -> Nat] /\ rec \in [Thread -> Record]
    BY <1>0 DEF TypeOK
  <2>4. ASSUME NEW c \in Nat, Threshold <= c, c <= lsn_, t \in Passing(c)'
        PROVE  t \in Passing(c)
    <3>1. CASE StartRecord(t) \/ LoadAgain(t)
      <4>1. pc'[t] = "space" /\ loaded'[t] = lsn_
        BY <2>7, <3>1 DEF StartRecord, LoadAgain, LoadLsn, Goto
      <4>2. rec'[t].size \in Nat
        <5>1. rec'[t] \in Record
          BY <1>0, <1>1, TypeWorker DEF Work, TypeOK
        <5> QED BY <5>1, Constants DEF Record
      <4>3. ~(loaded'[t] + rec'[t].size < c)
        BY <1>0, <2>4, <4>1, <4>2
      <4> QED BY <2>4, <4>1, <4>3 DEF Passing
    <3>2. CASE CheckSpace(t)
      <4>1. pc[t] = "space" /\ pc'[t] = (IF Full(t) THEN "check" ELSE "mark")
        BY <2>7, <3>2 DEF CheckSpace, Goto
      <4>2. ~Full(t)
        BY <2>4, <4>1 DEF Passing
      <4>3. loaded[t] + rec[t].size < Threshold
        BY <1>0, <2>3, <4>2, Constants DEF Full, Threshold
      <4>4. Threshold \in Int
        BY <1>0, Constants DEF Threshold
      <4>5. loaded[t] + rec[t].size < c
        BY <2>3, <2>4, <4>3, <4>4
      <4> QED BY <4>1, <4>5 DEF Passing
    <3>3. CASE LoadForMark(t) \/ StoreAllocate(t)
      BY <3>3 DEF LoadForMark, LoadLsn, StoreAllocate, Passing
    <3>4. CASE CopyRecord(t) \/ SendLog(t) \/ StoreFilled(t)
      <4>1. pc'[t] \in {"send", "fill", "idle"}
        BY <2>7, <3>4 DEF CopyRecord, SendLog, StoreFilled, Goto
      <4> QED BY <2>4, <4>1 DEF Passing
    <3> QED BY <1>1, <3>1, <3>2, <3>3, <3>4 DEF AppendStep
  <2>5. ASSUME NEW c \in Nat, Threshold <= c, c <= lsn_
        PROVE  Passing(c)' \subseteq Passing(c)
    <3> SUFFICES ASSUME NEW u \in Passing(c)' PROVE u \in Passing(c)
      OBVIOUS
    <3>1. u \in Thread
      BY DEF Passing
    <3>2. CASE u = t
      BY <2>4, <2>5, <3>2
    <3>3. CASE u # t
      <4>1. pc'[u] = pc[u] /\ rec'[u] = rec[u] /\ loaded'[u] = loaded[u]
        BY <2>2, <3>1, <3>3
      <4> QED BY <3>1, <4>1 DEF Passing
    <3> QED BY <3>2, <3>3
  <2>6. persistent_lsn' \in Nat /\ persistent_lsn <= persistent_lsn'
    BY <1>0, <2>1
  <2> QED BY <1>0, <2>1, <2>5, <2>6, SpaceQuiet
<1>2. CASE LogThreadStep
  <2>1. lsn_' = lsn_ /\ pc' = pc /\ rec' = rec /\ loaded' = loaded
    BY <1>2 DEF LogThreadStep, ReadTail, ReadFilled, ReadAllocated, FlushNothing, AssertFails,
         Flush, Publish, workerVars
  <2>2. persistent_lsn' \in Nat /\ persistent_lsn <= persistent_lsn'
    <3>1. CASE Publish
      BY <1>0, <3>1 DEF Publish, TailInv, TypeOK
    <3>2. CASE ~Publish
      <4>1. persistent_lsn' = persistent_lsn
        BY <1>2, <3>2 DEF LogThreadStep, ReadTail, ReadFilled, ReadAllocated, FlushNothing,
           AssertFails, Flush
      <4> QED BY <1>0, <4>1
    <3> QED BY <3>1, <3>2
  <2>3. \A c \in Nat : Passing(c)' \subseteq Passing(c)
    BY <2>1 DEF Passing
  <2> QED BY <1>0, <2>1, <2>2, <2>3, SpaceQuiet
<1>3. CASE Ended
  <2>1. lsn_' = lsn_ /\ pc' = pc /\ rec' = rec /\ loaded' = loaded /\ persistent_lsn' = persistent_lsn
    BY <1>3 DEF Ended, vars, tailVars
  <2>2. persistent_lsn' \in Nat /\ persistent_lsn <= persistent_lsn'
    BY <1>0, <2>1
  <2>3. \A c \in Nat : Passing(c)' \subseteq Passing(c)
    BY <2>1 DEF Passing
  <2> QED BY <1>0, <2>1, <2>2, <2>3, SpaceQuiet
<1>4. ASSUME NEW t \in Thread, FetchAdd(t)
      PROVE  SpaceInv'
  BY <1>0, <1>4, SpaceClaim
<1> QED BY <1>1, <1>2, <1>3, <1>4 DEF Next, Work

\* The space of the ring is never exceeded.
LEMMA RingRoom ==
  ASSUME LogInv
  PROVE  lsn_ \in Nat /\ persistent_lsn \in Nat /\ persistent_lsn <= lsn_
         /\ lsn_ < persistent_lsn + BufferSize
<1>1. lsn_ \in Nat /\ persistent_lsn \in Nat /\ persistent_lsn <= lsn_
  BY DEF LogInv, TypeOK, TailInv
<1>2. PICK x \in Nat : x = MaxEntry * N
  BY Constants
<1>3. x < BufferSize
  BY <1>2, Constants
<1>4. PICK c \in Nat : c = persistent_lsn + BufferSize - x
  <2>1. persistent_lsn + BufferSize - x \in Nat
    BY <1>1, <1>3, Constants
  <2> QED BY <2>1
<1>5. CASE c <= lsn_
  <2>1. Threshold <= c
    BY <1>2, <1>4 DEF Threshold
  <2>2. lsn_ + MaxEntry * Cardinality(Passing(c)) < c + x
    BY <1>2, <1>5, <2>1 DEF LogInv, SpaceInv
  <2>3. MaxEntry * Cardinality(Passing(c)) \in Nat
    BY Constants, PassingFinite
  <2> QED BY <1>1, <1>3, <1>4, <2>2, <2>3, Constants
<1>6. CASE lsn_ < c
  BY <1>1, <1>4, <1>6, Constants
<1> QED BY <1>1, <1>5, <1>6

-----------------------------------------------------------------------------
(***************************************************************************)
(* The workers' counters and the log thread's scan.                        *)
(***************************************************************************)
\* Where a worker goes, and what it changes of its own.
LEMMA WorkerCounters ==
  ASSUME TypeOK, NEW t \in Thread, AppendStep(t)
  PROVE  /\ lsn_' = lsn_ /\ persistent_lsn' = persistent_lsn /\ records' = records
         /\ StartRecord(t) => /\ pc[t] = "idle" /\ pc'[t] = "space" /\ rec'[t].thd = rec[t].thd
                              /\ rec'[t].size \in Sizes /\ filled_lsn' = filled_lsn
                              /\ allocate_lsn' = allocate_lsn
         /\ LoadAgain(t) \/ CheckSpace(t) =>
               /\ pc[t] \in {"check", "space"} /\ pc'[t] \in {"check", "space", "mark"}
               /\ rec' = rec /\ filled_lsn' = filled_lsn /\ allocate_lsn' = allocate_lsn
         /\ LoadForMark(t) =>
               /\ pc[t] = "mark" /\ pc'[t] = "allocate" /\ loaded'[t] = lsn_
               /\ rec' = rec /\ filled_lsn' = filled_lsn /\ allocate_lsn' = allocate_lsn
         /\ StoreAllocate(t) =>
               /\ pc[t] = "allocate" /\ pc'[t] = "fetch" /\ allocate_lsn'[t] = loaded[t]
               /\ rec' = rec /\ filled_lsn' = filled_lsn
         /\ CopyRecord(t) \/ SendLog(t) =>
               /\ pc[t] \in {"copy", "send"} /\ pc'[t] \in {"send", "fill"}
               /\ rec' = rec /\ filled_lsn' = filled_lsn /\ allocate_lsn' = allocate_lsn
         /\ StoreFilled(t) =>
               /\ pc[t] = "fill" /\ pc'[t] = "idle" /\ rec'[t].thd = rec[t].thd
               /\ filled_lsn'[t] = rec[t].lsn + Aligned(rec[t].size)
               /\ allocate_lsn' = allocate_lsn
<1> USE DEF tailVars
<1>0. /\ pc \in [Thread -> PC] /\ loaded \in [Thread -> Nat] /\ rec \in [Thread -> Record]
      /\ filled_lsn \in [Thread -> Nat] /\ allocate_lsn \in [Thread -> Nat] /\ rec[t] \in Record
  BY DEF TypeOK
<1>1. lsn_' = lsn_ /\ persistent_lsn' = persistent_lsn /\ records' = records
  BY DEF AppendStep, LoadAgain, LoadForMark, StartRecord, LoadLsn, CheckSpace,
         StoreAllocate, CopyRecord, SendLog, StoreFilled
<1>2. StartRecord(t) => /\ pc[t] = "idle" /\ pc'[t] = "space" /\ rec'[t].thd = rec[t].thd
                        /\ rec'[t].size \in Sizes /\ filled_lsn' = filled_lsn
                        /\ allocate_lsn' = allocate_lsn
  BY <1>0 DEF StartRecord, Goto, Record
<1>3. LoadAgain(t) \/ CheckSpace(t) =>
         /\ pc[t] \in {"check", "space"} /\ pc'[t] \in {"check", "space", "mark"}
         /\ rec' = rec /\ filled_lsn' = filled_lsn /\ allocate_lsn' = allocate_lsn
  BY <1>0 DEF LoadAgain, LoadLsn, CheckSpace, Goto
<1>4. LoadForMark(t) =>
         /\ pc[t] = "mark" /\ pc'[t] = "allocate" /\ loaded'[t] = lsn_
         /\ rec' = rec /\ filled_lsn' = filled_lsn /\ allocate_lsn' = allocate_lsn
  BY <1>0 DEF LoadForMark, LoadLsn, Goto
<1>5. StoreAllocate(t) =>
         /\ pc[t] = "allocate" /\ pc'[t] = "fetch" /\ allocate_lsn'[t] = loaded[t]
         /\ rec' = rec /\ filled_lsn' = filled_lsn
  BY <1>0 DEF StoreAllocate, Goto
<1>6. CopyRecord(t) \/ SendLog(t) =>
         /\ pc[t] \in {"copy", "send"} /\ pc'[t] \in {"send", "fill"}
         /\ rec' = rec /\ filled_lsn' = filled_lsn /\ allocate_lsn' = allocate_lsn
  BY <1>0 DEF CopyRecord, SendLog, Goto
<1>7. StoreFilled(t) =>
         /\ pc[t] = "fill" /\ pc'[t] = "idle" /\ rec'[t].thd = rec[t].thd
         /\ filled_lsn'[t] = rec[t].lsn + Aligned(rec[t].size)
         /\ allocate_lsn' = allocate_lsn
  BY <1>0 DEF StoreFilled, Goto, Record
<1> QED BY <1>1, <1>2, <1>3, <1>4, <1>5, <1>6, <1>7

\* The record a claim puts into the log.
LEMMA ClaimEffect ==
  ASSUME TypeOK, NEW t \in Thread, OrderOK(t), FetchAdd(t)
  PROVE  /\ pc[t] = "fetch" /\ pc'[t] = "copy" /\ rec[t].size \in Sizes
         /\ rec'[t] \in Record /\ rec'[t].thd = t /\ rec'[t].size = rec[t].size /\ rec'[t].lsn = lsn_
         /\ records' = records \cup {rec'[t]}
         /\ lsn_' = lsn_ + Aligned(rec[t].size)
         /\ UNCHANGED <<persistent_lsn, filled_lsn, allocate_lsn, buffer>>
<1>1. rec \in [Thread -> Record] /\ rec[t] \in Record /\ pc \in [Thread -> PC] /\ lsn_ \in Nat
  BY DEF TypeOK
<1>2. rec'[t] = [rec[t] EXCEPT !.lsn = lsn_]
  BY <1>1 DEF FetchAdd, SettleAt
<1>3. records' = records \cup {rec'[t]}
  BY <1>2 DEF FetchAdd, SettleAt
<1>4. /\ rec'[t] \in Record /\ rec'[t].thd = rec[t].thd /\ rec'[t].size = rec[t].size
      /\ rec'[t].lsn = lsn_
  BY <1>1, <1>2 DEF Record
<1>5. pc[t] = "fetch" /\ pc'[t] = "copy" /\ lsn_' = lsn_ + Aligned(rec[t].size)
      /\ UNCHANGED <<persistent_lsn, filled_lsn, allocate_lsn, buffer>>
  BY <1>1 DEF FetchAdd, Goto
<1>6. rec[t].thd = t /\ rec[t].size \in Sizes
  BY <1>5 DEF OrderOK
<1> QED BY <1>3, <1>4, <1>5, <1>6

\* What the other workers' steps leave of a worker's counters.
LEMMA OrderOther ==
  ASSUME TypeOK, NEW u \in Thread, OrderOK(u), lsn_' \in Nat, lsn_ <= lsn_',
         persistent_lsn' = persistent_lsn, records \subseteq records',
         pc'[u] = pc[u], rec'[u] = rec[u], loaded'[u] = loaded[u],
         filled_lsn'[u] = filled_lsn[u], allocate_lsn'[u] = allocate_lsn[u]
  PROVE  OrderOK(u)'
<1>1. lsn_ \in Nat /\ filled_lsn[u] \in Nat /\ loaded[u] \in Nat /\ allocate_lsn[u] \in Nat
  BY Position DEF TypeOK
<1>2. /\ filled_lsn[u] <= lsn_ => filled_lsn[u] <= lsn_'
      /\ loaded[u] <= lsn_ => loaded[u] <= lsn_'
      /\ allocate_lsn[u] <= lsn_ => allocate_lsn[u] <= lsn_'
  BY <1>1
<1> QED BY <1>2, Zenon DEF OrderOK, UnderWay

LEMMA OrderStep ==
  ASSUME LogInv, Next
  PROVE  \A u \in Thread : OrderOK(u)'
<1>0. TypeOK /\ TailInv /\ (\A t \in Thread : OrderOK(t) /\ ScanOK(t))
      /\ lsn_ \in Nat /\ persistent_lsn \in Nat /\ persistent_lsn <= lsn_
  BY DEF LogInv, TypeOK, TailInv
<1>1. ASSUME NEW t \in Thread, Work(t), NEW u \in Thread
      PROVE  OrderOK(u)'
  <2>1. /\ lsn_' \in Nat /\ lsn_ <= lsn_' /\ persistent_lsn' = persistent_lsn
        /\ \A v \in Thread \ {t} :
               /\ pc'[v] = pc[v] /\ rec'[v] = rec[v] /\ loaded'[v] = loaded[v]
               /\ filled_lsn'[v] = filled_lsn[v] /\ allocate_lsn'[v] = allocate_lsn[v]
    BY <1>0, <1>1, WorkerFrame
  <2>2. records \subseteq records'
    <3>1. CASE FetchAdd(t)
      BY <3>1 DEF FetchAdd, SettleAt
    <3>2. CASE AppendStep(t)
      BY <1>0, <3>2, WorkerCounters
    <3> QED BY <1>1, <3>1, <3>2 DEF Work
  <2>3. CASE u # t
    BY <1>0, <2>1, <2>2, <2>3, OrderOther
  <2>4. CASE u = t
    <3> SUFFICES OrderOK(t)'
      BY <2>4
    <3>0. /\ OrderOK(t) /\ lsn_ \in Nat /\ filled_lsn[t] \in Nat /\ loaded[t] \in Nat
          /\ allocate_lsn[t] \in Nat /\ rec[t].lsn \in Nat /\ filled_lsn[t] <= lsn_ /\ rec[t].thd = t
          /\ (pc[t] # "idle" => rec[t].size \in Sizes)
      BY <1>0, Position DEF OrderOK
    <3>1. CASE FetchAdd(t)
      <4>1. /\ pc[t] = "fetch" /\ pc'[t] = "copy" /\ rec[t].size \in Sizes
            /\ rec'[t].thd = t /\ rec'[t].size = rec[t].size /\ rec'[t].lsn = lsn_
            /\ rec'[t] \in records'
            /\ filled_lsn' = filled_lsn /\ allocate_lsn' = allocate_lsn
        BY <1>0, <3>1, ClaimEffect
      <4>2. filled_lsn[t] <= allocate_lsn[t] /\ allocate_lsn[t] <= lsn_ /\ filled_lsn[t] <= lsn_'
        BY <2>1, <3>0, <4>1 DEF OrderOK
      <4>3. pc'[t] # "allocate" /\ pc'[t] # "fetch" /\ rec'[t].size \in Sizes
        BY <4>1
      <4> QED BY <1>0, <2>1, <4>1, <4>2, <4>3, Zenon DEF OrderOK
    <3>2. CASE AppendStep(t)
      <4>0. lsn_' = lsn_ /\ persistent_lsn' = persistent_lsn /\ records' = records
        BY <1>0, <3>2, WorkerCounters
      <4>1. CASE StartRecord(t)
        BY <1>0, <3>0, <3>2, <4>0, <4>1, WorkerCounters DEF OrderOK, UnderWay
      <4>2. CASE LoadAgain(t) \/ CheckSpace(t)
        BY <1>0, <3>0, <3>2, <4>0, <4>2, WorkerCounters DEF OrderOK, UnderWay
      <4>3. CASE LoadForMark(t)
        BY <1>0, <3>0, <3>2, <4>0, <4>3, WorkerCounters DEF OrderOK, UnderWay
      <4>4. CASE StoreAllocate(t)
        BY <1>0, <3>0, <3>2, <4>0, <4>4, WorkerCounters DEF OrderOK, UnderWay
      <4>5. CASE CopyRecord(t) \/ SendLog(t)
        BY <1>0, <3>0, <3>2, <4>0, <4>5, WorkerCounters DEF OrderOK, UnderWay
      <4>6. CASE StoreFilled(t)
        <5>1. rec[t] \in records /\ pc[t] = "fill"
          BY <3>0, <4>6 DEF OrderOK, UnderWay, StoreFilled
        <5>2. rec[t].lsn + Aligned(rec[t].size) <= lsn_
          BY <5>1 DEF LogInv, RecordOK
        <5> QED BY <1>0, <3>0, <3>2, <4>0, <4>6, <5>2, WorkerCounters DEF OrderOK, UnderWay
      <4> QED BY <3>2, <4>1, <4>2, <4>3, <4>4, <4>5, <4>6 DEF AppendStep
    <3> QED BY <1>1, <3>1, <3>2 DEF Work
  <2> QED BY <2>3, <2>4
<1>2. ASSUME Publish, NEW u \in Thread
      PROVE  OrderOK(u)'
  <2>1. /\ lsn_' = lsn_ /\ pc' = pc /\ rec' = rec /\ loaded' = loaded /\ filled_lsn' = filled_lsn
        /\ allocate_lsn' = allocate_lsn /\ persistent_lsn' = end
        /\ records' = {r \in records : r.lsn + Aligned(r.size) > end}
    BY <1>2 DEF Publish, workerVars, ForgetFlushed
  <2>2. ASSUME UnderWay(u)
        PROVE  end <= rec[u].lsn /\ rec[u] \in records'
    <3>1. rec[u].lsn \in Nat /\ end \in Nat /\ ready \in Nat /\ end <= ready
      BY <1>0, <1>2, Position DEF TypeOK, TailInv, Publish
    <3>2. ready <= rec[u].lsn
      BY <1>0, <1>2, <2>2 DEF ScanOK, Scanned, Publish
    <3>3. rec[u] \in records /\ rec[u].size \in Sizes
      BY <1>0, <2>2 DEF OrderOK, UnderWay
    <3>4. Aligned(rec[u].size) \in Nat /\ Aligned(rec[u].size) > 0
      BY <3>3, Constants
    <3> QED BY <2>1, <3>1, <3>2, <3>3, <3>4
  <2>3. OrderOK(u)
    BY <1>0
  <2> QED BY <2>1, <2>2, <2>3, Zenon DEF OrderOK, UnderWay
<1>3. ASSUME LogThreadStep \/ Ended, ~Publish, NEW u \in Thread
      PROVE  OrderOK(u)'
  <2>1. /\ lsn_' = lsn_ /\ pc' = pc /\ rec' = rec /\ loaded' = loaded /\ filled_lsn' = filled_lsn
        /\ allocate_lsn' = allocate_lsn /\ persistent_lsn' = persistent_lsn /\ records' = records
    BY <1>3 DEF LogThreadStep, ReadTail, ReadFilled, ReadAllocated, FlushNothing, AssertFails,
         Flush, workerVars, Ended, vars, tailVars
  <2>2. OrderOK(u)
    BY <1>0
  <2> QED BY <2>1, <2>2, Zenon DEF OrderOK, UnderWay
<1> QED BY <1>1, <1>2, <1>3 DEF Next, LogThreadStep

\* The log thread never takes a record under way for complete: a worker writes
\* _allocate_lsn before it claims, and the log thread reads it after _filled_lsn.
LEMMA ScanStep ==
  ASSUME LogInv, Next
  PROVE  \A u \in Thread : ScanOK(u)'
<1>0. TypeOK /\ TailInv /\ (\A t \in Thread : OrderOK(t) /\ ScanOK(t))
      /\ lsn_ \in Nat /\ ready \in Nat /\ filledLSN \in Nat /\ scan \in 1..(N + 1) /\ N \in Nat
  BY Constants DEF LogInv, TypeOK
<1>1. ASSUME NEW t \in Thread, Work(t), NEW u \in Thread
      PROVE  ScanOK(u)'
  <2>1. /\ fpc' = fpc /\ ready' = ready /\ scan' = scan /\ filledLSN' = filledLSN
        /\ \A v \in Thread \ {t} :
               pc'[v] = pc[v] /\ rec'[v] = rec[v] /\ filled_lsn'[v] = filled_lsn[v]
    BY <1>0, <1>1, WorkerFrame DEF flushVars
  <2>2. ScanOK(u)
    BY <1>0
  <2>3. CASE u # t
    <3>1. pc'[u] = pc[u] /\ rec'[u] = rec[u] /\ filled_lsn'[u] = filled_lsn[u]
      BY <2>1, <2>3
    <3> QED BY <2>1, <2>2, <3>1, Zenon DEF ScanOK, Scanned, UnderWay
  <2>4. CASE u = t
    <3> SUFFICES ScanOK(t)'
      BY <2>4
    <3>0. /\ OrderOK(t) /\ ScanOK(t) /\ filled_lsn[t] \in Nat /\ loaded[t] \in Nat
          /\ allocate_lsn[t] \in Nat /\ rec[t].lsn \in Nat
      BY <1>0, Position
    <3>1. CASE FetchAdd(t)
      <4>1. rec'[t].lsn = lsn_ /\ filled_lsn' = filled_lsn
        BY <1>0, <3>1, ClaimEffect
      <4>2. Scanned(t) => ready <= lsn_
        BY <1>0 DEF Scanned, TailInv, Flushing
      <4> QED BY <2>1, <3>0, <4>1, <4>2, Zenon DEF ScanOK, Scanned
    <3>2. CASE StoreFilled(t)
      <4>1. /\ pc[t] = "fill" /\ pc'[t] = "idle"
            /\ filled_lsn'[t] = rec[t].lsn + Aligned(rec[t].size)
        BY <1>0, <3>2, WorkerCounters DEF AppendStep
      <4>2. /\ filled_lsn[t] <= allocate_lsn[t] /\ allocate_lsn[t] <= rec[t].lsn
            /\ rec[t].size \in Sizes
        BY <3>0, <4>1 DEF OrderOK, UnderWay
      <4>3. Aligned(rec[t].size) \in Nat
        BY <4>2, Constants
      <4>4. filled_lsn[t] <= filled_lsn'[t] /\ filled_lsn'[t] \in Nat
        BY <3>0, <4>1, <4>2, <4>3
      <4>5. filledLSN <= filled_lsn[t] => filledLSN <= filled_lsn'[t]
        BY <1>0, <3>0, <4>4
      <4>6. ~UnderWay(t)'
        BY <4>1 DEF UnderWay
      <4> QED BY <2>1, <3>0, <4>5, <4>6, Zenon DEF ScanOK
    <3>3. CASE AppendStep(t) /\ ~StoreFilled(t)
      <4>1. filled_lsn' = filled_lsn /\ (UnderWay(t)' => UnderWay(t) /\ rec' = rec)
        BY <1>0, <3>3, WorkerCounters DEF AppendStep, UnderWay
      <4> QED BY <2>1, <3>0, <4>1, Zenon DEF ScanOK, Scanned
    <3> QED BY <1>1, <3>1, <3>2, <3>3 DEF Work
  <2> QED BY <2>3, <2>4
<1>2. ASSUME ReadAllocated, NEW u \in Thread
      PROVE  ScanOK(u)'
  <2>1. /\ pc' = pc /\ rec' = rec /\ filled_lsn' = filled_lsn /\ fpc = "allocated"
        /\ fpc' \in {"filled", "decide"} /\ (fpc' = "decide" => ~(scan < N)) /\ scan' = scan + 1
        /\ ready' = IF Limits(allocate_lsn[scan]) THEN allocate_lsn[scan] ELSE ready
    BY <1>2 DEF ReadAllocated, workerVars
  <2>2. scan <= N /\ scan \in Thread
    BY <1>0, <2>1 DEF TailInv, Thread
  <2>3. allocate_lsn[scan] \in Nat /\ ready' \in Nat /\ ready' <= ready
    BY <1>0, <2>1, <2>2 DEF TypeOK, Limits
  <2>4. ASSUME Scanned(u)', UnderWay(u)
        PROVE  ready' <= rec[u].lsn
    <3>1. u \in Nat /\ u <= N /\ rec[u].lsn \in Nat /\ filled_lsn[u] \in Nat /\ allocate_lsn[u] \in Nat
      BY <1>0, Position DEF Thread
    <3>2. u < scan \/ u = scan
      BY <1>0, <2>1, <2>2, <2>4, <3>1 DEF Scanned
    <3>3. CASE u < scan
      <4>1. ready <= rec[u].lsn
        BY <1>0, <2>1, <2>4, <3>3 DEF ScanOK, Scanned
      <4> QED BY <1>0, <2>3, <3>1, <4>1
    <3>4. CASE u = scan
      <4>1. filledLSN <= filled_lsn[u]
        BY <1>0, <2>1, <3>4 DEF ScanOK
      <4>2. filled_lsn[u] <= allocate_lsn[u] /\ allocate_lsn[u] <= rec[u].lsn
        BY <1>0, <2>4 DEF OrderOK
      <4>3. filledLSN <= allocate_lsn[u]
        BY <1>0, <3>1, <4>1, <4>2
      <4>4. ready' <= allocate_lsn[u]
        BY <1>0, <2>1, <3>1, <3>4, <4>3 DEF Limits
      <4> QED BY <2>3, <3>1, <4>2, <4>4
    <3> QED BY <3>2, <3>3, <3>4
  <2>5. UnderWay(u)' = UnderWay(u) /\ fpc' # "allocated"
    BY <2>1 DEF UnderWay
  <2> QED BY <2>1, <2>4, <2>5, Zenon DEF ScanOK
<1>3. ASSUME ReadTail \/ ReadFilled, NEW u \in Thread
      PROVE  ScanOK(u)'
  <2>1. /\ pc' = pc /\ rec' = rec /\ filled_lsn' = filled_lsn /\ scan' = scan
    BY <1>3 DEF ReadTail, ReadFilled, workerVars
  <2>2. ScanOK(u) /\ u \in Nat /\ u > 0 /\ filled_lsn[u] \in Nat
    BY <1>0, Position DEF Thread
  <2>3. CASE ReadTail
    <3>1. scan = 1 /\ fpc' = "filled"
      BY <1>0, <2>3 DEF TailInv, ReadTail
    <3>2. ~(u < scan)
      BY <2>2, <3>1
    <3>3. ~Scanned(u)' /\ fpc' # "allocated"
      BY <2>1, <3>1, <3>2 DEF Scanned
    <3> QED BY <3>3, Zenon DEF ScanOK
  <2>4. CASE ReadFilled
    <3>1. fpc = "filled" /\ fpc' = "allocated" /\ ready' = ready /\ filledLSN' = filled_lsn[scan]
      BY <2>4 DEF ReadFilled
    <3>2. Scanned(u)' => Scanned(u)
      BY <2>1, <3>1 DEF Scanned
    <3>3. u = scan' => filledLSN' <= filled_lsn'[u]
      BY <2>1, <2>2, <3>1
    <3> QED BY <2>1, <2>2, <3>1, <3>2, <3>3, Zenon DEF ScanOK, UnderWay
  <2> QED BY <1>3, <2>3, <2>4
<1>4. ASSUME FlushNothing \/ AssertFails \/ Publish, NEW u \in Thread
      PROVE  ScanOK(u)'
  <2>1. fpc' \in {"tail", "failed", "returned"}
    BY <1>4 DEF FlushNothing, AssertFails, Publish, ReturnFlush
  <2> QED BY <2>1 DEF ScanOK, Scanned
<1>5. ASSUME Flush \/ Ended, NEW u \in Thread
      PROVE  ScanOK(u)'
  <2>1. /\ pc' = pc /\ rec' = rec /\ filled_lsn' = filled_lsn /\ ready' = ready
        /\ (fpc = "decide" /\ fpc' = "publish") \/ fpc' \in {"failed", "returned"}
    BY <1>5 DEF Flush, Ended, vars, tailVars, flushVars, workerVars
  <2>2. ScanOK(u)
    BY <1>0
  <2> QED BY <2>1, <2>2 DEF ScanOK, Scanned, UnderWay
<1> QED BY <1>1, <1>2, <1>3, <1>4, <1>5 DEF Next, LogThreadStep

-----------------------------------------------------------------------------
(***************************************************************************)
(* The bytes of the records.                                               *)
(***************************************************************************)
\* A record's numbers.
LEMMA RecordNumbers ==
  ASSUME LogInv, NEW r \in records
  PROVE  /\ r \in Record /\ r.thd \in Thread /\ r.lsn \in Nat /\ r.size \in Nat
         /\ r.size \in Sizes /\ r.size < BufferSize /\ RecordOK(r)
<1>1. r \in Record /\ RecordOK(r)
  BY DEF LogInv, TypeOK
<1>2. r.thd \in Thread /\ r.lsn \in Nat /\ r.size \in Sizes
  BY <1>1 DEF Record, RecordOK
<1> QED BY <1>1, <1>2, Constants

\* The position of the bytes that are not flushed lies in the ring.
LEMMA InWindow ==
  ASSUME LogInv, NEW r \in records, NEW p \in r.lsn..(r.lsn + r.size - 1)
  PROVE  p \in Nat /\ p < persistent_lsn + BufferSize /\ p < lsn_
<1>1. r.lsn \in Nat /\ r.size \in Nat /\ r.lsn + Aligned(r.size) <= lsn_ /\ r.size \in Sizes
  BY RecordNumbers DEF RecordOK
<1>2. Aligned(r.size) \in Nat /\ r.size <= Aligned(r.size)
  BY <1>1, Constants
<1>3. lsn_ \in Nat /\ persistent_lsn \in Nat /\ lsn_ < persistent_lsn + BufferSize
  BY RingRoom
<1>4. BufferSize \in Nat
  BY Constants
<1> QED BY <1>1, <1>2, <1>3, <1>4

\* Copying a record writes its own bytes, and none of another record's that are
\* not flushed.
LEMMA CopyBytes ==
  ASSUME LogInv, NEW t \in Thread, CopyRecord(t), NEW r \in records, RecordOK(r),
         Copied(r) \/ r = rec[t],
         NEW p \in r.lsn..(r.lsn + r.size - 1), p >= persistent_lsn
  PROVE  buffer'[p % BufferSize] = <<r.thd, p>>
<1> DEFINE q == rec[t]
           at(i) == (i - q.lsn) % BufferSize
           i == p % BufferSize
<1>1. /\ q \in records /\ q.thd = t /\ persistent_lsn <= q.lsn /\ rec[t] \in Record
  BY DEF LogInv, OrderOK, UnderWay, CopyRecord, TypeOK
<1>2. /\ q.lsn \in Nat /\ q.size \in Nat /\ q.size < BufferSize /\ RecordOK(q) /\ q.size \in Sizes
      /\ r.lsn \in Nat /\ r.size \in Nat /\ r.size < BufferSize
  BY <1>1, RecordNumbers
<1>3. persistent_lsn \in Nat /\ lsn_ \in Nat /\ lsn_ < persistent_lsn + BufferSize
      /\ BufferSize \in Nat /\ BufferSize > 0
  BY RingRoom, Constants
<1>4. p \in Nat /\ p < persistent_lsn + BufferSize
  BY InWindow
<1>5. i \in 0..(BufferSize - 1)
  BY <1>3, <1>4, DivMod
<1>6. buffer'[i] = IF at(i) < q.size THEN <<t, q.lsn + at(i)>> ELSE buffer[i]
  BY <1>5 DEF CopyRecord, LogInv, TypeOK
<1> HIDE DEF q
<1>7. CASE r = q
  <2>1. q.lsn <= p /\ p < q.lsn + q.size
    BY <1>2, <1>4, <1>7
  <2>2. p < q.lsn + BufferSize
    BY <1>2, <1>3, <1>4, <2>1
  <2>3. at(i) = p - q.lsn
    <3>1. PICK l \in Int : l = q.lsn
      BY <1>2
    <3>2. l <= p /\ p < l + BufferSize /\ p \in Int
      BY <1>4, <2>1, <2>2, <3>1
    <3>3. ((p % BufferSize) - l) % BufferSize = p - l
      BY <1>3, <3>2, CellDistance
    <3> QED BY <3>1, <3>3, Zenon
  <2> HIDE DEF at, i
  <2>4. at(i) < q.size /\ q.lsn + at(i) = p
    BY <1>2, <1>4, <2>1, <2>3
  <2>5. buffer'[i] = <<r.thd, p>>
    BY <1>1, <1>6, <1>7, <2>4
  <2> QED BY <2>5 DEF i
<1>8. CASE r # q
  <2>1. buffer[i] = <<r.thd, p>>
    BY <1>8 DEF RecordOK, q
  <2>2. ~(at(i) < q.size)
    <3> SUFFICES ASSUME at(i) < q.size PROVE FALSE
      OBVIOUS
    <3>1. at(i) \in Nat
      BY <1>2, <1>3, <1>5, DivMod
    <3>2. (q.lsn + at(i)) % BufferSize = i
      BY <1>2, <1>3, <1>5, CellAhead
    <3> DEFINE x == q.lsn + at(i)
    <3>3. x \in Nat /\ q.lsn <= x /\ x < q.lsn + q.size /\ persistent_lsn <= x
      <4> HIDE DEF at, i
      <4> QED BY <1>1, <1>2, <1>3, <3>1
    <3>4. x % BufferSize = p % BufferSize
      BY <3>2
    <3> HIDE DEF at, i, x
    <3>5. x < persistent_lsn + BufferSize
      <4>1. x \in q.lsn..(q.lsn + q.size - 1)
        BY <1>2, <3>3
      <4> QED BY <1>1, <4>1, InWindow
    <3>6. x < p + BufferSize /\ p < x + BufferSize
      BY <1>3, <1>4, <3>3, <3>5
    <3>7. x = p
      BY <1>3, <1>4, <3>3, <3>4, <3>6, SameCell
    <3>8. r.lsn + r.size <= q.lsn \/ q.lsn + q.size <= r.lsn
      BY <1>1, <1>8 DEF LogInv, RecordsDisjoint
    <3> QED BY <1>2, <1>4, <3>3, <3>7, <3>8
  <2>3. buffer'[i] = <<r.thd, p>>
    BY <1>6, <2>1, <2>2
  <2> QED BY <2>3 DEF i
<1> QED BY <1>7, <1>8

\* Forgetting what is flushed clears no byte that is not.
LEMMA PublishBytes ==
  ASSUME LogInv, Publish, NEW r \in records, NEW p \in r.lsn..(r.lsn + r.size - 1), p >= end
  PROVE  buffer'[p % BufferSize] = buffer[p % BufferSize]
<1>1. /\ persistent_lsn \in Nat /\ end \in Nat /\ persistent_lsn <= end
      /\ BufferSize \in Nat /\ BufferSize > 0
  BY Constants DEF LogInv, TypeOK, TailInv, Publish
<1>2. p \in Nat /\ p < persistent_lsn + BufferSize
  BY InWindow
<1> DEFINE i == p % BufferSize
<1>3. i \in 0..(BufferSize - 1)
  BY <1>1, <1>2, DivMod
<1>4. ~\E q \in persistent_lsn..(end - 1) : q % BufferSize = i
  <2> SUFFICES ASSUME NEW q \in persistent_lsn..(end - 1), q % BufferSize = p % BufferSize
               PROVE  FALSE
    OBVIOUS
  <2>1. q \in Int /\ q < p + BufferSize /\ p < q + BufferSize /\ q < p
    BY <1>1, <1>2
  <2>2. q = p
    BY <1>1, <1>2, <2>1, SameCell
  <2> QED BY <1>2, <2>1, <2>2
<1> HIDE DEF i
<1>5. buffer' = [j \in DOMAIN buffer |->
                    IF \E q \in persistent_lsn..(end - 1) : q % BufferSize = j
                    THEN NoByte ELSE buffer[j]]
  BY DEF Publish, ForgetFlushed
<1>6. DOMAIN buffer = 0..(BufferSize - 1)
  BY DEF LogInv, TypeOK
<1>7. buffer'[i] = buffer[i]
  BY <1>3, <1>4, <1>5, <1>6
<1> QED BY <1>7 DEF i

LEMMA RecordStep ==
  ASSUME LogInv, Next
  PROVE  \A r \in records' : RecordOK(r)'
<1>0. TypeOK /\ (\A t \in Thread : OrderOK(t)) /\ lsn_ \in Nat /\ persistent_lsn \in Nat
  BY DEF LogInv, TypeOK
<1>1. ASSUME NEW r \in records, lsn_' \in Nat, lsn_ <= lsn_', Copied(r)' => Copied(r),
             persistent_lsn' = persistent_lsn, buffer' = buffer
      PROVE  RecordOK(r)'
  <2>1. RecordOK(r) /\ r.lsn \in Nat /\ r.size \in Sizes
    BY RecordNumbers
  <2>2. Aligned(r.size) \in Nat
    BY <2>1, Constants
  <2>3. r.lsn + Aligned(r.size) <= lsn_ => r.lsn + Aligned(r.size) <= lsn_'
    BY <1>0, <1>1, <2>1, <2>2
  <2> QED BY <1>1, <2>1, <2>3, Zenon DEF RecordOK
<1>2. ASSUME NEW t \in Thread, CopyRecord(t), Work(t), NEW r \in records'
      PROVE  RecordOK(r)'
  <2>1. /\ lsn_' = lsn_ /\ persistent_lsn' = persistent_lsn /\ records' = records
    BY <1>0, <1>2, WorkerCounters DEF AppendStep
  <2>2. r \in records /\ RecordOK(r) /\ r.thd \in Thread
    BY <2>1, RecordNumbers
  <2>3. Copied(r)' => Copied(r) \/ r = rec[t]
    <3>1. rec' = rec /\ pc' = [pc EXCEPT ![t] = "send"]
      BY <1>2 DEF CopyRecord, Goto
    <3> QED BY <1>0, <2>2, <3>1 DEF Copied, TypeOK
  <2>4. ASSUME Copied(r)', NEW p \in r.lsn..(r.lsn + r.size - 1), p >= persistent_lsn
        PROVE  buffer'[p % BufferSize] = <<r.thd, p>>
    BY <1>2, <2>2, <2>3, <2>4, CopyBytes
  <2> QED BY <2>1, <2>2, <2>4, Zenon DEF RecordOK
<1>3. ASSUME NEW t \in Thread, AppendStep(t), Work(t), ~CopyRecord(t), NEW r \in records'
      PROVE  RecordOK(r)'
  <2>1. /\ lsn_' = lsn_ /\ persistent_lsn' = persistent_lsn /\ records' = records
    BY <1>0, <1>3, WorkerCounters
  <2>2. buffer' = buffer
    BY <1>3 DEF AppendStep, LoadAgain, LoadForMark, StartRecord, LoadLsn, CheckSpace,
         StoreAllocate, SendLog, StoreFilled
  <2>3. r \in records /\ r.thd \in Thread
    BY <2>1, RecordNumbers
  <2>4. Copied(r)' => Copied(r)
    <3>1. CASE r.thd = t
      <4>1. pc[t] # "copy"
        BY <1>3 DEF AppendStep, LoadAgain, LoadForMark, StartRecord, LoadLsn, CheckSpace,
           StoreAllocate, SendLog, StoreFilled
      <4> QED BY <3>1, <4>1 DEF Copied
    <3>2. CASE r.thd # t
      <4>1. pc'[r.thd] = pc[r.thd] /\ rec'[r.thd] = rec[r.thd]
        BY <1>0, <1>3, <2>3, <3>2, WorkerFrame
      <4> QED BY <4>1 DEF Copied
    <3> QED BY <3>1, <3>2
  <2> QED BY <1>0, <1>1, <2>1, <2>2, <2>3, <2>4
<1>4. ASSUME NEW t \in Thread, FetchAdd(t), fpc # "failed", NEW r \in records'
      PROVE  RecordOK(r)'
  <2>1. /\ pc[t] = "fetch" /\ pc'[t] = "copy" /\ rec[t].size \in Sizes
        /\ rec'[t] \in Record /\ rec'[t].thd = t /\ rec'[t].size = rec[t].size /\ rec'[t].lsn = lsn_
        /\ records' = records \cup {rec'[t]}
        /\ lsn_' = lsn_ + Aligned(rec[t].size)
        /\ persistent_lsn' = persistent_lsn /\ buffer' = buffer
    BY <1>0, <1>4, ClaimEffect
  <2>2. CASE r = rec'[t]
    <3>1. ~Copied(r)'
      BY <2>1, <2>2 DEF Copied
    <3>2. r.size \in Sizes /\ r.lsn + Aligned(r.size) = lsn_'
      BY <2>1, <2>2
    <3>3. r.lsn + Aligned(r.size) <= lsn_'
      <4>1. Aligned(rec[t].size) \in Nat
        BY <2>1, Constants
      <4>2. lsn_' \in Nat
        BY <1>0, <2>1, <4>1
      <4> QED BY <3>2, <4>2
    <3> QED BY <3>1, <3>2, <3>3, Zenon DEF RecordOK
  <2>3. CASE r # rec'[t]
    <3>1. r \in records /\ r.thd \in Thread
      BY <2>1, <2>3, RecordNumbers
    <3>2. /\ lsn_' \in Nat /\ lsn_ <= lsn_'
          /\ \A u \in Thread \ {t} : pc'[u] = pc[u] /\ rec'[u] = rec[u]
      BY <1>0, <1>4, WorkerFrame DEF Work
    <3>3. Copied(r)' => Copied(r)
      <4>1. CASE r.thd = t
        BY <2>1, <4>1 DEF Copied
      <4>2. CASE r.thd # t
        <5>1. pc'[r.thd] = pc[r.thd] /\ rec'[r.thd] = rec[r.thd]
          BY <3>1, <3>2, <4>2
        <5> QED BY <5>1 DEF Copied
      <4> QED BY <4>1, <4>2
    <3> QED BY <1>1, <2>1, <3>1, <3>2, <3>3
  <2> QED BY <2>2, <2>3
<1>5. ASSUME Publish, NEW r \in records'
      PROVE  RecordOK(r)'
  <2>1. r \in records /\ lsn_' = lsn_ /\ pc' = pc /\ rec' = rec /\ persistent_lsn' = end
    BY <1>5 DEF Publish, ForgetFlushed, workerVars
  <2>2. RecordOK(r) /\ r.lsn \in Nat /\ r.size \in Nat
    BY <2>1, RecordNumbers
  <2>3. end \in Nat /\ persistent_lsn <= end
    BY <1>5 DEF LogInv, TypeOK, TailInv, Publish
  <2>4. ASSUME Copied(r), NEW p \in r.lsn..(r.lsn + r.size - 1), p >= end
        PROVE  buffer'[p % BufferSize] = <<r.thd, p>>
    <3>1. p >= persistent_lsn
      BY <1>0, <2>2, <2>3, <2>4
    <3>2. buffer[p % BufferSize] = <<r.thd, p>>
      BY <2>2, <2>4, <3>1 DEF RecordOK
    <3>3. buffer'[p % BufferSize] = buffer[p % BufferSize]
      BY <1>5, <2>1, <2>4, PublishBytes
    <3> QED BY <3>2, <3>3
  <2>5. Copied(r)' = Copied(r)
    BY <2>1 DEF Copied
  <2> QED BY <2>1, <2>2, <2>4, <2>5, Zenon DEF RecordOK
<1>6. ASSUME LogThreadStep \/ Ended, ~Publish, NEW r \in records'
      PROVE  RecordOK(r)'
  <2>1. /\ lsn_' = lsn_ /\ pc' = pc /\ rec' = rec /\ records' = records /\ buffer' = buffer
        /\ persistent_lsn' = persistent_lsn
    BY <1>6 DEF LogThreadStep, ReadTail, ReadFilled, ReadAllocated, FlushNothing, AssertFails,
         Flush, workerVars, Ended, vars, tailVars
  <2>2. Copied(r)' => Copied(r)
    BY <2>1 DEF Copied
  <2> QED BY <1>0, <1>1, <2>1, <2>2
<1> QED BY <1>2, <1>3, <1>4, <1>5, <1>6 DEF Next, LogThreadStep, Work

\* A claim takes a position no record reaches.
LEMMA DisjointStep ==
  ASSUME LogInv, Next
  PROVE  RecordsDisjoint'
<1>0. TypeOK /\ RecordsDisjoint /\ (\A t \in Thread : OrderOK(t)) /\ lsn_ \in Nat
  BY DEF LogInv, TypeOK
<1>1. ASSUME NEW t \in Thread, FetchAdd(t)
      PROVE  RecordsDisjoint'
  <2>1. records' = records \cup {rec'[t]} /\ rec'[t].lsn = lsn_
    BY <1>0, <1>1, ClaimEffect
  <2>2. ASSUME NEW r \in records
        PROVE  r.lsn + r.size <= lsn_
    <3>1. r.lsn \in Nat /\ r.size \in Sizes /\ r.size \in Nat /\ r.lsn + Aligned(r.size) <= lsn_
      BY RecordNumbers DEF RecordOK
    <3>2. Aligned(r.size) \in Nat /\ r.size <= Aligned(r.size)
      BY <3>1, Constants
    <3> QED BY <1>0, <3>1, <3>2
  <2> QED BY <1>0, <2>1, <2>2, Zenon DEF RecordsDisjoint
<1>2. ASSUME NEW t \in Thread, AppendStep(t)
      PROVE  RecordsDisjoint'
  <2>1. records' = records
    BY <1>0, <1>2, WorkerCounters
  <2> QED BY <1>0, <2>1, Zenon DEF RecordsDisjoint
<1>3. CASE LogThreadStep \/ Ended
  <2>1. records' \subseteq records
    BY <1>3 DEF LogThreadStep, ReadTail, ReadFilled, ReadAllocated, FlushNothing, AssertFails,
         Flush, Publish, ForgetFlushed, Ended, vars
  <2> QED BY <1>0, <2>1, Zenon DEF RecordsDisjoint
<1> QED BY <1>1, <1>2, <1>3 DEF Next, Work

\* What flush takes from the ring is complete, and no claim reaches below it.
LEMMA IntactStep ==
  ASSUME LogInv, Next
  PROVE  FlushedIntact'
<1>0. /\ TypeOK /\ TailInv /\ FlushedIntact /\ lsn_ \in Nat /\ ready \in Nat /\ end \in Nat
      /\ persistent_lsn \in Nat /\ (\A t \in Thread : OrderOK(t) /\ ScanOK(t))
  BY DEF LogInv, TypeOK
<1>1. ASSUME NEW t \in Thread, FetchAdd(t), fpc # "failed"
      PROVE  FlushedIntact'
  <2>1. records' = records \cup {rec'[t]} /\ rec'[t].lsn = lsn_ /\ rec'[t] \in Record
    BY <1>0, <1>1, ClaimEffect
  <2>2. chunk' = chunk
    BY <1>1 DEF FetchAdd
  <2>3. \A p \in DOMAIN chunk : p \in Int /\ p < lsn_
    BY <1>0 DEF TailInv, Flushing
  <2>4. \A p \in lsn_..(lsn_ + rec'[t].size - 1) : p \notin DOMAIN chunk
    <3> SUFFICES ASSUME NEW p \in lsn_..(lsn_ + rec'[t].size - 1), p \in DOMAIN chunk
                 PROVE  FALSE
      OBVIOUS
    <3>1. lsn_ <= p
      OBVIOUS
    <3>2. p \in Int /\ p < lsn_
      BY <2>3
    <3> QED BY <1>0, <3>1, <3>2
  <2> QED BY <1>0, <2>1, <2>2, <2>4, Zenon DEF FlushedIntact
<1>2. ASSUME NEW t \in Thread, AppendStep(t)
      PROVE  FlushedIntact'
  <2>1. records' = records
    BY <1>0, <1>2, WorkerCounters
  <2>2. chunk' = chunk
    BY <1>2 DEF AppendStep, LoadAgain, LoadForMark, StartRecord, LoadLsn, CheckSpace,
         StoreAllocate, CopyRecord, SendLog, StoreFilled
  <2> QED BY <1>0, <2>1, <2>2, Zenon DEF FlushedIntact
<1>3. CASE Flush
  <2>1. /\ end' = persistent_lsn + Block /\ end' <= ready
        /\ chunk' = [p \in persistent_lsn..(end' - 1) |-> buffer[p % BufferSize]]
    BY <1>0, <1>3, FlushBlock
  <2>2. records' = records /\ end' \in Nat /\ fpc = "decide"
    BY <1>0, <1>3, <2>1, Constants DEF Flush
  <2>3. ASSUME NEW r \in records, NEW p \in r.lsn..(r.lsn + r.size - 1), p \in DOMAIN chunk'
        PROVE  chunk'[p] = <<r.thd, p>>
    <3>1. p \in persistent_lsn..(end' - 1)
      BY <2>1, <2>3
    <3>2. r.lsn \in Nat /\ r.size \in Nat /\ r.thd \in Thread /\ RecordOK(r)
      BY RecordNumbers
    <3>3. p >= persistent_lsn /\ r.lsn < ready
      BY <1>0, <2>1, <2>2, <3>1, <3>2
    <3>4. Copied(r)
      <4> SUFFICES ASSUME pc[r.thd] = "copy", rec[r.thd] = r PROVE FALSE
        BY DEF Copied
      <4>1. ready <= r.lsn
        BY <1>0, <2>2, <3>2 DEF ScanOK, Scanned, UnderWay
      <4> QED BY <1>0, <3>2, <3>3, <4>1
    <3>5. buffer[p % BufferSize] = <<r.thd, p>>
      BY <3>2, <3>3, <3>4 DEF RecordOK
    <3> QED BY <2>1, <3>1, <3>5
  <2> QED BY <2>2, <2>3, Zenon DEF FlushedIntact
<1>4. CASE FlushNothing \/ Publish
  <2>1. DOMAIN chunk' = {}
    BY <1>4 DEF FlushNothing, Publish, ReturnFlush
  <2> QED BY <2>1, Zenon DEF FlushedIntact
<1>5. CASE ReadTail \/ ReadFilled \/ ReadAllocated \/ AssertFails \/ Ended
  <2>1. records' = records /\ chunk' = chunk
    BY <1>5 DEF ReadTail, ReadFilled, ReadAllocated, AssertFails, Ended, vars
  <2> QED BY <1>0, <2>1, Zenon DEF FlushedIntact
<1> QED BY <1>1, <1>2, <1>3, <1>4, <1>5 DEF Next, Work, LogThreadStep

-----------------------------------------------------------------------------
(***************************************************************************)
(* The theorems.                                                           *)
(***************************************************************************)
LEMMA InitInv == Init => LogInv
<1> SUFFICES ASSUME Init PROVE LogInv
  OBVIOUS
<1>0. N \in Nat /\ N > 0 /\ BufferSize \in Nat /\ Round \in Nat /\ Round > 0
  BY Constants
<1>1. TypeOK
  <2>1. rec \in [Thread -> Record]
    BY DEF Init, Record
  <2>2. allocate_lsn \in [Thread -> Nat]
    BY MaxAssumption DEF Init
  <2>3. buffer \in [0..(BufferSize - 1) -> Byte]
    BY DEF Init, Byte
  <2>4. pc \in [Thread -> PC]
    BY DEF Init, PC
  <2>5. batch_num \in 0..LOG_BATCH_SIZE /\ started \in 0..MaxRecords
    BY BatchAssumption, WorkerAssumption DEF Init
  <2>6. \A p \in DOMAIN chunk : chunk[p] \in Byte
    BY DEF Init
  <2> QED BY <1>0, <2>1, <2>2, <2>3, <2>4, <2>5, <2>6 DEF Init, TypeOK
<1>2. TailInv
  <2>1. DOMAIN chunk = {} /\ fpc = "tail" /\ lsn_ = 0 /\ persistent_lsn = 0 /\ scan = 1
    BY DEF Init
  <2>2. 0 % Round = 0
    BY <1>0
  <2> QED BY <2>1, <2>2 DEF TailInv, Flushing
<1>3. SpaceInv
  <2>1. lsn_ = 0 /\ persistent_lsn = 0
    BY DEF Init
  <2>2. Threshold > 0
    <3>1. PICK x \in Nat : x = MaxEntry * N
      BY Constants
    <3>2. x < BufferSize
      BY <3>1, Constants
    <3> QED BY <1>0, <2>1, <3>1, <3>2 DEF Threshold
  <2>3. Threshold \in Int
    BY <2>1, Constants DEF Threshold
  <2>4. \A c \in Nat : ~(Threshold <= c /\ c <= lsn_)
    BY <2>1, <2>2, <2>3
  <2> QED BY <2>4 DEF SpaceInv
<1>4. \A t \in Thread : OrderOK(t) /\ ScanOK(t)
  BY DEF Init, OrderOK, ScanOK, Scanned, UnderWay
<1>5. records = {}
  BY DEF Init
<1> QED BY <1>1, <1>2, <1>3, <1>4, <1>5 DEF LogInv, RecordsDisjoint, FlushedIntact

\* Every step of the workers and the log thread keeps the invariant.
LEMMA StepInv == LogInv /\ Next => LogInv'
<1> SUFFICES ASSUME LogInv, Next PROVE LogInv'
  OBVIOUS
<1>1. TypeOK'
  <2>1. CASE \E t \in Thread : Work(t)
    BY <2>1, TypeWorker DEF LogInv
  <2>2. CASE LogThreadStep
    BY <2>2, TypeLogThread DEF LogInv
  <2>3. CASE Ended
    BY <2>3 DEF Ended, vars, tailVars, flushVars, remoteVars, LogInv, TypeOK
  <2> QED BY <2>1, <2>2, <2>3 DEF Next
<1> QED BY <1>1, TailStep, SpaceStep, OrderStep, ScanStep, RecordStep, DisjointStep, IntactStep
        DEF LogInv

LEMMA QuietInv == LogInv /\ UNCHANGED vars => LogInv'
<1> SUFFICES ASSUME LogInv, UNCHANGED vars PROVE LogInv'
  OBVIOUS
<1>1. /\ UNCHANGED <<lsn_, persistent_lsn, filled_lsn, allocate_lsn, buffer, chunk, meta>>
      /\ UNCHANGED <<batch_num, sent, started, pc, rec, loaded, records>>
      /\ UNCHANGED <<fpc, ready, scan, filledLSN, end>>
  BY DEF vars, tailVars, remoteVars, flushVars
<1>2. TypeOK'
  BY <1>1 DEF LogInv, TypeOK
<1>3. TailInv'
  BY <1>1 DEF LogInv, TailInv, Flushing
<1>4. SpaceInv'
  BY <1>1 DEF LogInv, SpaceInv, Threshold, Passing
<1>5. \A t \in Thread : OrderOK(t)' /\ ScanOK(t)'
  BY <1>1 DEF LogInv, OrderOK, ScanOK, Scanned, UnderWay
<1>6. \A r \in records' : RecordOK(r)'
  BY <1>1 DEF LogInv, RecordOK, Copied
<1>7. RecordsDisjoint' /\ FlushedIntact'
  BY <1>1 DEF LogInv, RecordsDisjoint, FlushedIntact
<1> QED BY <1>2, <1>3, <1>4, <1>5, <1>6, <1>7 DEF LogInv

\* In a logger that never crashes the inductive invariant holds: with sync's
\* fetch-and-add, records are disjoint and keep their bytes until flushed.
THEOREM LogConsistent == Spec => []LogInv
<1>1. LogInv /\ [Next]_vars => LogInv'
  BY StepInv, QuietInv
<1> QED BY InitInv, <1>1, PTL DEF Spec

\* No two workers get overlapping positions from *_lsn with fetch-and-add; the
\* serial logger, which adds without it, violates this (run logger_serial).
THEOREM Disjoint == Spec => []RecordsDisjoint
<1>1. LogInv => RecordsDisjoint
  BY DEF LogInv
<1> QED BY LogConsistent, <1>1, PTL

\* A crash leaves the memory of the logger as at the start.
LEMMA LostInit ==
  ASSUME TypeOK, Lost
  PROVE  Init'
<1>1. DOMAIN buffer = 0..(BufferSize - 1)
  BY DEF TypeOK
<1> QED BY <1>1, Zenon DEF Lost, Init

\* The invariant survives crashes and the replay of the file.
THEOREM LogSurvives == RestartSpec => []LogInv
<1>1. RestartInit => LogInv
  BY InitInv DEF RestartInit
<1>2. LogInv /\ [RestartNext]_allVars => LogInv'
  <2> SUFFICES ASSUME LogInv, [RestartNext]_allVars PROVE LogInv'
    OBVIOUS
  <2>1. CASE Next
    BY <2>1, StepInv
  <2>2. CASE UNCHANGED vars
    BY <2>2, QuietInv
  <2>3. CASE Crash
    <3>1. Init'
      BY <2>3, LostInit DEF Crash, LogInv
    <3>2. Init' => LogInv'
      BY InitInv, PTL
    <3> QED BY <3>1, <3>2
  <2>4. Next \/ UNCHANGED vars \/ Crash
    BY DEF RestartNext, LogThreadRuns, LogWork, LogFlush, LogEnded, ReplayStep,
           ReadStep, Recovering, Next, allVars
  <2> QED BY <2>1, <2>2, <2>3, <2>4
<1> QED BY <1>1, <1>2, PTL DEF RestartSpec

\* Workers that race past the space check never overrun what is not flushed: the
\* reserve of one largest record per worker in logTxn is enough for any number
\* of workers, any record sizes and any stale tail.
THEOREM NotOverrun == RestartSpec => []RingNotOverrun
<1>1. LogInv => RingNotOverrun
  <2> SUFFICES ASSUME LogInv PROVE RingNotOverrun
    OBVIOUS
  <2> QED BY RingRoom, Constants DEF RingNotOverrun
<1> QED BY LogSurvives, <1>1, PTL

\* What tryFlush writes to the file holds every byte of the records in its range.
THEOREM Intact == RestartSpec => []FlushedIntact
<1>1. LogInv => FlushedIntact
  BY DEF LogInv
<1> QED BY LogSurvives, <1>1, PTL

-----------------------------------------------------------------------------
(***************************************************************************)
(* The replay of the file: its invariant.                                  *)
(***************************************************************************)
\* The file's bytes below Top are read, whether or not *_disk_lsn says so yet.
Top == disk_lsn + bytes

\* The records of the log, in the file or not yet.
Logged == file \cup {Extent(r) : r \in records}

ReplayTypeOK ==
    /\ recovering \in BOOLEAN
    /\ file \subseteq [lsn : Nat, size : 1..(MaxEntry - 1)] /\ fileEnd \in Nat
    /\ disk_lsn \in Nat /\ next_lsn \in Nat /\ gc_lsn \in Nat /\ gc \in Nat /\ bytes \in Nat
    /\ rpc \in {"next", "gc", "read", "publish", "eof", "finished"}
    /\ recovering => ring \in [0..(RingSize + MaxEntry - 1) -> Nat \cup {NoCell}]

\* Until a crash the replay has not begun, and the log has no gap.
LoggedInv ==
    /\ disk_lsn = 0 /\ next_lsn = 0 /\ gc_lsn = 0 /\ gc = 0 /\ bytes = 0
    /\ rpc = "next" /\ entry = NoEntry
    /\ Chain(Logged, lsn_) /\ \A r \in file : EndOf(r) <= lsn_

\* The log thread's reads: the ring holds the last RingSize bytes read, and the
\* dummy tail repeats its beginning.
RingHolds ==
    /\ \A p \in Nat : p < Top /\ Top <= p + RingSize => ring[p % RingSize] = p
    /\ \A k \in 0..(MaxEntry - 1) : ring[RingSize + k] = ring[k]

\* From here on the log thread overwrites nothing: the beginning of the record at
\* work, but only its end as long as _gc_lsn is 0.
Kept == IF entry = NoEntry \/ gc_lsn = 0 THEN next_lsn ELSE entry.lsn

ReadInv ==
    /\ Top <= fileEnd /\ Top <= Kept + RingSize
    /\ rpc \in {"next", "gc", "read", "finished"} => bytes = 0
    /\ rpc = "gc" => gc <= next_lsn
    /\ rpc = "read" => gc <= Kept

\* The worker goes from record to record.
NextInv ==
    /\ next_lsn < fileEnd => \E r \in file : r.lsn = next_lsn
    /\ entry # NoEntry => entry \in file /\ EndOf(entry) = next_lsn /\ next_lsn <= disk_lsn
    /\ gc_lsn <= Kept

ReplayInv ==
    /\ LogInv /\ ReplayTypeOK
    /\ ~recovering => LoggedInv
    /\ recovering => Chain(file, fileEnd) /\ RingHolds /\ ReadInv /\ NextInv

-----------------------------------------------------------------------------
(***************************************************************************)
(* The log thread's reads into the ring.                                   *)
(***************************************************************************)
LEMMA RingConstants ==
  /\ RingSize \in Nat /\ RingSize > 0 /\ ReadBlock \in Nat /\ ReadBlock < RingSize
  /\ MaxEntry \in Nat /\ MaxEntry <= RingSize /\ 2 * ReadBlock < RingSize
<1>1. RingSize \in Nat /\ ReadBlock \in Nat /\ ReadBlock > 0 /\ ReadBlock < RingSize \div 2
      /\ MaxEntry <= RingSize
  BY ReadAssumption
<1>2. 2 * ReadBlock < RingSize
  BY <1>1
<1> QED BY <1>1, <1>2, Constants

\* The cell d positions ahead of x.
LEMMA CellOf ==
  ASSUME NEW n \in Nat, n > 0, NEW x \in Nat, NEW d \in Nat, d < n
  PROVE  (x + d) % n = IF (x % n) + d < n THEN (x % n) + d ELSE (x % n) + d - n
<1> DEFINE q == x \div n
           r == x % n
<1>1. q \in Int /\ r \in Nat /\ r < n /\ x = n * q + r
  BY DivMod
<1> HIDE DEF q, r
<1>2. CASE r + d < n
  <2>1. x + d = n * q + (r + d) /\ r + d \in Nat
    BY <1>1
  <2>2. (n * q + (r + d)) % n = r + d
    BY <1>1, <1>2, <2>1, ModIs
  <2> QED BY <1>2, <2>1, <2>2 DEF r
<1>3. CASE ~(r + d < n)
  <2>1. x + d = n * (q + 1) + (r + d - n) /\ r + d - n \in Nat /\ r + d - n < n /\ q + 1 \in Int
    BY <1>1, <1>3
  <2>2. (n * (q + 1) + (r + d - n)) % n = r + d - n
    BY <2>1, ModIs
  <2> QED BY <1>3, <2>1, <2>2 DEF r
<1> QED BY <1>2, <1>3

\* How far a read goes: not beyond a block, and not into what the log thread
\* takes for kept.
LEMMA ReadBounds ==
  ASSUME ReplayTypeOK, ~HalfFull, ~TooShort
  PROVE  /\ ReadEnd \in Nat /\ disk_lsn < ReadEnd /\ ReadEnd <= disk_lsn + ReadBlock
         /\ ReadEnd <= gc + RingSize
<1>1. disk_lsn \in Nat /\ gc \in Nat
  BY DEF ReplayTypeOK
<1>2. /\ RingSize \in Nat /\ RingSize > 0 /\ ReadBlock \in Nat
      /\ 2 * ReadBlock < RingSize /\ Round \in Nat /\ Round > 0
  BY RingConstants, Constants
<1>3. PICK kept \in Int : kept = gc - (gc % Round)
  <2>1. gc % Round \in Nat
    BY <1>1, <1>2, DivMod
  <2> QED BY <1>1, <2>1
<1>4. ReadEnd = IF disk_lsn + ReadBlock - kept >= RingSize
                THEN kept + RingSize - Round ELSE disk_lsn + ReadBlock
  BY <1>3 DEF ReadEnd
<1>5. ReadEnd \in Int /\ ReadEnd <= disk_lsn + ReadBlock
  BY <1>1, <1>2, <1>3, <1>4
<1> DEFINE h == RingSize \div 2
           b == ReadBlock \div 2
<1>6. h \in Int /\ 2 * h <= RingSize /\ b \in Int /\ 0 <= b
  BY <1>2
<1>7. disk_lsn - gc <= h
  BY <1>1, <1>6 DEF HalfFull
<1>8. ReadEnd - disk_lsn >= b /\ ReadEnd # disk_lsn
  BY <1>1, <1>5, <1>6 DEF TooShort
<1> HIDE DEF h, b
<1>9. disk_lsn < ReadEnd
  BY <1>1, <1>5, <1>6, <1>8
<1>10. ReadEnd <= gc + RingSize
  BY <1>1, <1>2, <1>5, <1>6, <1>7
<1> QED BY <1>1, <1>5, <1>9, <1>10

\* What a read leaves in the ring.
LEMMA FilledRing ==
  ASSUME NEW last \in Nat, NEW e \in Nat, disk_lsn \in Nat, disk_lsn <= last, last <= e,
         disk_lsn < e, e <= disk_lsn + ReadBlock, bytes = 0,
         ring \in [0..(RingSize + MaxEntry - 1) -> Nat \cup {NoCell}], RingHolds,
         ring' = Filled(last, disk_lsn % RingSize, e % RingSize)
  PROVE  /\ ring' \in [0..(RingSize + MaxEntry - 1) -> Nat \cup {NoCell}]
         /\ \A p \in Nat : p < last /\ last <= p + RingSize => ring'[p % RingSize] = p
         /\ \A k \in 0..(MaxEntry - 1) : ring'[RingSize + k] = ring'[k]
<1> DEFINE R == RingSize
           from == disk_lsn % R
           to == e % R
           short == last - disk_lsn < R - from
           read(i) == {p \in disk_lsn..(last - 1) : p % R = i}
           cell(i) == IF read(i) # {} THEN CHOOSE p \in read(i) : TRUE ELSE ring[i]
           D == 0..(R + MaxEntry - 1)
<1>1. R \in Nat /\ R > 0 /\ ReadBlock \in Nat /\ ReadBlock < R /\ MaxEntry \in Nat /\ MaxEntry <= R
  BY RingConstants
<1>2. ring' = [i \in D |-> IF i < R THEN cell(i)
                           ELSE IF Repeated(i - R, from, to, short) THEN cell(i - R)
                           ELSE ring[i]]
  BY DEF Filled
<1>3. \A i \in 0..(R - 1) : cell(i) \in Nat \cup {NoCell}
  <2> TAKE i \in 0..(R - 1)
  <2>1. i \in D
    BY <1>1
  <2>2. ring[i] \in Nat \cup {NoCell}
    BY <2>1
  <2>3. read(i) \subseteq Nat
    OBVIOUS
  <2> HIDE DEF read
  <2> QED BY <2>2, <2>3
<1>4. ASSUME NEW p \in Nat, p < last, last <= p + R
      PROVE  cell(p % R) = p
  <2>1. \A q \in read(p % R) : q = p /\ disk_lsn <= p
    <3> TAKE q \in read(p % R)
    <3>1. q \in Nat /\ disk_lsn <= q /\ q < last /\ q % R = p % R
      BY <1>1
    <3>2. q < p + R /\ p < q + R
      BY <1>1, <1>4, <3>1
    <3>3. q = p
      BY <1>1, <1>4, <3>1, <3>2, SameCell
    <3> QED BY <3>1, <3>3
  <2>2. CASE disk_lsn <= p
    <3>1. p \in read(p % R)
      BY <1>4, <2>2
    <3> HIDE DEF read
    <3> QED BY <2>1, <3>1
  <2>3. CASE p < disk_lsn
    <3>1. read(p % R) = {}
      <4> HIDE DEF read
      <4>1. ~(disk_lsn <= p)
        BY <2>3
      <4> QED BY <2>1, <4>1
    <3>2. cell(p % R) = ring[p % R]
      <4> HIDE DEF read
      <4> QED BY <3>1
    <3>3. p < Top /\ Top <= p + R
      BY <1>1, <1>4, <2>3 DEF Top
    <3>4. ring[p % R] = p
      BY <1>4, <3>3 DEF RingHolds
    <3> QED BY <3>2, <3>4
  <2> QED BY <1>4, <2>2, <2>3
<1>5. \A p \in Nat : p % R \in 0..(R - 1) /\ p % R \in D /\ p % R < R
  <2> TAKE p \in Nat
  <2>1. p % R \in Nat /\ p % R < R
    BY <1>1, DivMod
  <2> QED BY <1>1, <2>1
<1>6. ASSUME NEW k \in 0..(MaxEntry - 1), NEW q \in read(k)
      PROVE  Repeated(k, from, to, short)
  <2>1. q \in Nat /\ disk_lsn <= q /\ q < last /\ q % R = k /\ k \in Nat
    BY <1>1, <1>6
  <2>2. PICK d \in Nat : d = q - disk_lsn /\ q = disk_lsn + d
    BY <2>1
  <2>3. PICK de \in Nat : de = e - disk_lsn /\ e = disk_lsn + de
    <3>1. e - disk_lsn \in Nat /\ e = disk_lsn + (e - disk_lsn)
      OBVIOUS
    <3> QED BY <3>1
  <2>4. d < R /\ de < R /\ d < de /\ d < last - disk_lsn
    BY <1>1, <2>1, <2>2, <2>3
  <2>5. k = IF from + d < R THEN from + d ELSE from + d - R
    <3>1. (disk_lsn + d) % R = IF (disk_lsn % R) + d < R THEN (disk_lsn % R) + d
                               ELSE (disk_lsn % R) + d - R
      BY <1>1, <2>4, CellOf
    <3>2. (disk_lsn + d) % R = k
      BY <2>1, <2>2, Zenon
    <3> HIDE DEF R
    <3> QED BY <3>1, <3>2 DEF from
  <2>6. to = IF from + de < R THEN from + de ELSE from + de - R
    <3>1. (disk_lsn + de) % R = IF (disk_lsn % R) + de < R THEN (disk_lsn % R) + de
                                ELSE (disk_lsn % R) + de - R
      BY <1>1, <2>4, CellOf
    <3>2. (disk_lsn + de) % R = to
      BY <2>3, Zenon
    <3> HIDE DEF R, to
    <3> QED BY <3>1, <3>2 DEF from
  <2>7. from \in Nat /\ from < R
    BY <1>1, DivMod
  <2> HIDE DEF from, to, R, read
  <2>8. to \in Nat
    BY <1>1, <2>6, <2>7
  <2>9. CASE to > 0 /\ from >= to
    <3>1. CASE from + d < R
      BY <1>1, <2>1, <2>5, <2>7, <2>8, <2>9, <3>1 DEF Repeated
    <3>2. CASE ~(from + d < R)
      <4>1. ~short
        BY <1>1, <2>1, <2>4, <2>7, <3>2
      <4>2. k < to
        BY <1>1, <2>4, <2>5, <2>6, <2>7, <3>2
      <4> HIDE DEF short
      <4> QED BY <2>9, <4>1, <4>2 DEF Repeated
    <3> QED BY <3>1, <3>2
  <2>10. CASE ~(to > 0 /\ from >= to)
    <3>1. from + d < R /\ k >= from
      BY <1>1, <2>4, <2>5, <2>6, <2>7, <2>8, <2>10
    <3>2. to > 0 => k < to
      BY <1>1, <2>4, <2>5, <2>6, <2>7, <2>8, <2>10, <3>1
    <3> HIDE DEF short
    <3> QED BY <2>10, <3>1, <3>2 DEF Repeated
  <2> QED BY <2>9, <2>10
<1>7. ASSUME NEW k \in 0..(MaxEntry - 1)
      PROVE  ring'[R + k] = ring'[k]
  <2>1. k \in D /\ k < R /\ R + k \in D /\ ~(R + k < R) /\ (R + k) - R = k
    BY <1>1
  <2>2. read(k) # {} => Repeated(k, from, to, short)
    <3> HIDE DEF read, from, to, short
    <3> QED BY <1>6
  <2>3. ring[R + k] = ring[k]
    BY DEF RingHolds
  <2>4. ~Repeated(k, from, to, short) => cell(k) = ring[R + k]
    <3> HIDE DEF read, from, to, short
    <3> QED BY <2>2, <2>3
  <2> HIDE DEF cell, from, to, short, R, D
  <2>5. ring'[k] = cell(k)
    BY <1>2, <2>1
  <2>6. ring'[R + k] = IF Repeated(k, from, to, short) THEN cell(k) ELSE ring[R + k]
    BY <1>2, <2>1
  <2> QED BY <2>4, <2>5, <2>6
<1>8. \A p \in Nat : p < last /\ last <= p + R => ring'[p % R] = p
  <2> HIDE DEF cell, from, to, short, R, D
  <2> QED BY <1>2, <1>4, <1>5
<1>9. ring' \in [D -> Nat \cup {NoCell}]
  <2>1. \A i \in D : i < R => i \in 0..(R - 1)
    BY <1>1
  <2>2. \A i \in D : ~(i < R) => i - R \in 0..(R - 1)
    BY <1>1
  <2>3. \A i \in D : ring[i] \in Nat \cup {NoCell}
    OBVIOUS
  <2> HIDE DEF cell, from, to, short, R, D
  <2> QED BY <1>2, <1>3, <2>1, <2>2, <2>3
<1> QED BY <1>7, <1>8, <1>9

-----------------------------------------------------------------------------
(***************************************************************************)
(* The replay's steps.                                                     *)
(***************************************************************************)
LEMMA FileSizes ==
  ASSUME ReplayTypeOK, NEW r \in file
  PROVE  /\ r \in [lsn : Nat, size : 1..(MaxEntry - 1)] /\ r.lsn \in Nat /\ r.size \in Nat /\ r.size > 0
         /\ Aligned(r.size) \in Nat /\ r.size <= Aligned(r.size) /\ Aligned(r.size) <= MaxEntry
         /\ r # NoEntry
<1>1. r \in [lsn : Nat, size : 1..(MaxEntry - 1)]
  BY DEF ReplayTypeOK
<1>2. r.lsn \in Nat /\ r.size \in 1..(MaxEntry - 1)
  BY <1>1
<1>3. MaxEntry \in Nat
  BY Constants
<1>4. r.size \in Nat /\ r.size > 0
  BY <1>2, <1>3
<1>5. r # NoEntry
  BY <1>4 DEF NoEntry
<1> QED BY <1>1, <1>2, <1>4, <1>5, AlignedSize

LEMMA LaterBound ==
  ASSUME NEW x \in Nat, NEW y \in Nat, x <= y
  PROVE  /\ \A a \in Nat : a <= x => a <= y
         /\ \A a \in Nat, c \in Nat : a <= x + c => a <= y + c
  OBVIOUS

LEMMA KeptType ==
  ASSUME ReplayTypeOK, NextInv
  PROVE  Kept \in Nat /\ Kept <= next_lsn
<1>1. next_lsn \in Nat
  BY DEF ReplayTypeOK
<1>2. CASE entry = NoEntry \/ gc_lsn = 0
  BY <1>1, <1>2 DEF Kept
<1>3. CASE ~(entry = NoEntry \/ gc_lsn = 0)
  <2>1. entry \in file /\ EndOf(entry) = next_lsn
    BY <1>3 DEF NextInv
  <2>2. entry.lsn \in Nat /\ Aligned(entry.size) \in Nat
    BY <2>1, FileSizes
  <2>3. Kept = entry.lsn
    BY <1>3 DEF Kept
  <2> QED BY <1>1, <2>1, <2>2, <2>3 DEF EndOf
<1> QED BY <1>2, <1>3

\* The log thread keeps the invariant: it overwrites nothing of the record at work.
LEMMA ReadStepInv ==
  ASSUME ReplayInv, ReadStep
  PROVE  ReplayInv'
<1>0. /\ recovering /\ recovering' = recovering /\ file' = file /\ fileEnd' = fileEnd
      /\ UNCHANGED vars
  BY DEF ReadStep, Recovering
<1>1. /\ LogInv /\ ReplayTypeOK /\ Chain(file, fileEnd) /\ RingHolds /\ ReadInv /\ NextInv
  BY <1>0 DEF ReplayInv
<1>2. LogInv' /\ Chain(file, fileEnd)'
  BY <1>0, <1>1, QuietInv DEF Chain
<1>3. /\ disk_lsn \in Nat /\ next_lsn \in Nat /\ gc_lsn \in Nat /\ gc \in Nat /\ bytes \in Nat
      /\ fileEnd \in Nat
      /\ rpc \in {"next", "gc", "read", "publish", "eof", "finished"}
      /\ ring \in [0..(RingSize + MaxEntry - 1) -> Nat \cup {NoCell}]
  BY <1>0, <1>1 DEF ReplayTypeOK
<1>4. UNCHANGED <<next_lsn, gc_lsn, entry>> /\ Kept' = Kept /\ Kept \in Nat
  BY <1>1, KeptType DEF ReadStep, ReadNext, ReadGc, ReadNothing, ReadFile, PublishRead, replayVars, Kept
<1>5. SUFFICES ReplayTypeOK' /\ RingHolds' /\ ReadInv' /\ NextInv'
  BY <1>0, <1>2 DEF ReplayInv
<1>6. CASE ReadNext \/ ReadGc \/ ReadNothing
  <2>1. /\ ring' = ring /\ disk_lsn' = disk_lsn /\ bytes' = bytes /\ gc' \in Nat
        /\ rpc' \in {"gc", "read", "next"} /\ bytes = 0
    BY <1>1, <1>3, <1>6 DEF ReadNext, ReadGc, ReadNothing, ReadInv
  <2>2. (rpc' = "gc" => gc' <= next_lsn) /\ (rpc' = "read" => gc' <= Kept)
    <3>1. CASE ReadNext \/ ReadNothing
      BY <1>3, <3>1 DEF ReadNext, ReadNothing
    <3>2. CASE ReadGc
      <4>1. /\ gc <= next_lsn /\ gc_lsn <= Kept /\ rpc' = "read"
            /\ gc' = IF gc > gc_lsn /\ gc_lsn # 0 THEN gc_lsn ELSE gc
        BY <1>1, <3>2 DEF ReadGc, ReadInv, NextInv
      <4>2. gc_lsn = 0 => Kept = next_lsn
        BY DEF Kept
      <4> QED BY <1>3, <1>4, <4>1, <4>2
    <3> QED BY <1>6, <3>1, <3>2
  <2>3. Top' = Top
    BY <2>1 DEF Top
  <2>4. ReplayTypeOK'
    BY <1>0, <1>1, <1>3, <1>4, <2>1 DEF ReplayTypeOK
  <2>5. RingHolds'
    BY <1>1, <2>1, <2>3, Zenon DEF RingHolds
  <2>6. ReadInv'
    BY <1>0, <1>1, <1>4, <2>1, <2>2, <2>3, Zenon DEF ReadInv
  <2>7. NextInv'
    BY <1>0, <1>1, <1>4, <2>1, Zenon DEF NextInv
  <2> QED BY <2>4, <2>5, <2>6, <2>7
<1>7. CASE ReadFile
  <2>0. rpc = "read" /\ ~HalfFull /\ ~TooShort /\ disk_lsn' = disk_lsn /\ gc' = 0 /\ bytes = 0
    BY <1>1, <1>7 DEF ReadFile, ReadInv
  <2>1. /\ ReadEnd \in Nat /\ disk_lsn < ReadEnd /\ ReadEnd <= disk_lsn + ReadBlock
        /\ ReadEnd <= gc + RingSize
    BY <1>1, <2>0, ReadBounds
  <2>2. PICK e \in Nat : e = ReadEnd
    BY <2>1
  <2> DEFINE last == IF e > fileEnd THEN fileEnd ELSE e
  <2>3. /\ ring' = Filled(last, disk_lsn % RingSize, e % RingSize)
        /\ bytes' = last - disk_lsn /\ rpc' \in {"eof", "publish"}
    BY <1>7, <2>2 DEF ReadFile
  <2>4. disk_lsn <= fileEnd
    BY <1>1, <1>3, <2>0 DEF ReadInv, Top
  <2>5. last \in Nat /\ disk_lsn <= last /\ last <= e /\ last <= fileEnd
    BY <1>3, <2>1, <2>2, <2>4
  <2> HIDE DEF last
  <2>6. disk_lsn < e /\ e <= disk_lsn + ReadBlock /\ e <= gc + RingSize
    BY <2>1, <2>2
  <2>7. /\ ring' \in [0..(RingSize + MaxEntry - 1) -> Nat \cup {NoCell}]
        /\ \A p \in Nat : p < last /\ last <= p + RingSize => ring'[p % RingSize] = p
        /\ \A k \in 0..(MaxEntry - 1) : ring'[RingSize + k] = ring'[k]
    BY <1>1, <1>3, <2>0, <2>3, <2>5, <2>6, FilledRing
  <2>8. Top' = last /\ bytes' \in Nat
    BY <1>3, <2>0, <2>3, <2>5 DEF Top
  <2>9. last <= Kept + RingSize
    <3>1. gc <= Kept
      BY <1>1, <2>0 DEF ReadInv
    <3> QED BY <1>3, <1>4, <2>5, <2>6, <3>1, RingConstants
  <2>10. ReplayTypeOK'
    BY <1>0, <1>1, <1>3, <1>4, <2>0, <2>3, <2>7, <2>8 DEF ReplayTypeOK
  <2>11. RingHolds'
    BY <2>7, <2>8, Zenon DEF RingHolds
  <2>12. ReadInv'
    BY <1>0, <1>4, <2>3, <2>5, <2>8, <2>9 DEF ReadInv
  <2>13. NextInv'
    BY <1>0, <1>1, <1>4, <2>0, Zenon DEF NextInv
  <2> QED BY <2>10, <2>11, <2>12, <2>13
<1>8. CASE PublishRead
  <2>1. /\ ring' = ring /\ disk_lsn' = disk_lsn + bytes /\ bytes' = 0 /\ gc' = gc
        /\ rpc' \in {"finished", "next"}
    BY <1>8 DEF PublishRead
  <2>2. Top' = Top /\ disk_lsn' \in Nat /\ disk_lsn <= disk_lsn'
    BY <1>3, <2>1 DEF Top
  <2>4. ReplayTypeOK'
    BY <1>0, <1>1, <1>3, <1>4, <2>1, <2>2 DEF ReplayTypeOK
  <2>5. RingHolds'
    BY <1>1, <2>1, <2>2, Zenon DEF RingHolds
  <2>6. ReadInv'
    <3>1. rpc' \notin {"gc", "read"}
      BY <2>1
    <3> QED BY <1>0, <1>1, <1>4, <2>1, <2>2, <3>1, Zenon DEF ReadInv
  <2>7. NextInv'
    <3>1. next_lsn <= disk_lsn => next_lsn <= disk_lsn'
      BY <1>3, <2>2
    <3> QED BY <1>0, <1>1, <1>4, <3>1, Zenon DEF NextInv
  <2> QED BY <2>4, <2>5, <2>6, <2>7
<1> QED BY <1>6, <1>7, <1>8 DEF ReadStep

\* The worker keeps it: it takes a record of the file, at the place it reads.
LEMMA ReplayStepInv ==
  ASSUME ReplayInv, ReplayStep
  PROVE  ReplayInv'
<1>0. /\ recovering /\ recovering' = recovering /\ file' = file /\ fileEnd' = fileEnd
      /\ UNCHANGED vars
  BY DEF ReplayStep, Recovering
<1>1. /\ LogInv /\ ReplayTypeOK /\ Chain(file, fileEnd) /\ RingHolds /\ ReadInv /\ NextInv
  BY <1>0 DEF ReplayInv
<1>2. LogInv' /\ Chain(file, fileEnd)'
  BY <1>0, <1>1, QuietInv DEF Chain
<1>3. /\ disk_lsn \in Nat /\ next_lsn \in Nat /\ gc_lsn \in Nat /\ gc \in Nat /\ bytes \in Nat
      /\ fileEnd \in Nat
  BY <1>0, <1>1 DEF ReplayTypeOK
<1>4. UNCHANGED <<ring, disk_lsn, rpc, gc, bytes>>
  BY DEF ReplayStep, TakeEntry, AwaitEntry, Applied, readVars
<1>5. Top' = Top /\ RingHolds'
  <2>1. Top' = Top
    BY <1>4 DEF Top
  <2> QED BY <1>1, <1>4, <2>1, Zenon DEF RingHolds
<1>6. Kept \in Nat /\ Kept <= next_lsn
  BY <1>1, KeptType
<1>7. SUFFICES /\ gc_lsn' \in Nat /\ next_lsn' \in Nat /\ next_lsn <= next_lsn' /\ NextInv'
                /\ Kept' \in Nat /\ Kept <= Kept'
  <2>1. ReplayTypeOK'
    BY <1>0, <1>1, <1>4, <1>7 DEF ReplayTypeOK
  <2>2. ReadInv'
    <3>1. Top \in Nat
      BY <1>3 DEF Top
    <3>2. /\ Top <= Kept + RingSize => Top <= Kept' + RingSize
          /\ gc <= Kept => gc <= Kept'
          /\ gc <= next_lsn => gc <= next_lsn'
      <4>1. PICK y \in Nat : y = Kept' /\ Kept <= y
        BY <1>7
      <4>2. RingSize \in Nat
        BY RingConstants
      <4>3. PICK x \in Nat : x = Top
        BY <3>1
      <4>4. /\ x <= Kept + RingSize => x <= y + RingSize
            /\ gc <= Kept => gc <= y
        BY <1>3, <1>6, <4>1, <4>2, LaterBound
      <4>5. gc <= next_lsn => gc <= next_lsn'
        BY <1>3, <1>7, LaterBound
      <4> QED BY <4>1, <4>3, <4>4, <4>5, Zenon
    <3> QED BY <1>0, <1>1, <1>4, <1>5, <3>2, Zenon DEF ReadInv
  <2> QED BY <1>0, <1>2, <1>5, <1>7, <2>1, <2>2 DEF ReplayInv
<1>8. CASE TakeEntry
  <2>1. PICK r \in Available : entry' = r /\ next_lsn' = EndOf(r) /\ gc_lsn' = gc_lsn
    BY <1>8 DEF TakeEntry
  <2>2. Kept = next_lsn
    BY <1>8 DEF TakeEntry, Kept
  <2>3. next_lsn < disk_lsn
    BY <2>1 DEF Available
  <2>4. next_lsn < Top /\ Top <= next_lsn + RingSize /\ disk_lsn <= Top /\ Top \in Nat
    BY <1>1, <1>3, <2>3, <2>2, RingConstants DEF ReadInv, Top
  <2>5. ring[next_lsn % RingSize] = next_lsn
    BY <1>1, <1>3, <2>4 DEF RingHolds
  <2>6. next_lsn < fileEnd
    BY <1>1, <1>3, <2>4 DEF ReadInv
  <2>7. \E x \in file : x.lsn = next_lsn
    BY <1>1, <2>6 DEF NextInv
  <2>8. HeaderSize(next_lsn) = {x.size : x \in {x \in file : x.lsn = next_lsn}}
    BY <2>7 DEF HeaderSize
  <2>9. PICK s \in HeaderSize(next_lsn) :
           r = [lsn |-> next_lsn, size |-> s] /\ next_lsn + Aligned(s) < disk_lsn
    BY <2>1, <2>5 DEF Available
  <2>10. PICK x \in file : x.lsn = next_lsn /\ x.size = s
    BY <2>8, <2>9
  <2>11. x \in [lsn : Nat, size : 1..(MaxEntry - 1)] /\ x # NoEntry /\ Aligned(x.size) \in Nat
    BY <1>1, FileSizes
  <2>12. r = x
    BY <2>9, <2>10, <2>11
  <2>13. EndOf(r) = next_lsn + Aligned(s) /\ EndOf(r) \in Nat /\ next_lsn <= EndOf(r)
         /\ EndOf(r) <= disk_lsn
    BY <1>3, <2>9, <2>10, <2>11, <2>12 DEF EndOf
  <2>14. EndOf(r) < fileEnd => \E z \in file : z.lsn = EndOf(r)
    BY <1>1, <2>12 DEF Chain
  <2>15. Kept' \in Nat /\ Kept <= Kept' /\ gc_lsn' <= Kept'
    <3>1. Kept' = IF gc_lsn = 0 THEN EndOf(r) ELSE next_lsn
      BY <2>1, <2>10, <2>11, <2>12 DEF Kept
    <3>2. gc_lsn <= Kept
      BY <1>1 DEF NextInv
    <3> QED BY <1>3, <2>1, <2>2, <2>13, <3>1, <3>2
  <2>16. NextInv'
    <3>1. EndOf(r)' = EndOf(r)
      BY DEF EndOf, Aligned
    <3>2. entry' \in file' /\ EndOf(entry)' = next_lsn' /\ next_lsn' <= disk_lsn'
      BY <1>0, <1>4, <2>1, <2>12, <2>13 DEF EndOf, Aligned
    <3>3. next_lsn' < fileEnd' => \E z \in file' : z.lsn = next_lsn'
      BY <1>0, <2>1, <2>14
    <3> QED BY <2>15, <3>2, <3>3 DEF NextInv
  <2> QED BY <1>3, <2>1, <2>13, <2>15, <2>16
<1>9. CASE AwaitEntry
  <2>1. UNCHANGED <<next_lsn, gc_lsn, entry>> /\ Kept' = Kept
    BY <1>9 DEF AwaitEntry, replayVars, Kept
  <2>2. NextInv'
    BY <1>0, <1>1, <1>4, <2>1, Zenon DEF NextInv, EndOf
  <2> QED BY <1>3, <1>6, <2>1, <2>2
<1>10. CASE Applied
  <2>1. entry # NoEntry /\ entry' = NoEntry /\ next_lsn' = next_lsn /\ gc_lsn' = EndOf(entry) - 1
    BY <1>10 DEF Applied, set_gc_lsn
  <2>2. entry \in file /\ EndOf(entry) = next_lsn
    BY <1>1, <2>1 DEF NextInv
  <2>3. EndOf(entry) - 1 \in Nat
    <3>1. /\ entry.lsn \in Nat /\ entry.size \in Nat /\ entry.size > 0
          /\ Aligned(entry.size) \in Nat /\ entry.size <= Aligned(entry.size)
      BY <1>1, <2>2, FileSizes
    <3> QED BY <3>1 DEF EndOf
  <2>4. Kept' = next_lsn /\ gc_lsn' <= Kept'
    <3>1. Kept' = next_lsn
      BY <2>1 DEF Kept
    <3> QED BY <1>3, <2>1, <2>2, <2>3, <3>1
  <2>5. NextInv'
    <3>1. entry' = NoEntry
      BY <2>1
    <3> QED BY <1>0, <1>1, <2>1, <2>4, <3>1, Zenon DEF NextInv
  <2> QED BY <1>3, <1>6, <2>1, <2>3, <2>4, <2>5
<1> QED BY <1>8, <1>9, <1>10 DEF ReplayStep

\* The logger at work leaves no gap between the records of the log.
LEMMA LoggingInv ==
  ASSUME ReplayInv, Next, Logging
  PROVE  ReplayInv'
<1>0. /\ ~recovering /\ recovering' = recovering /\ fileEnd' = fileEnd
      /\ file' = file \cup {Extent(r) : r \in records \ records'}
      /\ UNCHANGED <<ring, disk_lsn, rpc, gc, bytes, next_lsn, gc_lsn, entry>>
  BY DEF Logging, readVars, replayVars
<1>1. LogInv /\ ReplayTypeOK /\ LoggedInv /\ TypeOK /\ lsn_ \in Nat
  BY <1>0 DEF ReplayInv, LogInv, TypeOK
<1>2. LogInv'
  BY <1>1, StepInv
<1>3. ASSUME NEW r \in records
      PROVE  /\ Extent(r) \in [lsn : Nat, size : 1..(MaxEntry - 1)]
             /\ EndOf(Extent(r)) <= lsn_
  <2>1. r.lsn \in Nat /\ r.size \in Sizes /\ r.lsn + Aligned(r.size) <= lsn_
    BY <1>1, RecordNumbers DEF RecordOK
  <2>2. r.size \in 1..(MaxEntry - 1)
    BY <2>1, Constants
  <2> QED BY <2>1, <2>2 DEF Extent, EndOf
<1>4. ASSUME NEW r \in Logged
      PROVE  EndOf(r) \in Nat /\ EndOf(r) <= lsn_
  <2>1. r \in [lsn : Nat, size : 1..(MaxEntry - 1)] /\ EndOf(r) <= lsn_
    BY <1>1, <1>3 DEF Logged, LoggedInv, ReplayTypeOK
  <2>2. r.lsn \in Nat /\ r.size \in 1..(MaxEntry - 1)
    BY <2>1
  <2>3. Aligned(r.size) \in Nat
    BY <2>2, AlignedSize
  <2> QED BY <2>1, <2>2, <2>3 DEF EndOf
<1>5. ReplayTypeOK'
  <2>1. file' \subseteq [lsn : Nat, size : 1..(MaxEntry - 1)]
    BY <1>0, <1>1, <1>3 DEF ReplayTypeOK
  <2> QED BY <1>0, <1>1, <2>1 DEF ReplayTypeOK
<1>6. lsn_' \in Nat /\ lsn_ <= lsn_' /\ Chain(Logged, lsn_)'
  <2>1. ASSUME NEW t \in Thread, FetchAdd(t)
        PROVE  lsn_' \in Nat /\ lsn_ <= lsn_' /\ Chain(Logged, lsn_)'
    <3>0. OrderOK(t)
      BY <1>1 DEF LogInv
    <3>1. /\ rec[t].size \in Sizes /\ rec'[t].size = rec[t].size /\ rec'[t].lsn = lsn_
          /\ records' = records \cup {rec'[t]} /\ lsn_' = lsn_ + Aligned(rec[t].size)
      BY <1>1, <2>1, <3>0, ClaimEffect
    <3>2. Aligned(rec[t].size) \in Nat /\ Aligned(rec[t].size) > 0
      BY <3>1, Constants
    <3>3. lsn_' \in Nat /\ lsn_ <= lsn_'
      BY <1>1, <3>1, <3>2
    <3> DEFINE n == Extent(rec'[t])
    <3>4. n.lsn = lsn_ /\ EndOf(n) = lsn_'
      BY <3>1 DEF Extent, EndOf
    <3>5. Logged' = Logged \cup {n}
      <4>1. file' = file
        BY <1>0, <3>1
      <4> HIDE DEF n
      <4>2. {Extent(r) : r \in records'} = {Extent(r) : r \in records} \cup {Extent(rec'[t])}
        BY <3>1
      <4>3. Logged' = file' \cup {Extent(r) : r \in records'}
        BY DEF Logged, Extent
      <4> QED BY <4>1, <4>2, <4>3 DEF Logged, n
    <3> HIDE DEF n
    <3>6. ASSUME NEW r \in Logged', EndOf(r) < lsn_'
          PROVE  \E s \in Logged' : s.lsn = EndOf(r)
      <4>1. r # n
        BY <3>3, <3>4, <3>6
      <4>2. r \in Logged
        BY <3>5, <3>6, <4>1
      <4>3. CASE EndOf(r) = lsn_
        BY <3>4, <3>5, <4>3
      <4>4. CASE EndOf(r) # lsn_
        <5>1. EndOf(r) < lsn_
          BY <1>1, <1>4, <4>2, <4>4
        <5>2. \E s \in Logged : s.lsn = EndOf(r)
          BY <1>1, <4>2, <5>1 DEF LoggedInv, Chain
        <5> QED BY <3>5, <5>2
      <4> QED BY <4>3, <4>4
    <3>7. \E s \in Logged' : s.lsn = 0
      <4>1. CASE lsn_ = 0
        BY <3>4, <3>5, <4>1
      <4>2. CASE lsn_ # 0
        <5>1. \E s \in Logged : s.lsn = 0
          BY <1>1, <4>2 DEF LoggedInv, Chain
        <5> QED BY <3>5, <5>1
      <4> QED BY <4>1, <4>2
    <3>8. \A r : EndOf(r)' = EndOf(r)
      BY DEF EndOf, Aligned
    <3> QED BY <3>3, <3>6, <3>7, Zenon DEF Chain, EndOf, Aligned
  <2>2. CASE ~\E t \in Thread : FetchAdd(t)
    <3>1. lsn_' = lsn_ /\ records' \subseteq records
      <4>1. ASSUME NEW t \in Thread, AppendStep(t) PROVE lsn_' = lsn_ /\ records' = records
        BY <1>1, <4>1, WorkerCounters
      <4>2. CASE LogThreadStep \/ Ended
        BY <4>2 DEF LogThreadStep, ReadTail, ReadFilled, ReadAllocated, FlushNothing, AssertFails,
           Flush, Publish, ForgetFlushed, workerVars, Ended, vars, tailVars
      <4> QED BY <2>2, <4>1, <4>2 DEF Next, Work
    <3>2. Logged' = Logged
      <4>1. Logged' = file' \cup {Extent(r) : r \in records'}
        BY DEF Logged, Extent
      <4>2. {Extent(r) : r \in records \ records'} \cup {Extent(r) : r \in records'}
            = {Extent(r) : r \in records}
        BY <3>1
      <4> QED BY <1>0, <4>1, <4>2 DEF Logged
    <3>3. lsn_' \in Nat /\ lsn_ <= lsn_'
      BY <1>1, <3>1
    <3>4. Chain(Logged, lsn_)'
      BY <1>1, <3>1, <3>2, Zenon DEF LoggedInv, Chain, EndOf, Aligned
    <3> QED BY <3>3, <3>4
  <2> QED BY <2>1, <2>2
<1>7. \A r \in file' : EndOf(r) <= lsn_'
  <2> TAKE r \in file'
  <2>1. r \in Logged
    BY <1>0 DEF Logged
  <2> QED BY <1>1, <1>4, <1>6, <2>1
<1>8. LoggedInv'
  BY <1>0, <1>1, <1>6, <1>7, Zenon DEF LoggedInv, EndOf, Aligned
<1> QED BY <1>0, <1>2, <1>5, <1>8 DEF ReplayInv

\* An empty ring.
LEMMA NewRingHolds ==
  /\ NewRing \in [0..(RingSize + MaxEntry - 1) -> Nat \cup {NoCell}]
  /\ \A k \in 0..(MaxEntry - 1) : NewRing[RingSize + k] = NewRing[k]
<1>1. RingSize \in Nat /\ MaxEntry \in Nat
  BY RingConstants
<1>2. \A k \in 0..(MaxEntry - 1) :
         k \in 0..(RingSize + MaxEntry - 1) /\ RingSize + k \in 0..(RingSize + MaxEntry - 1)
  BY <1>1
<1> QED BY <1>2 DEF NewRing

\* When the process is started to recover, the ring is empty.
LEMMA FreshReplay ==
  ASSUME ring = NewRing, disk_lsn = 0, next_lsn = 0, gc_lsn = 0, gc = 0, bytes = 0, rpc = "next",
         entry = NoEntry, fileEnd \in Nat, Chain(file, fileEnd)
  PROVE  RingHolds /\ ReadInv /\ NextInv
<1>1. Top = 0 /\ Kept = 0
  BY DEF Top, Kept
<1>2. RingHolds
  BY <1>1, NewRingHolds DEF RingHolds
<1>3. ReadInv
  BY <1>1, RingConstants DEF ReadInv
<1>4. NextInv
  BY <1>1 DEF NextInv, Chain
<1> QED BY <1>2, <1>3, <1>4

\* A crash leaves a file without gaps, the last record torn or not.
LEMMA CrashInv ==
  ASSUME ReplayInv, Crash
  PROVE  ReplayInv'
<1>0. /\ ~recovering /\ recovering' = TRUE /\ ring' = NewRing
      /\ UNCHANGED <<disk_lsn, rpc, gc, bytes, next_lsn, gc_lsn, entry>>
  BY DEF Crash, init, replayVars
<1>1. LogInv /\ ReplayTypeOK /\ LoggedInv /\ TypeOK /\ TailInv /\ lsn_ \in Nat
      /\ persistent_lsn \in Nat /\ end \in Nat /\ ready \in Nat
  BY <1>0 DEF ReplayInv, LogInv, TypeOK
<1>2. LogInv'
  <2>1. Init'
    BY <1>1, LostInit DEF Crash
  <2>2. Init' => LogInv'
    BY InitInv, PTL
  <2> QED BY <2>1, <2>2
<1>3. PICK cut \in persistent_lsn..(IF fpc = "publish" THEN end ELSE persistent_lsn) :
         fileEnd' = cut /\ file' = {r \in file \cup {Extent(r) : r \in records} : r.lsn < cut}
  BY DEF Crash
<1>4. cut \in Nat /\ cut <= lsn_
  BY <1>1, <1>3 DEF TailInv, Flushing
<1>5. file' = {r \in Logged : r.lsn < cut}
  BY <1>3 DEF Logged
<1>6. Logged \subseteq [lsn : Nat, size : 1..(MaxEntry - 1)]
  <2> SUFFICES ASSUME NEW r \in records PROVE Extent(r) \in [lsn : Nat, size : 1..(MaxEntry - 1)]
    BY <1>1 DEF Logged, ReplayTypeOK
  <2>1. r.lsn \in Nat /\ r.size \in Sizes
    BY <1>1, RecordNumbers
  <2>2. r.size \in 1..(MaxEntry - 1)
    BY <2>1, Constants
  <2> QED BY <2>1, <2>2 DEF Extent
<1>7. ReplayTypeOK'
  BY <1>0, <1>1, <1>3, <1>4, <1>5, <1>6, NewRingHolds DEF ReplayTypeOK
<1>8. cut > 0 => \E r \in file' : r.lsn = 0
  <2> SUFFICES ASSUME cut > 0 PROVE \E r \in file' : r.lsn = 0
    OBVIOUS
  <2>1. lsn_ > 0
    BY <1>1, <1>4
  <2>2. PICK r \in Logged : r.lsn = 0
    BY <1>1, <2>1 DEF LoggedInv, Chain
  <2> QED BY <1>5, <2>2
<1>9. ASSUME NEW r \in file', EndOf(r) < cut
      PROVE  \E s \in file' : s.lsn = EndOf(r)
  <2>1. r \in Logged
    BY <1>5, <1>9
  <2>2. EndOf(r) \in Nat
    <3>1. r.lsn \in Nat /\ r.size \in 1..(MaxEntry - 1)
      BY <1>6, <2>1
    <3>2. Aligned(r.size) \in Nat
      BY <3>1, AlignedSize
    <3> QED BY <3>1, <3>2 DEF EndOf
  <2>3. EndOf(r) < lsn_
    BY <1>1, <1>4, <1>9, <2>2
  <2>4. PICK s \in Logged : s.lsn = EndOf(r)
    BY <1>1, <2>1, <2>3 DEF LoggedInv, Chain
  <2> QED BY <1>5, <1>9, <2>4
<1>10. Chain(file, fileEnd)'
  BY <1>3, <1>8, <1>9, Zenon DEF Chain, EndOf, Aligned
<1>11. /\ disk_lsn' = 0 /\ next_lsn' = 0 /\ gc_lsn' = 0 /\ gc' = 0 /\ bytes' = 0 /\ rpc' = "next"
       /\ entry' = NoEntry /\ fileEnd' \in Nat
  BY <1>0, <1>1, <1>3, <1>4 DEF LoggedInv
<1>12. Top' = 0 /\ Kept' = 0
  BY <1>11 DEF Top, Kept
<1>13. RingHolds'
  BY <1>0, <1>12, NewRingHolds DEF RingHolds
<1>14. ReadInv'
  BY <1>11, <1>12, RingConstants DEF ReadInv
<1>15. NextInv'
  BY <1>3, <1>8, <1>11, <1>12 DEF NextInv
<1> QED BY <1>0, <1>2, <1>7, <1>10, <1>13, <1>14, <1>15 DEF ReplayInv

\* The invariant of logging, crash and replay.
THEOREM ReplayConsistent == RestartSpec => []ReplayInv
<1>1. RestartInit => ReplayInv
  <2> SUFFICES ASSUME RestartInit PROVE ReplayInv
    OBVIOUS
  <2>0. /\ Init /\ rpc = "next" /\ gc = 0 /\ bytes = 0
        /\ disk_lsn = 0 /\ next_lsn = 0 /\ gc_lsn = 0 /\ entry = NoEntry
    BY DEF RestartInit
  <2>1. LogInv /\ lsn_ = 0 /\ records = {}
    BY <2>0, InitInv DEF Init
  <2>2. CASE recovering = FALSE /\ file = {} /\ fileEnd = 0 /\ ring = <<>>
    <3>1. ReplayTypeOK
      BY <2>0, <2>2 DEF ReplayTypeOK
    <3>2. LoggedInv
      <4>1. Logged = {}
        BY <2>1, <2>2 DEF Logged
      <4> QED BY <2>0, <2>1, <2>2, <4>1 DEF LoggedInv, Chain
    <3> QED BY <2>1, <2>2, <3>1, <3>2 DEF ReplayInv
  <2>3. CASE /\ recovering = TRUE /\ ring = NewRing
             /\ \E f \in OldFiles : file = f.records /\ fileEnd = f.end
    <3>1. /\ fileEnd \in Nat /\ file \subseteq [lsn : Nat, size : 1..(MaxEntry - 1)]
          /\ Chain(file, fileEnd)
      BY <2>3, FileAssumption
    <3>2. ReplayTypeOK
      BY <2>0, <2>3, <3>1, NewRingHolds DEF ReplayTypeOK
    <3>3. RingHolds /\ ReadInv /\ NextInv
      BY <2>0, <2>3, <3>1, FreshReplay
    <3> QED BY <2>1, <2>3, <3>1, <3>2, <3>3 DEF ReplayInv
  <2> QED BY <2>2, <2>3 DEF RestartInit
<1>2. ReplayInv /\ [RestartNext]_allVars => ReplayInv'
  <2> SUFFICES ASSUME ReplayInv, [RestartNext]_allVars PROVE ReplayInv'
    OBVIOUS
  <2>1. CASE Next /\ Logging
    BY <2>1, LoggingInv
  <2>2. CASE ReadStep
    BY <2>2, ReadStepInv
  <2>3. CASE ReplayStep
    BY <2>3, ReplayStepInv
  <2>4. CASE Crash
    BY <2>4, CrashInv
  <2>5. CASE UNCHANGED allVars
    <3>1. /\ UNCHANGED vars /\ UNCHANGED <<recovering, file, fileEnd>>
          /\ UNCHANGED <<ring, disk_lsn, rpc, gc, bytes, next_lsn, gc_lsn, entry>>
          /\ lsn_' = lsn_ /\ records' = records
      BY <2>5 DEF allVars, readVars, replayVars, vars, tailVars
    <3>2. LogInv'
      BY <3>1, QuietInv DEF ReplayInv
    <3>3. ReplayTypeOK'
      BY <3>1 DEF ReplayInv, ReplayTypeOK
    <3>4. ~recovering' => LoggedInv'
      BY <3>1, Zenon DEF ReplayInv, LoggedInv, Logged, Chain, EndOf, Aligned, Extent
    <3>5. recovering' => Chain(file, fileEnd)' /\ RingHolds' /\ ReadInv' /\ NextInv'
      BY <3>1, Zenon DEF ReplayInv, Chain, EndOf, Aligned, RingHolds, ReadInv, NextInv, Top, Kept
    <3> QED BY <3>2, <3>3, <3>4, <3>5 DEF ReplayInv
  <2>6. (Next /\ Logging) \/ ReadStep \/ ReplayStep \/ Crash \/ UNCHANGED allVars
    BY DEF RestartNext, LogThreadRuns, LogWork, LogFlush, LogEnded, Next
  <2> QED BY <2>1, <2>2, <2>3, <2>4, <2>5, <2>6
<1> QED BY <1>1, <1>2, PTL DEF RestartSpec

\* The record recover_txn works on is one of the file that no crash has torn, and
\* from the second record on it is whole in the ring and its dummy tail: the log
\* thread never overwrites it, for every block smaller than half of the ring.
THEOREM ReplayedWhole == RestartSpec => []ReplayIntact
<1>1. ReplayInv => ReplayIntact
  <2> SUFFICES ASSUME ReplayInv, entry # NoEntry
               PROVE  /\ entry \in file /\ EndOf(entry) <= fileEnd
                      /\ gc_lsn # 0 => \A i \in 0..(entry.size - 1) :
                            ring[(entry.lsn % RingSize) + i] = entry.lsn + i
    BY DEF ReplayIntact, Whole
  <2>1. recovering
    BY DEF ReplayInv, LoggedInv
  <2>2. ReplayTypeOK /\ RingHolds /\ ReadInv /\ NextInv
    BY <2>1 DEF ReplayInv
  <2>3. entry \in file /\ EndOf(entry) = next_lsn /\ next_lsn <= disk_lsn
    BY <2>2 DEF NextInv
  <2>4. /\ entry.lsn \in Nat /\ entry.size \in Nat /\ Aligned(entry.size) \in Nat
        /\ entry.size <= Aligned(entry.size) /\ Aligned(entry.size) <= MaxEntry
    BY <2>2, <2>3, FileSizes
  <2>5. disk_lsn \in Nat /\ next_lsn \in Nat /\ bytes \in Nat /\ Top \in Nat /\ disk_lsn <= Top
    BY <2>2 DEF ReplayTypeOK, Top
  <2>6. RingSize \in Nat /\ RingSize > 0 /\ MaxEntry \in Nat /\ MaxEntry <= RingSize
    BY RingConstants
  <2>7. ASSUME gc_lsn # 0, NEW i \in 0..(entry.size - 1)
        PROVE  ring[(entry.lsn % RingSize) + i] = entry.lsn + i
    <3> DEFINE p == entry.lsn + i
               c == entry.lsn % RingSize
    <3>1. i \in Nat /\ i < entry.size /\ i < RingSize
      BY <2>4, <2>6
    <3>2. p \in Nat /\ p < next_lsn /\ entry.lsn <= p
      BY <2>3, <2>4, <2>6, <3>1 DEF EndOf
    <3>3. Top <= entry.lsn + RingSize
      <4>1. Kept = entry.lsn
        BY <2>7 DEF Kept
      <4> QED BY <2>2, <4>1 DEF ReadInv
    <3>4. p < Top /\ Top <= p + RingSize
      <4> HIDE DEF p
      <4> QED BY <2>3, <2>4, <2>5, <2>6, <3>2, <3>3
    <3>5. ring[p % RingSize] = p
      <4> HIDE DEF p
      <4> QED BY <2>2, <3>2, <3>4 DEF RingHolds
    <3>6. c \in Nat /\ c < RingSize
      BY <2>4, <2>6, DivMod
    <3>7. p % RingSize = IF c + i < RingSize THEN c + i ELSE c + i - RingSize
      <4>1. PICK l \in Nat : l = entry.lsn
        BY <2>4
      <4>2. (l + i) % RingSize = IF (l % RingSize) + i < RingSize THEN (l % RingSize) + i
                                 ELSE (l % RingSize) + i - RingSize
        BY <2>6, <3>1, CellOf
      <4> QED BY <4>1, <4>2, Zenon
    <3> HIDE DEF p, c
    <3>8. CASE c + i < RingSize
      BY <3>5, <3>7, <3>8 DEF p, c
    <3>9. CASE ~(c + i < RingSize)
      <4>1. PICK k \in 0..(MaxEntry - 1) : k = c + i - RingSize /\ RingSize + k = c + i
        <5>1. c + i - RingSize \in 0..(MaxEntry - 1) /\ RingSize + (c + i - RingSize) = c + i
          BY <2>4, <2>6, <3>1, <3>6, <3>9
        <5> QED BY <5>1
      <4>2. ring[RingSize + k] = ring[k]
        BY <2>2 DEF RingHolds
      <4>3. ring[c + i] = p
        BY <3>5, <3>7, <3>9, <4>1, <4>2
      <4> QED BY <4>3 DEF p, c
    <3> QED BY <3>8, <3>9
  <2>8. EndOf(entry) <= fileEnd
    <3>1. Top <= fileEnd /\ fileEnd \in Nat
      BY <2>2 DEF ReadInv, ReplayTypeOK
    <3> QED BY <2>3, <2>5, <3>1
  <2> QED BY <2>3, <2>7, <2>8
<1> QED BY ReplayConsistent, <1>1, PTL

=============================================================================
