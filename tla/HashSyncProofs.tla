--------------------------- MODULE HashSyncProofs ---------------------------
(***************************************************************************)
(* Proofs about HashSync, for any workers, readers, pages, queries, queues,*)
(* batch size and trigger: a full batch of a page has one sender, the      *)
(* chains stay sorted and counted, and no lookup is served an older        *)
(* version than an earlier one.  Where a page comes from in the sorted     *)
(* array does not matter, so SortedPages stays unexpanded.                 *)
(***************************************************************************)
EXTENDS HashSync, SeqLemmas

-----------------------------------------------------------------------------
(***************************************************************************)
(* One sender per batch: inductive together with the domains of the        *)
(* variables it relates.                                                   *)
(***************************************************************************)
Domains ==
    /\ batch_cnt \in [Page -> Nat]
    /\ pc \in [Worker -> {"idle", "sync", "count", "send", "reset"}]
    /\ query = [w \in Worker |-> query[w]]
    /\ commit_t = [w \in Worker |-> commit_t[w]]
    /\ pos = [w \in Worker |-> pos[w]]

SenderInv == Domains /\ OneSenderPerBatch

\* The domains are those of Init: every assignment is an EXCEPT.
LEMMA DomainsInit == Init => Domains
  BY DEF Init, ChainInit, Domains

LEMMA DomainsNext == Domains /\ [Next]_vars => Domains'
<1> SUFFICES ASSUME Domains, [Next]_vars PROVE Domains'
  OBVIOUS
<1> USE DEF Domains
<1>1. ASSUME NEW w \in Worker, Commit(w) PROVE Domains'
  BY <1>1 DEF Commit
<1>2. ASSUME NEW w \in Worker, SkipPage(w) PROVE Domains'
  BY <1>2 DEF SkipPage
<1>3. ASSUME NEW w \in Worker, StampTail(w) PROVE Domains'
  BY <1>3 DEF StampTail
<1>4. ASSUME NEW w \in Worker, CountCommit(w) PROVE Domains'
  <2>1. batch_cnt' \in [Page -> Nat]
    <3>1. batch_cnt' = [p \in Page |-> IF p = PageAt(w) THEN batch_cnt[p] + 1
                                                       ELSE batch_cnt[p]]
      BY <1>4 DEF CountCommit
    <3> QED BY <3>1
  <2>2. pc' \in [Worker -> {"idle", "sync", "count", "send", "reset"}]
    BY <1>4 DEF CountCommit
  <2>3. pos' = [v \in Worker |-> pos'[v]]
    BY <1>4 DEF CountCommit
  <2>4. UNCHANGED <<query, commit_t>>
    BY <1>4 DEF CountCommit
  <2> QED BY <2>1, <2>2, <2>3, <2>4
<1>5. ASSUME NEW w \in Worker, SendHash(w) PROVE Domains'
  BY <1>5 DEF SendHash
<1>6. ASSUME NEW w \in Worker, ResetBatch(w) PROVE Domains'
  BY <1>6 DEF ResetBatch
<1>7. ASSUME NEW w \in Worker, EndSync(w) PROVE Domains'
  BY <1>7 DEF EndSync
<1>8. ASSUME UNCHANGED rwVars PROVE Domains'
  BY <1>8 DEF rwVars
<1>9. ASSUME NEW q \in Queue, Output(q) \/ InputStep(q) PROVE Domains'
  BY <1>8, <1>9 DEF Output, InputStep, Receive, CheckSize, Vaccum, Release
<1>10. ASSUME NEW r \in Reader, BeginTxn(r) PROVE Domains'
  BY <1>8, <1>10 DEF BeginTxn
<1>11. ASSUME Quiescent \/ UNCHANGED vars PROVE Domains'
  BY <1>8, <1>11 DEF Quiescent, vars
<1> QED
  BY <1>1, <1>2, <1>3, <1>4, <1>5, <1>6, <1>7, <1>9, <1>10, <1>11
     DEF Next, WorkerStep

\* Before the first commit no batch is full and nobody sends.
LEMMA SenderInit == Init => OneSenderPerBatch
  BY BatchAssumption DEF Init, ChainInit, OneSenderPerBatch, Sending

\* A step of one worker that leaves the counters alone, and does not change
\* whether or for what page the worker is sending, keeps the invariant.
LEMMA SenderFrame ==
    ASSUME OneSenderPerBatch, UNCHANGED batch_cnt,
           \A v \in Worker, p \in Page : Sending(v, p)' <=> Sending(v, p)
    PROVE  OneSenderPerBatch'
  BY DEF OneSenderPerBatch

\* The same variables give the same page.
LEMMA SendingFrame ==
    ASSUME NEW v \in Worker, NEW p \in Page,
           pc'[v] = pc[v], query'[v] = query[v], pos'[v] = pos[v]
    PROVE  Sending(v, p)' <=> Sending(v, p)
  BY DEF Sending, PageAt

LEMMA SenderNext == SenderInv /\ [Next]_vars => OneSenderPerBatch'
<1> SUFFICES ASSUME SenderInv, [Next]_vars PROVE OneSenderPerBatch'
  OBVIOUS
<1> USE DEF SenderInv, Domains
<1>1. ASSUME NEW w \in Worker, Commit(w) PROVE OneSenderPerBatch'
  <2>1. \A v \in Worker, p \in Page : Sending(v, p)' <=> Sending(v, p)
    <3> TAKE v \in Worker, p \in Page
    <3>1. CASE v = w
      BY <1>1, <3>1 DEF Commit, Sending
    <3>2. CASE v # w
      BY <1>1, <3>2, SendingFrame DEF Commit
    <3> QED BY <3>1, <3>2
  <2> QED BY <1>1, <2>1, SenderFrame DEF Commit
<1>2. ASSUME NEW w \in Worker, SkipPage(w) PROVE OneSenderPerBatch'
  <2>1. \A v \in Worker, p \in Page : Sending(v, p)' <=> Sending(v, p)
    <3> TAKE v \in Worker, p \in Page
    <3>1. CASE v = w
      BY <1>2, <3>1 DEF SkipPage, InLoop, Sending
    <3>2. CASE v # w
      BY <1>2, <3>2, SendingFrame DEF SkipPage
    <3> QED BY <3>1, <3>2
  <2> QED BY <1>2, <2>1, SenderFrame DEF SkipPage
<1>3. ASSUME NEW w \in Worker, StampTail(w) PROVE OneSenderPerBatch'
  <2>1. \A v \in Worker, p \in Page : Sending(v, p)' <=> Sending(v, p)
    <3> TAKE v \in Worker, p \in Page
    <3>1. CASE v = w
      BY <1>3, <3>1 DEF StampTail, InLoop, Sending
    <3>2. CASE v # w
      BY <1>3, <3>2, SendingFrame DEF StampTail
    <3> QED BY <3>1, <3>2
  <2> QED BY <1>3, <2>1, SenderFrame DEF StampTail
\* The only step that makes a sender: it brings the counter of its page to
\* the batch size exactly, so the page had none.
<1>4. ASSUME NEW w \in Worker, CountCommit(w) PROVE OneSenderPerBatch'
  <2> SUFFICES ASSUME NEW p \in Page
        PROVE /\ batch_cnt'[p] >= SyncBatch <=> \E v \in Worker : Sending(v, p)'
              /\ \A u, v \in Worker : Sending(u, p)' /\ Sending(v, p)' => u = v
    BY DEF OneSenderPerBatch
  <2>1. /\ batch_cnt[p] >= SyncBatch <=> \E v \in Worker : Sending(v, p)
        /\ \A u, v \in Worker : Sending(u, p) /\ Sending(v, p) => u = v
    BY DEF OneSenderPerBatch
  <2>2. \A v \in Worker : v # w => (Sending(v, p)' <=> Sending(v, p))
    BY <1>4, SendingFrame DEF CountCommit
  <2>3. ~Sending(w, p)
    BY <1>4 DEF CountCommit, Sending
  <2>4. CASE PageAt(w) # p
    <3>1. batch_cnt'[p] = batch_cnt[p]
      BY <1>4, <2>4 DEF CountCommit
    <3>2. ~Sending(w, p)'
      BY <1>4, <2>4 DEF CountCommit, Sending, PageAt
    <3> QED BY <2>1, <2>2, <2>3, <3>1, <3>2
  <2>5. CASE PageAt(w) = p
    <3>1. batch_cnt'[p] = batch_cnt[p] + 1
      BY <1>4, <2>5 DEF CountCommit
    <3>2. CASE batch_cnt[p] + 1 = SyncBatch
      <4>1. Sending(w, p)'
        BY <1>4, <2>5, <3>2 DEF CountCommit, Sending, PageAt
      <4>2. \A v \in Worker : ~Sending(v, p)
        BY <2>1, <3>2, BatchAssumption
      <4>3. batch_cnt'[p] >= SyncBatch
        BY <3>1, <3>2, BatchAssumption
      <4> QED BY <2>2, <4>1, <4>2, <4>3
    <3>3. CASE batch_cnt[p] + 1 # SyncBatch
      <4>1. ~Sending(w, p)'
        BY <1>4, <2>5, <3>3 DEF CountCommit, Sending
      <4>2. batch_cnt'[p] >= SyncBatch <=> batch_cnt[p] >= SyncBatch
        BY <3>1, <3>3, BatchAssumption
      <4> QED BY <2>1, <2>2, <2>3, <4>1, <4>2
    <3> QED BY <3>2, <3>3
  <2> QED BY <2>4, <2>5
<1>5. ASSUME NEW w \in Worker, SendHash(w) PROVE OneSenderPerBatch'
  <2>1. \A v \in Worker, p \in Page : Sending(v, p)' <=> Sending(v, p)
    <3> TAKE v \in Worker, p \in Page
    <3>1. CASE v = w
      BY <1>5, <3>1 DEF SendHash, Sending, PageAt
    <3>2. CASE v # w
      BY <1>5, <3>2, SendingFrame DEF SendHash
    <3> QED BY <3>1, <3>2
  <2> QED BY <1>5, <2>1, SenderFrame DEF SendHash
\* The only step that ends a sender; there is no other one for its page, and
\* the counter is now below the batch size.
<1>6. ASSUME NEW w \in Worker, ResetBatch(w) PROVE OneSenderPerBatch'
  <2> SUFFICES ASSUME NEW p \in Page
        PROVE /\ batch_cnt'[p] >= SyncBatch <=> \E v \in Worker : Sending(v, p)'
              /\ \A u, v \in Worker : Sending(u, p)' /\ Sending(v, p)' => u = v
    BY DEF OneSenderPerBatch
  <2>1. /\ batch_cnt[p] >= SyncBatch <=> \E v \in Worker : Sending(v, p)
        /\ \A u, v \in Worker : Sending(u, p) /\ Sending(v, p) => u = v
    BY DEF OneSenderPerBatch
  <2>2. \A v \in Worker : v # w => (Sending(v, p)' <=> Sending(v, p))
    BY <1>6, SendingFrame DEF ResetBatch
  <2>3. ~Sending(w, p)'
    BY <1>6 DEF ResetBatch, Sending
  <2>4. CASE PageAt(w) # p
    <3>1. batch_cnt'[p] = batch_cnt[p]
      BY <1>6, <2>4 DEF ResetBatch
    <3>2. ~Sending(w, p)
      BY <2>4 DEF Sending
    <3> QED BY <2>1, <2>2, <2>3, <3>1, <3>2
  <2>5. CASE PageAt(w) = p
    <3>1. Sending(w, p)
      BY <1>6, <2>5 DEF ResetBatch, Sending
    <3>2. \A v \in Worker : ~Sending(v, p)'
      BY <2>1, <2>2, <2>3, <3>1
    <3>3. ~(batch_cnt'[p] >= SyncBatch)
      BY <1>6, <2>5, BatchAssumption DEF ResetBatch
    <3> QED BY <3>2, <3>3
  <2> QED BY <2>4, <2>5
<1>7. ASSUME NEW w \in Worker, EndSync(w) PROVE OneSenderPerBatch'
  <2>1. \A v \in Worker, p \in Page : Sending(v, p)' <=> Sending(v, p)
    <3> TAKE v \in Worker, p \in Page
    <3>1. CASE v = w
      BY <1>7, <3>1 DEF EndSync, Sending
    <3>2. CASE v # w
      BY <1>7, <3>2, SendingFrame DEF EndSync
    <3> QED BY <3>1, <3>2
  <2> QED BY <1>7, <2>1, SenderFrame DEF EndSync
<1>8. ASSUME UNCHANGED rwVars PROVE OneSenderPerBatch'
  <2>1. \A v \in Worker, p \in Page : Sending(v, p)' <=> Sending(v, p)
    BY <1>8, SendingFrame DEF rwVars
  <2> QED BY <1>8, <2>1, SenderFrame DEF rwVars
<1>9. ASSUME NEW q \in Queue, Output(q) \/ InputStep(q) PROVE OneSenderPerBatch'
  BY <1>8, <1>9 DEF Output, InputStep, Receive, CheckSize, Vaccum, Release
<1>10. ASSUME NEW r \in Reader, BeginTxn(r) PROVE OneSenderPerBatch'
  BY <1>8, <1>10 DEF BeginTxn
<1>11. ASSUME Quiescent \/ UNCHANGED vars PROVE OneSenderPerBatch'
  BY <1>8, <1>11 DEF Quiescent, vars
<1> QED
  BY <1>1, <1>2, <1>3, <1>4, <1>5, <1>6, <1>7, <1>9, <1>10, <1>11
     DEF Next, WorkerStep

\* However the commits of a page interleave with the plain store that resets its
\* counter, a full batch has exactly one worker that sends its hash and resets
\* it (sync_version).
THEOREM OneSender == Spec => []OneSenderPerBatch
<1>1. Init => SenderInv
  BY DomainsInit, SenderInit DEF SenderInv
<1>2. SenderInv /\ [Next]_vars => SenderInv'
  BY DomainsNext, SenderNext DEF SenderInv
<1>3. SenderInv => OneSenderPerBatch
  BY DEF SenderInv
<1> QED
  BY <1>1, <1>2, <1>3, PTL DEF Spec

-----------------------------------------------------------------------------
(***************************************************************************)
(* hash_chain::insert and vaccum on a sorted chain.                        *)
(***************************************************************************)
Increasing(s) == \A i, j \in 1..Len(s) : i < j => s[i] < s[j]

\* What insert returns: a sorted chain with the timestamp in it, longer by one
\* unless it was there, whose tail is not older.
Inserted(ch, ts, r) ==
    /\ r \in Seq(Nat) /\ Increasing(r)
    /\ Len(r) = IF ts \in Range(ch) THEN Len(ch) ELSE Len(ch) + 1
    /\ r[Len(r)] >= ch[Len(ch)]
    /\ \A i \in 1..Len(r) : r[i] = ts \/ \E j \in 1..Len(ch) : r[i] = ch[j]

LEMMA RangeIs ==
  ASSUME NEW ch \in Seq(Nat), NEW ts
  PROVE  ts \in Range(ch) <=> \E j \in 1..Len(ch) : ch[j] = ts
<1>1. DOMAIN ch = 1..Len(ch)
  BY LenProperties
<1> QED BY <1>1 DEF Range

LEMMA InsertAfterTail ==
  ASSUME NEW ch \in Seq(Nat), Len(ch) # 0, Increasing(ch), NEW ts \in Nat, ts > ch[Len(ch)]
  PROVE  Inserted(ch, ts, Append(ch, ts))
<1> DEFINE r == Append(ch, ts)
           n == Len(ch)
<1>1. n \in Nat \ {0} /\ n \in 1..n /\ \A i \in 1..n : ch[i] \in Nat
  BY LenProperties
<1>2. /\ r \in Seq(Nat) /\ Len(r) = n + 1 /\ r[n + 1] = ts
      /\ \A i \in 1..n : r[i] = ch[i]
  BY AppendProperties
<1> HIDE DEF r
<1>3. \A i \in 1..n : ch[i] < ts
  <2> TAKE i \in 1..n
  <2>1. i = n \/ i < n
    BY <1>1
  <2>2. ch[i] <= ch[n]
    BY <1>1, <2>1 DEF Increasing
  <2> QED BY <1>1, <2>2
<1>4. ts \notin Range(ch)
  BY <1>1, <1>3, RangeIs
<1>5. Increasing(r)
  <2> SUFFICES ASSUME NEW i \in 1..(n + 1), NEW j \in 1..(n + 1), i < j PROVE r[i] < r[j]
    BY <1>2 DEF Increasing
  <2>1. i \in 1..n /\ (j = n + 1 \/ j \in 1..n)
    BY <1>1
  <2> QED BY <1>2, <1>3, <2>1 DEF Increasing
<1>6. \A i \in 1..(n + 1) : i = n + 1 \/ i \in 1..n
  BY <1>1
<1>7. \A i \in 1..(n + 1) : r[i] = ts \/ \E j \in 1..n : r[i] = ch[j]
  BY <1>2, <1>6
<1>8. r[n + 1] >= ch[n]
  BY <1>1, <1>2
<1> QED BY <1>2, <1>4, <1>5, <1>7, <1>8 DEF Inserted, r

LEMMA InsertBeforeHead ==
  ASSUME NEW ch \in Seq(Nat), Len(ch) # 0, Increasing(ch), NEW ts \in Nat, ts < ch[1]
  PROVE  Inserted(ch, ts, <<ts>> \o ch)
<1> DEFINE r == <<ts>> \o ch
           n == Len(ch)
<1>1. n \in Nat \ {0} /\ n \in 1..n /\ 1 \in 1..n /\ \A i \in 1..n : ch[i] \in Nat
  BY LenProperties
<1>2. /\ r \in Seq(Nat) /\ Len(r) = 1 + n
      /\ \A i \in 1..(1 + n) : r[i] = IF i <= 1 THEN <<ts>>[i] ELSE ch[i - 1]
  <2>1. <<ts>> \in Seq(Nat) /\ Len(<<ts>>) = 1
    OBVIOUS
  <2> QED BY <2>1, ConcatProperties
<1> HIDE DEF r
<1>3. r[1] = ts /\ \A i \in 1..(n + 1) : i # 1 => i - 1 \in 1..n /\ r[i] = ch[i - 1]
  BY <1>1, <1>2
<1>4. \A i \in 1..n : ts < ch[i]
  <2> TAKE i \in 1..n
  <2>1. i = 1 \/ 1 < i
    BY <1>1
  <2>2. ch[1] <= ch[i]
    BY <1>1, <2>1 DEF Increasing
  <2> QED BY <1>1, <2>2
<1>5. ts \notin Range(ch)
  BY <1>1, <1>4, RangeIs
<1>6. Increasing(r)
  <2> SUFFICES ASSUME NEW i \in 1..(n + 1), NEW j \in 1..(n + 1), i < j PROVE r[i] < r[j]
    BY <1>1, <1>2 DEF Increasing
  <2>1. j # 1 /\ j - 1 \in 1..n /\ r[j] = ch[j - 1]
    BY <1>1, <1>3
  <2>2. CASE i = 1
    BY <1>3, <1>4, <2>1, <2>2
  <2>3. CASE i # 1
    <3>1. i - 1 \in 1..n /\ r[i] = ch[i - 1] /\ i - 1 < j - 1
      BY <1>1, <1>3, <2>3
    <3> QED BY <2>1, <3>1 DEF Increasing
  <2> QED BY <2>2, <2>3
<1>7. r[n + 1] = ch[n] /\ Len(r) = n + 1 /\ n + 1 \in 1..(n + 1)
  BY <1>1, <1>2
<1>8. r[n + 1] >= ch[n]
  BY <1>1, <1>7
<1>9. \A i \in 1..(n + 1) : r[i] = ts \/ \E j \in 1..n : r[i] = ch[j]
  BY <1>3
<1> QED BY <1>2, <1>5, <1>6, <1>7, <1>8, <1>9 DEF Inserted, r

LEMMA InsertBetween ==
  ASSUME NEW ch \in Seq(Nat), Increasing(ch), NEW ts \in Nat, NEW m \in 1..Len(ch), ch[m] > ts,
         \A j \in 1..(m - 1) : ch[j] < ts
  PROVE  Inserted(ch, ts, InsertAt(ch, m, ts))
<1> DEFINE r == InsertAt(ch, m, ts)
           n == Len(ch)
<1>1. n \in Nat \ {0} /\ \A i \in 1..n : ch[i] \in Nat
  BY LenProperties
<1>2. /\ r \in Seq(Nat) /\ Len(r) = n + 1
      /\ \A i \in 1..(n + 1) : r[i] = IF i < m THEN ch[i] ELSE IF i = m THEN ts ELSE ch[i - 1]
  <2>1. m \in 1..(Len(ch) + 1)
    BY <1>1
  <2> DEFINE N == Nat
  <2>2. ch \in Seq(N) /\ ts \in N
    OBVIOUS
  <2> HIDE DEF n, N
  <2>3. /\ r \in Seq(N) /\ Len(r) = Len(ch) + 1
        /\ \A i \in 1..(Len(ch) + 1) : r[i] = IF i < m THEN ch[i] ELSE IF i = m THEN ts ELSE ch[i - 1]
    BY <2>1, <2>2, InsertAtProperties
  <2> QED BY <2>3 DEF n, N
<1> HIDE DEF r
<1>3. \A i \in 1..n : i >= m => ts < ch[i]
  <2> TAKE i \in 1..n
  <2> HAVE i >= m
  <2>1. i = m \/ m < i
    BY <1>1
  <2>2. ch[m] <= ch[i]
    BY <1>1, <2>1 DEF Increasing
  <2> QED BY <1>1, <2>2
<1>4. \A i \in 1..n : i < m => ch[i] < ts
  BY <1>1
<1>5. ts \notin Range(ch)
  <2> SUFFICES ASSUME NEW j \in 1..n, ch[j] = ts PROVE FALSE
    BY RangeIs
  <2>1. j < m \/ j >= m
    BY <1>1
  <2> QED BY <1>1, <1>3, <1>4, <2>1
<1>6. Increasing(r)
  <2> SUFFICES ASSUME NEW i \in 1..(n + 1), NEW j \in 1..(n + 1), i < j PROVE r[i] < r[j]
    BY <1>1, <1>2 DEF Increasing
  <2>1. CASE j < m
    <3>1. i < m /\ i \in 1..n /\ j \in 1..n
      BY <1>1, <2>1
    <3>2. r[i] = ch[i] /\ r[j] = ch[j]
      BY <1>2, <2>1, <3>1
    <3> QED BY <3>1, <3>2 DEF Increasing
  <2>2. CASE j = m
    <3>1. r[i] = ch[i] /\ r[j] = ts /\ i \in 1..n /\ i < m
      BY <1>1, <1>2, <2>2
    <3> QED BY <1>4, <3>1
  <2>3. CASE j > m
    <3>1. r[j] = ch[j - 1] /\ j - 1 \in 1..n /\ j - 1 >= m
      BY <1>1, <1>2, <2>3
    <3>2. CASE i < m
      <4>1. r[i] = ch[i] /\ i \in 1..n /\ i < j - 1
        BY <1>1, <1>2, <3>1, <3>2
      <4> QED BY <3>1, <4>1 DEF Increasing
    <3>3. CASE i = m
      <4>1. r[i] = ts
        BY <1>1, <1>2, <3>3
      <4> QED BY <1>3, <3>1, <4>1
    <3>4. CASE i > m
      <4>1. r[i] = ch[i - 1] /\ i - 1 \in 1..n /\ i - 1 < j - 1
        BY <1>1, <1>2, <3>4
      <4> QED BY <3>1, <4>1 DEF Increasing
    <3> QED BY <1>1, <3>2, <3>3, <3>4
  <2> QED BY <1>1, <2>1, <2>2, <2>3
<1>7. r[n + 1] = ch[n] /\ ch[n] \in Nat
  BY <1>1, <1>2
<1>8. ASSUME NEW i \in 1..(n + 1) PROVE r[i] = ts \/ \E j \in 1..n : r[i] = ch[j]
  <2>1. CASE i < m
    <3>1. i \in 1..n /\ r[i] = ch[i]
      BY <1>1, <1>2, <2>1
    <3> QED BY <3>1
  <2>2. CASE i = m
    BY <1>2, <2>2
  <2>3. CASE i > m
    <3>1. i - 1 \in 1..n /\ r[i] = ch[i - 1]
      BY <1>1, <1>2, <2>3
    <3> QED BY <3>1
  <2> QED BY <1>1, <2>1, <2>2, <2>3
<1>9. r[n + 1] >= ch[n]
  BY <1>7
<1> QED BY <1>2, <1>5, <1>6, <1>8, <1>9 DEF Inserted, r

LEMMA InsertSound ==
  ASSUME NEW ch \in Seq(Nat), Len(ch) # 0, Increasing(ch), NEW ts \in Nat
  PROVE  Inserted(ch, ts, Insert(ch, ts))
<1> DEFINE n == Len(ch)
           S == {j \in 1..n : ch[j] >= ts}
           m == Min(S)
<1>1. n \in Nat \ {0} /\ n \in 1..n /\ 1 \in 1..n /\ \A i \in 1..n : ch[i] \in Nat
  BY LenProperties
<1>2. ch # <<>> /\ Last(ch) = ch[n] /\ Head(ch) = ch[1]
  BY <1>1 DEF Last
<1>3. CASE ts > ch[n]
  <2>1. Insert(ch, ts) = Append(ch, ts)
    BY <1>2, <1>3 DEF Insert
  <2> QED BY <1>3, <2>1, InsertAfterTail
<1>4. CASE ~(ts > ch[n]) /\ ts < ch[1]
  <2>1. Insert(ch, ts) = <<ts>> \o ch
    BY <1>2, <1>4 DEF Insert
  <2> QED BY <1>4, <2>1, InsertBeforeHead
<1>5. CASE ~(ts > ch[n]) /\ ~(ts < ch[1])
  <2>1. S \in SUBSET Nat /\ S # {}
    <3>1. n \in S
      BY <1>1, <1>5
    <3> QED BY <3>1
  <2>2. m \in S /\ \A j \in S : m <= j
    <3> HIDE DEF S
    <3> QED BY <2>1, MinNat
  <2>3. m \in 1..n /\ ch[m] >= ts
    BY <2>2
  <2>4. ASSUME NEW j \in 1..(m - 1) PROVE ch[j] < ts
    <3>1. j \in 1..n /\ ~(m <= j)
      BY <1>1, <2>3
    <3>2. j \notin S
      BY <2>2, <3>1
    <3>3. ~(ch[j] >= ts)
      BY <3>1, <3>2
    <3> QED BY <1>1, <3>1, <3>3
  <2>5. Insert(ch, ts) = IF ch[m] = ts THEN ch ELSE InsertAt(ch, m, ts)
    BY <1>2, <1>5 DEF Insert
  <2> HIDE DEF m, S
  <2>6. CASE ch[m] = ts
    <3>1. ts \in Range(ch)
      BY <2>3, <2>6, RangeIs
    <3>2. ch[n] >= ch[n]
      BY <1>1
    <3> QED BY <2>5, <2>6, <3>1, <3>2 DEF Inserted
  <2>7. CASE ch[m] # ts
    <3>1. ch[m] > ts
      BY <1>1, <2>3, <2>7
    <3> QED BY <2>3, <2>4, <2>5, <2>7, <3>1, InsertBetween
  <2> QED BY <2>6, <2>7
<1> QED BY <1>3, <1>4, <1>5

\* vaccum leaves the tail, ...
LEMMA DroppedSound ==
  ASSUME NEW ch \in Seq(Nat), Len(ch) # 0, NEW sz, NEW ts
  PROVE  Dropped(ch, sz, ts) \in 0..(Len(ch) - 1)
<1> DEFINE n == Len(ch)
           T == {x \in 0..(n - 1) : x < sz /\ \A i \in 2..(x + 1) : ch[i] <= ts} \cup {0}
<1>0. n \in Nat \ {0}
  BY LenProperties
<1>1. n - 1 \in Nat /\ T \in SUBSET (0..(n - 1)) /\ T # {}
  BY <1>0
<1>2. Max(T) \in 0..(n - 1)
  <2> HIDE DEF T
  <2>1. Max(T) \in T
    BY <1>1, MaxNat
  <2> QED BY <1>1, <2>1
<1> QED BY <1>2 DEF Dropped

\* ... and what it leaves is the end of the chain.
LEMMA SuffixSound ==
  ASSUME NEW ch \in Seq(Nat), Increasing(ch), NEW d \in 0..(Len(ch) - 1)
  PROVE  LET r == SubSeq(ch, d + 1, Len(ch)) IN
         /\ r \in Seq(Nat) /\ Len(r) = Len(ch) - d /\ Increasing(r)
         /\ r[Len(r)] = ch[Len(ch)]
         /\ \A i \in 1..Len(r) : \E j \in 1..Len(ch) : r[i] = ch[j]
<1> DEFINE r == SubSeq(ch, d + 1, Len(ch))
<1> DEFINE n == Len(ch)
<1>1. n \in Nat /\ \A i \in 1..n : ch[i] \in Nat
  BY LenProperties
<1>2. d + 1 \in 1..(n + 1) /\ d \in Nat /\ \A i \in (d + 1)..n : ch[i] \in Nat
  BY <1>1
<1>3. r \in Seq(Nat) /\ Len(r) = n - d /\ \A i \in 1..(n - d) : r[i] = ch[(d + 1) + i - 1]
  BY <1>1, <1>2, SubSeqProperties
<1> HIDE DEF r
<1>4. \A i \in 1..(n - d) : d + i \in 1..n /\ r[i] = ch[d + i]
  BY <1>1, <1>2, <1>3
<1>5. Increasing(r)
  <2> SUFFICES ASSUME NEW i \in 1..(n - d), NEW j \in 1..(n - d), i < j PROVE r[i] < r[j]
    BY <1>3 DEF Increasing
  <2>1. d + i < d + j
    BY <1>2
  <2> QED BY <1>4, <2>1 DEF Increasing
<1>6. r[n - d] = ch[n]
  <2>1. n - d \in 1..(n - d) /\ d + (n - d) = n
    BY <1>1, <1>2
  <2> QED BY <1>4, <2>1
<1> QED BY <1>3, <1>4, <1>5, <1>6 DEF r

-----------------------------------------------------------------------------
(***************************************************************************)
(* The chains: every timestamp under way or in a chain has been read off   *)
(* the clock.                                                              *)
(***************************************************************************)
PagesOf(q) == {SortedPages(q)[i] : i \in Nat}
AnyPage == UNION {PagesOf(q) : q \in Query \cup {<<>>}}
Message == [page : AnyPage, ts : Nat]

ChainTypes ==
    /\ clock \in Nat
    /\ query \in [Worker -> Query \cup {<<>>}]
    /\ pos \in [Worker -> Nat] /\ commit_t \in [Worker -> Nat]
    /\ m_queue \in [Queue -> Seq(Message)] /\ socket \in [Queue -> Seq(Message)]
    /\ chain \in [Page -> Seq(Nat)]
    /\ size = [p \in Page |-> size[p]]

PastMessages(s) == \A i \in 1..Len(s) : s[i].ts <= clock

Past ==
    /\ \A w \in Worker : commit_t[w] <= clock
    /\ \A q \in Queue : PastMessages(m_queue[q]) /\ PastMessages(socket[q])

ChainOf(p) ==
    /\ Len(chain[p]) # 0 /\ Increasing(chain[p]) /\ size[p] = Len(chain[p])
    /\ \A i \in 1..Len(chain[p]) : chain[p][i] <= clock

ChainInv == ChainTypes /\ Past /\ \A p \in Page : ChainOf(p)

\* A step keeps a chain sound and its tail no older.
Grows(p) == ChainOf(p)' /\ chain'[p][Len(chain'[p])] >= chain[p][Len(chain[p])]

LEMMA ChainInitially == Init => ChainInv
<1> SUFFICES ASSUME Init PROVE ChainInv
  OBVIOUS
<1> USE DEF Init, ChainInit, QueueInit, TransportInit
<1>1. /\ <<0>> \in Seq(Nat) /\ Len(<<0>>) = 1 /\ <<0>>[1] = 0
      /\ <<>> \in Seq(Message) /\ Len(<<>>) = 0
  OBVIOUS
<1>2. ChainTypes
  BY <1>1 DEF ChainTypes
<1>3. Past
  BY <1>1 DEF Past, PastMessages
<1>4. \A p \in Page : ChainOf(p)
  BY <1>1 DEF ChainOf, Increasing
<1> QED BY <1>2, <1>3, <1>4 DEF ChainInv

\* A step that leaves the chains alone keeps them, as time does not go back.
LEMMA ChainsStay ==
  ASSUME ChainInv, UNCHANGED <<chain, size>>, clock' \in Nat, clock' >= clock
  PROVE  \A p \in Page : Grows(p)
<1> SUFFICES ASSUME NEW p \in Page PROVE Grows(p)
  OBVIOUS
<1>1. chain[p] \in Seq(Nat) /\ clock \in Nat
  BY DEF ChainInv, ChainTypes
<1>2. Len(chain[p]) \in Nat /\ \A i \in 1..Len(chain[p]) : chain[p][i] \in Nat
  BY <1>1, LenProperties
<1>3. ChainOf(p)
  BY DEF ChainInv
<1>4. ChainOf(p)'
  BY <1>1, <1>2, <1>3 DEF ChainOf
<1>5. chain[p][Len(chain[p])] \in Nat
  BY <1>2, <1>3 DEF ChainOf
<1> QED BY <1>4, <1>5 DEF Grows

\* Messages that were of the past stay so.
LEMMA PastStays ==
  ASSUME NEW s \in Seq(Message), PastMessages(s), clock \in Nat, clock' \in Nat, clock' >= clock
  PROVE  \A i \in 1..Len(s) : s[i].ts <= clock'
<1>1. \A i \in 1..Len(s) : s[i].ts \in Nat
  <2>1. \A i \in 1..Len(s) : s[i] \in Message
    BY LenProperties
  <2> QED BY <2>1 DEF Message
<1> QED BY <1>1 DEF PastMessages

\* Taking and adding a message.
LEMMA AppendPast ==
  ASSUME NEW s \in Seq(Message), PastMessages(s), NEW x \in Message, x.ts <= clock
  PROVE  Append(s, x) \in Seq(Message) /\ PastMessages(Append(s, x))
<1>1. /\ Append(s, x) \in Seq(Message) /\ Len(Append(s, x)) = Len(s) + 1 /\ Len(s) \in Nat
      /\ Append(s, x)[Len(s) + 1] = x /\ \A i \in 1..Len(s) : Append(s, x)[i] = s[i]
  BY AppendProperties, LenProperties
<1>2. \A i \in 1..(Len(s) + 1) : i = Len(s) + 1 \/ i \in 1..Len(s)
  BY <1>1
<1> QED BY <1>1, <1>2 DEF PastMessages

LEMMA TailPast ==
  ASSUME NEW s \in Seq(Message), PastMessages(s), s # <<>>
  PROVE  /\ Head(s) \in Message /\ Head(s).ts <= clock
         /\ Tail(s) \in Seq(Message) /\ PastMessages(Tail(s))
<1>1. /\ Head(s) \in Message /\ Tail(s) \in Seq(Message) /\ Len(s) \in Nat \ {0}
      /\ Len(Tail(s)) = Len(s) - 1 /\ Head(s) = s[1]
      /\ \A k \in 1..(Len(s) - 1) : Tail(s)[k] = s[k + 1]
  BY TailElements
<1>2. 1 \in 1..Len(s) /\ \A k \in 1..(Len(s) - 1) : k + 1 \in 1..Len(s)
  BY <1>1
<1> QED BY <1>1, <1>2 DEF PastMessages

\* The read-write node: times are read off the clock, and hashes sent with them.
LEMMA WorkerChains ==
  ASSUME ChainInv, NEW w \in Worker, WorkerStep(w)
  PROVE  ChainTypes' /\ Past' /\ \A p \in Page : Grows(p)
<1> USE DEF ChainInv
<1>1. UNCHANGED <<chain, size, socket>>
  BY DEF WorkerStep, Commit, SkipPage, StampTail, CountCommit, SendHash, ResetBatch, EndSync, roVars
<1>2. /\ clock' \in Nat /\ clock' >= clock /\ clock \in Nat
      /\ clock' = clock \/ Commit(w)
  BY DEF WorkerStep, Commit, SkipPage, StampTail, CountCommit, SendHash, ResetBatch, EndSync, ChainTypes
<1>3. /\ query' \in [Worker -> Query \cup {<<>>}] /\ pos' \in [Worker -> Nat]
      /\ commit_t' \in [Worker -> Nat] /\ \A v \in Worker : commit_t'[v] <= clock'
  <2>1. /\ query \in [Worker -> Query \cup {<<>>}] /\ pos \in [Worker -> Nat]
        /\ commit_t \in [Worker -> Nat] /\ \A v \in Worker : commit_t[v] <= clock
    BY DEF ChainTypes, Past
  <2>2. CASE Commit(w)
    BY <1>2, <2>1, <2>2 DEF Commit
  <2>3. CASE SkipPage(w) \/ StampTail(w) \/ CountCommit(w) \/ SendHash(w) \/ ResetBatch(w)
    <3>1. UNCHANGED <<clock, query, commit_t>>
      BY <2>3 DEF SkipPage, StampTail, CountCommit, SendHash, ResetBatch
    <3>2. pos' = pos \/ pos' = [pos EXCEPT ![w] = @ + 1]
      BY <2>3 DEF SkipPage, StampTail, CountCommit, SendHash, ResetBatch
    <3> QED BY <2>1, <3>1, <3>2
  <2>4. CASE EndSync(w)
    BY <1>2, <2>1, <2>4 DEF EndSync
  <2> QED BY <2>2, <2>3, <2>4 DEF WorkerStep
<1>4. /\ m_queue' \in [Queue -> Seq(Message)]
      /\ \A q \in Queue : \A i \in 1..Len(m_queue'[q]) : m_queue'[q][i].ts <= clock'
  <2>0. /\ m_queue \in [Queue -> Seq(Message)]
        /\ \A q \in Queue : m_queue[q] \in Seq(Message) /\ PastMessages(m_queue[q])
    BY DEF ChainTypes, Past
  <2>1. CASE SendHash(w)
    <3>1. PICK q \in Queue : m_queue' = [m_queue EXCEPT ![q] =
                                           Append(@, [page |-> PageAt(w), ts |-> commit_t[w]])]
      BY <2>1 DEF SendHash
    <3> DEFINE x == [page |-> PageAt(w), ts |-> commit_t[w]]
    <3>2. x \in Message /\ x.ts <= clock
      <4>1. PageAt(w) \in AnyPage
        <5>1. query[w] \in Query \cup {<<>>} /\ pos[w] \in Nat
          BY DEF ChainTypes
        <5>2. PageAt(w) \in PagesOf(query[w])
          BY <5>1 DEF PageAt, PagesOf
        <5> QED BY <5>1, <5>2 DEF AnyPage
      <4>2. commit_t[w] \in Nat /\ commit_t[w] <= clock
        BY DEF ChainTypes, Past
      <4> QED BY <4>1, <4>2 DEF Message
    <3> HIDE DEF x
    <3>3. m_queue' = [m_queue EXCEPT ![q] = Append(m_queue[q], x)]
      BY <3>1 DEF x
    <3>4. Append(m_queue[q], x) \in Seq(Message) /\ PastMessages(Append(m_queue[q], x))
      BY <2>0, <3>2, AppendPast
    <3>5. clock' = clock
      BY <2>1 DEF SendHash
    <3>6. m_queue' \in [Queue -> Seq(Message)]
      BY <2>0, <3>3, <3>4
    <3>7. \A u \in Queue : PastMessages(m_queue'[u])
      BY <2>0, <3>3, <3>4
    <3> QED BY <3>5, <3>6, <3>7 DEF PastMessages
  <2>2. CASE ~SendHash(w)
    <3>1. m_queue' = m_queue
      BY <2>2 DEF WorkerStep, Commit, SkipPage, StampTail, CountCommit, ResetBatch, EndSync
    <3> QED BY <1>2, <2>0, <3>1, PastStays
  <2> QED BY <2>1, <2>2
<1>5. \A q \in Queue : socket[q] \in Seq(Message) /\ PastMessages(socket[q])
  BY DEF ChainTypes, Past
<1>6. \A q \in Queue : \A i \in 1..Len(socket'[q]) : socket'[q][i].ts <= clock'
  BY <1>1, <1>2, <1>5, PastStays
<1>7. ChainTypes'
  BY <1>1, <1>2, <1>3, <1>4 DEF ChainTypes
<1>8. Past'
  BY <1>3, <1>4, <1>6 DEF Past, PastMessages
<1>9. \A p \in Page : Grows(p)
  BY <1>1, <1>2, ChainsStay
<1> QED BY <1>7, <1>8, <1>9

LEMMA OutputChains ==
  ASSUME ChainInv, NEW q \in Queue, Output(q)
  PROVE  ChainTypes' /\ Past' /\ \A p \in Page : Grows(p)
<1> USE DEF ChainInv
<1>1. UNCHANGED <<clock, query, pos, commit_t, chain, size>>
  BY DEF Output, rwVars, roVars
<1>2. /\ m_queue[q] # <<>> /\ m_queue' = [m_queue EXCEPT ![q] = Tail(m_queue[q])]
      /\ socket' = [socket EXCEPT ![q] = Append(socket[q], Head(m_queue[q]))]
  BY DEF Output, dequeue, send_msg
<1>3. /\ m_queue \in [Queue -> Seq(Message)] /\ socket \in [Queue -> Seq(Message)]
      /\ \A u \in Queue : /\ m_queue[u] \in Seq(Message) /\ PastMessages(m_queue[u])
                          /\ socket[u] \in Seq(Message) /\ PastMessages(socket[u])
  BY DEF ChainTypes, Past
<1>4. /\ Head(m_queue[q]) \in Message /\ Head(m_queue[q]).ts <= clock
      /\ Tail(m_queue[q]) \in Seq(Message) /\ PastMessages(Tail(m_queue[q]))
  BY <1>2, <1>3, TailPast
<1>5. /\ Append(socket[q], Head(m_queue[q])) \in Seq(Message)
      /\ PastMessages(Append(socket[q], Head(m_queue[q])))
  BY <1>3, <1>4, AppendPast
<1>6. m_queue' \in [Queue -> Seq(Message)] /\ \A u \in Queue : PastMessages(m_queue'[u])
  BY <1>2, <1>3, <1>4
<1>7. socket' \in [Queue -> Seq(Message)] /\ \A u \in Queue : PastMessages(socket'[u])
  BY <1>2, <1>3, <1>5
<1>8. ChainTypes'
  BY <1>1, <1>6, <1>7 DEF ChainTypes
<1>9. Past'
  BY <1>1, <1>6, <1>7 DEF Past, PastMessages
<1>10. clock' \in Nat /\ clock' >= clock
  BY <1>1 DEF ChainTypes
<1> QED BY <1>1, <1>8, <1>9, <1>10, ChainsStay

\* The read-only node: a hash is inserted where it belongs.
LEMMA ReceiveChains ==
  ASSUME ChainInv, NEW q \in Queue, Receive(q)
  PROVE  ChainTypes' /\ Past' /\ \A p \in Page : Grows(p)
<1> USE DEF ChainInv
<1> DEFINE m == Head(socket[q])
<1>1. UNCHANGED <<clock, query, pos, commit_t, m_queue>>
  BY DEF Receive, rwVars
<1>2. /\ socket[q] # <<>> /\ socket' = [socket EXCEPT ![q] = Tail(socket[q])]
      /\ chain' = [chain EXCEPT ![m.page] = Insert(chain[m.page], m.ts)]
      /\ size' = [size EXCEPT ![m.page] = IF m.ts \in Range(chain[m.page]) THEN size[m.page] ELSE size[m.page] + 1]
  BY DEF Receive, recv_msg
<1>3. /\ socket \in [Queue -> Seq(Message)]
      /\ \A u \in Queue : socket[u] \in Seq(Message) /\ PastMessages(socket[u])
  BY DEF ChainTypes, Past
<1>4. /\ m \in Message /\ m.ts <= clock
      /\ Tail(socket[q]) \in Seq(Message) /\ PastMessages(Tail(socket[q]))
  BY <1>2, <1>3, TailPast
<1>5. m.ts \in Nat
  BY <1>4 DEF Message
<1>6. socket' \in [Queue -> Seq(Message)] /\ \A u \in Queue : PastMessages(socket'[u])
  BY <1>2, <1>3, <1>4
<1>7. clock \in Nat /\ chain \in [Page -> Seq(Nat)] /\ size = [p \in Page |-> size[p]]
  BY DEF ChainTypes
<1> HIDE DEF m
<1>8. ASSUME NEW p \in Page, p = m.page
      PROVE  /\ chain'[p] = Insert(chain[p], m.ts) /\ Inserted(chain[p], m.ts, chain'[p])
             /\ size'[p] = IF m.ts \in Range(chain[p]) THEN size[p] ELSE size[p] + 1
  <2>1. chain[p] \in Seq(Nat) /\ Len(chain[p]) # 0 /\ Increasing(chain[p])
    BY <1>7 DEF ChainOf
  <2>2. chain'[p] = Insert(chain[p], m.ts)
    BY <1>2, <1>7, <1>8
  <2>3. Inserted(chain[p], m.ts, Insert(chain[p], m.ts))
    BY <1>5, <2>1, InsertSound
  <2>4. size'[p] = IF m.ts \in Range(chain[p]) THEN size[p] ELSE size[p] + 1
    BY <1>2, <1>7, <1>8
  <2> QED BY <2>2, <2>3, <2>4
<1>9. \A p \in Page : p # m.page => chain'[p] = chain[p] /\ size'[p] = size[p]
  BY <1>2, <1>7
<1>10. chain' \in [Page -> Seq(Nat)] /\ size' = [p \in Page |-> size'[p]]
  <2>1. chain' = [p \in Page |-> chain'[p]] /\ size' = [p \in Page |-> size'[p]]
    BY <1>2, <1>7
  <2>2. \A p \in Page : chain'[p] \in Seq(Nat)
    BY <1>7, <1>8, <1>9 DEF Inserted
  <2> QED BY <2>1, <2>2
<1>11. ChainTypes'
  BY <1>1, <1>6, <1>10 DEF ChainTypes
<1>12. Past'
  BY <1>1, <1>6 DEF Past, PastMessages
<1>13. ASSUME NEW p \in Page PROVE Grows(p)
  <2>0. ChainOf(p) /\ chain[p] \in Seq(Nat)
    BY <1>7
  <2>1. Len(chain[p]) \in Nat \ {0} /\ \A i \in 1..Len(chain[p]) : chain[p][i] \in Nat
    BY <2>0, LenProperties DEF ChainOf
  <2>2. CASE p = m.page
    <3>1. Inserted(chain[p], m.ts, chain'[p])
      BY <1>8, <2>2
    <3>2. /\ Len(chain'[p]) = IF m.ts \in Range(chain[p]) THEN Len(chain[p]) ELSE Len(chain[p]) + 1
          /\ size'[p] = IF m.ts \in Range(chain[p]) THEN size[p] ELSE size[p] + 1
          /\ size[p] = Len(chain[p])
      BY <1>8, <2>0, <2>2, <3>1 DEF Inserted, ChainOf
    <3>3. size'[p] = Len(chain'[p]) /\ Len(chain'[p]) # 0
      BY <2>1, <3>2
    <3>4. \A i \in 1..Len(chain'[p]) : chain'[p][i] <= clock'
      BY <1>1, <1>4, <2>0, <3>1 DEF Inserted, ChainOf
    <3> QED BY <3>1, <3>3, <3>4 DEF Grows, ChainOf, Inserted
  <2>3. CASE p # m.page
    <3>1. chain'[p] = chain[p] /\ size'[p] = size[p]
      BY <1>9, <2>3
    <3>2. chain[p][Len(chain[p])] \in Nat
      BY <2>1
    <3> QED BY <1>1, <2>0, <3>1, <3>2 DEF Grows, ChainOf
  <2> QED BY <2>2, <2>3
<1> QED BY <1>11, <1>12, <1>13

\* vaccum drops from the head and never the tail.
LEMMA VaccumChains ==
  ASSUME ChainInv, NEW q \in Queue, Vaccum(q)
  PROVE  ChainTypes' /\ Past' /\ \A p \in Page : Grows(p)
<1> USE DEF ChainInv
<1> DEFINE l == LatchedPage(q)
           d == Dropped(chain[l], size[l], valid_ts[q])
<1>1. UNCHANGED <<clock, query, pos, commit_t, m_queue, socket>>
  BY DEF Vaccum, rwVars
<1>2. /\ chain' = [chain EXCEPT ![l] = SubSeq(chain[l], d + 1, Len(chain[l]))]
      /\ size' = [size EXCEPT ![l] = size[l] - d]
  BY DEF Vaccum
<1>3. clock \in Nat /\ chain \in [Page -> Seq(Nat)] /\ size = [p \in Page |-> size[p]]
  BY DEF ChainTypes
<1> HIDE DEF l, d
<1>4. ASSUME NEW p \in Page, p = l
      PROVE  /\ chain'[p] \in Seq(Nat) /\ Len(chain'[p]) = Len(chain[p]) - d /\ Increasing(chain'[p])
             /\ chain'[p][Len(chain'[p])] = chain[p][Len(chain[p])]
             /\ \A i \in 1..Len(chain'[p]) : \E j \in 1..Len(chain[p]) : chain'[p][i] = chain[p][j]
             /\ size'[p] = size[p] - d /\ d \in 0..(Len(chain[p]) - 1)
  <2>1. chain[p] \in Seq(Nat) /\ Len(chain[p]) # 0 /\ Increasing(chain[p])
    BY <1>3 DEF ChainOf
  <2>2. d \in 0..(Len(chain[p]) - 1)
    BY <1>4, <2>1, DroppedSound DEF d
  <2>3. chain'[p] = SubSeq(chain[p], d + 1, Len(chain[p])) /\ size'[p] = size[p] - d
    BY <1>2, <1>3, <1>4
  <2> DEFINE r == SubSeq(chain[p], d + 1, Len(chain[p]))
  <2>4. /\ r \in Seq(Nat) /\ Len(r) = Len(chain[p]) - d /\ Increasing(r)
        /\ r[Len(r)] = chain[p][Len(chain[p])]
        /\ \A i \in 1..Len(r) : \E j \in 1..Len(chain[p]) : r[i] = chain[p][j]
    BY <2>1, <2>2, SuffixSound
  <2> HIDE DEF r
  <2>5. chain'[p] = r
    BY <2>3 DEF r
  <2> QED BY <2>2, <2>3, <2>4, <2>5
<1>5. \A p \in Page : p # l => chain'[p] = chain[p] /\ size'[p] = size[p]
  BY <1>2, <1>3
<1>6. chain' \in [Page -> Seq(Nat)] /\ size' = [p \in Page |-> size'[p]]
  <2>1. chain' = [p \in Page |-> chain'[p]] /\ size' = [p \in Page |-> size'[p]]
    BY <1>2, <1>3
  <2>2. \A p \in Page : chain'[p] \in Seq(Nat)
    BY <1>3, <1>4, <1>5
  <2> QED BY <2>1, <2>2
<1>7. ChainTypes'
  BY <1>1, <1>6 DEF ChainTypes
<1>8. Past'
  BY <1>1 DEF Past, PastMessages
<1>9. ASSUME NEW p \in Page PROVE Grows(p)
  <2>0. ChainOf(p) /\ chain[p] \in Seq(Nat)
    BY <1>3
  <2>1. /\ Len(chain[p]) \in Nat \ {0} /\ \A i \in 1..Len(chain[p]) : chain[p][i] \in Nat
        /\ chain[p][Len(chain[p])] \in Nat
    <3>1. Len(chain[p]) \in Nat \ {0} /\ \A i \in 1..Len(chain[p]) : chain[p][i] \in Nat
      BY <2>0, LenProperties DEF ChainOf
    <3> QED BY <3>1
  <2>2. CASE p = l
    <3>1. /\ Len(chain'[p]) = Len(chain[p]) - d /\ d \in 0..(Len(chain[p]) - 1)
          /\ size'[p] = size[p] - d /\ size[p] = Len(chain[p])
      BY <1>4, <2>0, <2>2 DEF ChainOf
    <3>2. size'[p] = Len(chain'[p]) /\ Len(chain'[p]) # 0
      BY <2>1, <3>1
    <3>3. \A i \in 1..Len(chain'[p]) : chain'[p][i] <= clock'
      BY <1>1, <1>4, <2>0, <2>2 DEF ChainOf
    <3>4. chain'[p][Len(chain'[p])] >= chain[p][Len(chain[p])]
      BY <1>4, <2>1, <2>2
    <3> QED BY <1>4, <2>2, <3>2, <3>3, <3>4 DEF Grows, ChainOf
  <2>3. CASE p # l
    <3>1. chain'[p] = chain[p] /\ size'[p] = size[p]
      BY <1>5, <2>3
    <3> QED BY <1>1, <2>0, <2>1, <3>1 DEF Grows, ChainOf
  <2> QED BY <2>2, <2>3
<1> QED BY <1>7, <1>8, <1>9

LEMMA ChainNext ==
  ASSUME ChainInv, [Next]_vars
  PROVE  /\ ChainTypes' /\ Past' /\ \A p \in Page : Grows(p)
         /\ clock' \in Nat /\ clock' >= clock /\ clock \in Nat
<1>0. clock \in Nat
  BY DEF ChainInv, ChainTypes
<1>1. ASSUME NEW w \in Worker, WorkerStep(w)
      PROVE  ChainTypes' /\ Past' /\ (\A p \in Page : Grows(p)) /\ clock' \in Nat /\ clock' >= clock
  <2>1. clock' \in Nat /\ clock' >= clock
    BY <1>0, <1>1 DEF WorkerStep, Commit, SkipPage, StampTail, CountCommit, SendHash, ResetBatch, EndSync
  <2> QED BY <1>1, <2>1, WorkerChains
\* The steps that only move time on, or change the latches.
<1>2. ASSUME UNCHANGED <<query, pos, commit_t, m_queue, socket, chain, size>>, clock' \in Nat, clock' >= clock
      PROVE  ChainTypes' /\ Past' /\ \A p \in Page : Grows(p)
  <2>1. ChainTypes'
    BY <1>2 DEF ChainInv, ChainTypes
  <2>2. \A q \in Queue : /\ m_queue[q] \in Seq(Message) /\ PastMessages(m_queue[q])
                         /\ socket[q] \in Seq(Message) /\ PastMessages(socket[q])
    BY DEF ChainInv, ChainTypes, Past
  <2>3. \A q \in Queue : /\ \A i \in 1..Len(m_queue[q]) : m_queue[q][i].ts <= clock'
                         /\ \A i \in 1..Len(socket[q]) : socket[q][i].ts <= clock'
    BY <1>0, <1>2, <2>2, PastStays
  <2>4. \A w \in Worker : commit_t[w] <= clock'
    BY <1>0, <1>2 DEF ChainInv, ChainTypes, Past
  <2>5. Past'
    BY <1>2, <2>3, <2>4 DEF Past, PastMessages
  <2> QED BY <1>2, <2>1, <2>5, ChainsStay
<1>3. ASSUME NEW q \in Queue, Output(q) \/ InputStep(q)
      PROVE  ChainTypes' /\ Past' /\ (\A p \in Page : Grows(p)) /\ clock' = clock
  <2>1. CASE Output(q)
    BY <2>1, OutputChains DEF Output
  <2>2. CASE Receive(q)
    BY <2>2, ReceiveChains DEF Receive
  <2>3. CASE Vaccum(q)
    BY <2>3, VaccumChains DEF Vaccum
  <2>4. CASE CheckSize(q) \/ Release(q)
    <3>1. UNCHANGED <<clock, query, pos, commit_t, m_queue, socket, chain, size>>
      BY <2>4 DEF CheckSize, Release, rwVars
    <3> QED BY <1>0, <1>2, <3>1
  <2> QED BY <1>3, <2>1, <2>2, <2>3, <2>4 DEF InputStep
<1>4. ASSUME NEW r \in Reader, BeginTxn(r)
      PROVE  ChainTypes' /\ Past' /\ (\A p \in Page : Grows(p)) /\ clock' \in Nat /\ clock' >= clock
  <2>1. UNCHANGED <<query, pos, commit_t, m_queue, socket, chain, size>> /\ clock' = clock + 1
    BY <1>4 DEF BeginTxn, rwVars, roVars
  <2> QED BY <1>0, <1>2, <2>1
<1>5. ASSUME Quiescent \/ UNCHANGED vars
      PROVE  ChainTypes' /\ Past' /\ (\A p \in Page : Grows(p)) /\ clock' = clock
  <2>1. UNCHANGED <<clock, query, pos, commit_t, m_queue, socket, chain, size>>
    BY <1>5 DEF Quiescent, vars, rwVars, roVars
  <2> QED BY <1>0, <1>2, <2>1
<1> QED BY <1>0, <1>1, <1>3, <1>4, <1>5 DEF Next

LEMMA ChainStep == ChainInv /\ [Next]_vars => ChainInv'
<1> SUFFICES ASSUME ChainInv, [Next]_vars PROVE ChainInv'
  OBVIOUS
<1>1. ChainTypes' /\ Past' /\ \A p \in Page : Grows(p)
  BY ChainNext
<1> QED BY <1>1 DEF ChainInv, Grows

\* Whatever order the hashes arrive in, and whenever a vaccum comes between
\* them, a chain is sorted without repetition and its size is its length
\* (hash_chain::insert, vaccum, update_verify_hash).
THEOREM Chains == Spec => []ChainSound
<1>1. Init => ChainInv
  BY ChainInitially
<1>2. ChainInv => ChainSound
  BY DEF ChainInv, ChainSound, ChainOf, Increasing
<1> QED BY <1>1, <1>2, ChainStep, PTL DEF Spec

\* A lookup now is served the tail.
LEMMA ServedIsTail ==
  ASSUME NEW ch \in Seq(Nat), Len(ch) # 0, Increasing(ch), NEW c \in Nat,
         \A i \in 1..Len(ch) : ch[i] <= c
  PROVE  Get(ch, c) = ch[Len(ch)] /\ Get(ch, c) \in Nat
<1> DEFINE n == Len(ch)
           T == {v \in Range(ch) : v <= c}
<1>1. n \in Nat \ {0} /\ n \in 1..n /\ 1 \in 1..n /\ \A i \in 1..n : ch[i] \in Nat
  BY LenProperties
<1>2. ch # <<>> /\ Head(ch) = ch[1] /\ ~(c < ch[1])
  BY <1>1
<1>3. Get(ch, c) = Max(T)
  BY <1>2 DEF Get
<1>4. \A v : v \in T <=> \E i \in 1..n : ch[i] = v
  BY RangeIs
<1>5. \A v \in T : v <= ch[n]
  <2> TAKE v \in T
  <2>1. PICK i \in 1..n : ch[i] = v
    BY <1>4
  <2>2. i = n \/ i < n
    BY <1>1
  <2> QED BY <1>1, <2>1, <2>2 DEF Increasing
<1>6. T \in SUBSET (0..c) /\ T # {} /\ ch[n] \in T
  <2>1. \A v \in T : v \in 0..c
    BY <1>1, <1>4
  <2> QED BY <1>1, <1>4, <2>1
<1> HIDE DEF T
<1>7. Max(T) \in T /\ \A y \in T : y <= Max(T)
  BY <1>6, MaxNat
<1>8. Max(T) \in Nat /\ Max(T) <= ch[n] /\ ch[n] <= Max(T)
  <2>1. Max(T) \in 0..c /\ c \in Nat
    BY <1>6, <1>7
  <2> QED BY <1>5, <1>6, <1>7, <2>1
<1> QED BY <1>1, <1>3, <1>8

\* Neither a late hash nor a vaccum takes the newest version away from lookups.
THEOREM NeverOlder == Spec => ServedNeverOlder
<1>1. Init => ChainInv
  BY ChainInitially
<1>2. ChainInv /\ [Next]_vars => [\A p \in Page : Served(p)' >= Served(p)]_vars
  <2> SUFFICES ASSUME ChainInv, [Next]_vars, NEW p \in Page PROVE Served(p)' >= Served(p)
    OBVIOUS
  <2>1. /\ ChainTypes' /\ Grows(p) /\ clock' \in Nat /\ clock \in Nat
    BY ChainNext
  <2>2. chain[p] \in Seq(Nat) /\ ChainOf(p)
    BY DEF ChainInv, ChainTypes
  <2>3. chain'[p] \in Seq(Nat) /\ ChainOf(p)'
    BY <2>1 DEF ChainTypes, Grows
  <2>4. Served(p) = chain[p][Len(chain[p])] /\ Served(p) \in Nat
    BY <2>1, <2>2, ServedIsTail DEF Served, ChainOf
  <2>5. Served(p)' = chain'[p][Len(chain'[p])] /\ Served(p)' \in Nat
    BY <2>1, <2>3, ServedIsTail DEF Served, ChainOf
  <2> QED BY <2>1, <2>4, <2>5 DEF Grows
<1> QED BY <1>1, <1>2, ChainStep, PTL DEF Spec, ServedNeverOlder

=============================================================================
