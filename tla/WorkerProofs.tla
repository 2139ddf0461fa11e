---------------------------- MODULE WorkerProofs ----------------------------
(***************************************************************************)
(* Proofs about Worker and the partition locks it uses, for any threads,   *)
(* partitions and choice of partitions, any buffer, batch and bounds.      *)
(***************************************************************************)
EXTENDS Worker, SeqLemmas

-----------------------------------------------------------------------------
(***************************************************************************)
(* The inductive invariant.                                                *)
(***************************************************************************)
Busy == {"ts", "lock", "back", "abort", "wait", "run", "unlock", "commit"}
PartList == {s \in Seq(Part) : s # <<>> /\ IsInjective(s)}
Entry == [query : Nat, ready : BOOLEAN]

TypeInv ==
    /\ owner \in [Part -> Thread \cup {NoOwner}] /\ waiters \in [Part -> Seq(Thread)]
    /\ ready \in [Thread -> Int]
    /\ ts \in [Thread -> Nat] /\ curr_ts \in [Thread -> Nat] /\ timestamp \in Nat \ {0}
    /\ pc \in [Thread -> Busy \cup {"gen", "finished"}]
    /\ k \in [Thread -> Nat] /\ fail \in [Thread -> Nat]
    /\ q_idx \in [Thread -> Nat] /\ txn_cnt \in [Thread -> Nat]
    /\ parts \in [Thread -> Seq(PartList)]
    /\ m_query \in [Thread -> Nat \cup {Nil}]
    /\ buffer \in [Thread -> [1..BufferSize -> Entry \cup {Nil}]]
    /\ slots \in [Thread -> Int] /\ sim_done \in BOOLEAN

\* A query that runs or waits in the buffer has been taken from the array, and a
\* loop over the partitions stays inside them.
QueryOf(t) ==
    /\ Len(parts[t]) = q_idx[t]
    /\ pc[t] \in Busy => m_query[t] \in 1..q_idx[t]
    /\ pc[t] = "gen" => m_query[t] = Nil
    /\ \A i \in 1..BufferSize : buffer[t][i] # Nil => buffer[t][i].query \in 1..q_idx[t]
    /\ pc[t] \in {"lock", "unlock"} => k[t] \in 1..Len(PartsOf(t))
    /\ pc[t] = "back" => k[t] \in 1..fail[t] /\ fail[t] \in 1..Len(PartsOf(t))
QueryInv == \A t \in Thread : QueryOf(t)

\* The free slots of a thread are counted right, a query that runs has one in
\* reserve, and a thread that has done its share takes no other query.
Kept(t) == {i \in 1..BufferSize : buffer[t][i] # Nil}
SlotOf(t) ==
    /\ q_idx[t] = txn_cnt[t] + Cardinality(Kept(t)) + (IF m_query[t] = Nil THEN 0 ELSE 1)
    /\ slots[t] = BufferSize - Cardinality(Kept(t))
    /\ pc[t] \in Busy \/ m_query[t] # Nil => slots[t] > 0
    /\ txn_cnt[t] <= MaxTxn
    /\ pc[t] # "finished" => txn_cnt[t] < MaxTxn
SlotInv == Buffered => \A t \in Thread : SlotOf(t)

\* The rest of a thread's batch of timestamps: what it draws before its counter
\* comes to a multiple of the batch size.
LeftFrom(c) == {v \in Nat : v >= c /\ \A x \in c..v : x % BatchNum # 0}
Left(t) == LeftFrom(curr_ts[t])

\* Timestamps are unique, and so are those that threads have still in reserve.
TsInv ==
    /\ \A t \in Thread : ts[t] < timestamp
    /\ \A t, u \in Thread : t # u /\ ts[t] # 0 => ts[t] # ts[u]
    /\ \A t \in Thread : pc[t] \in Busy \ {"ts"} => ts[t] # 0
    /\ BatchAlloc =>
          /\ (timestamp - 1) % BatchNum = 0
          /\ \A t \in Thread : \A v \in Left(t) :
                v < timestamp /\ \A u \in Thread : ts[u] # v /\ (u # t => v \notin Left(u))

\* The partitions whose lock loop has asked for and whose unlock loop has not
\* given back.
Claims(t, p) ==
    /\ pc[t] \in {"lock", "back", "wait", "run", "unlock"}
    /\ \E i \in 1..Len(PartsOf(t)) :
          /\ PartsOf(t)[i] = p
          /\ pc[t] = "lock" => i < k[t]
          /\ pc[t] = "back" => k[t] <= i /\ i < fail[t]
          /\ pc[t] = "unlock" => k[t] <= i

Holds(t, p) == owner[p] = t \/ Contains(waiters[p], t)
ClaimInv == \A t \in Thread, p \in Part : Holds(t, p) <=> Claims(t, p)

\* The waiters of a partition are younger than its owner, each than the one before.
OrderInv ==
    \A p \in Part : \A i \in 1..Len(waiters[p]) :
        /\ owner[p] # NoOwner /\ ts[owner[p]] < ts[waiters[p][i]]
        /\ \A j \in 1..(i - 1) : ts[waiters[p][j]] < ts[waiters[p][i]]

Queues(t) == {p \in Part : Contains(waiters[p], t)}
ReadyInv == \A t \in Thread : ready[t] = Cardinality(Queues(t))
RunInv == \A t \in Thread : pc[t] \in {"run", "unlock"} => Queues(t) = {}

LockInv == OrderInv /\ ReadyInv /\ ClaimInv /\ RunInv
WorkerInv == TypeInv /\ QueryInv /\ SlotInv /\ TsInv /\ LockInv

-----------------------------------------------------------------------------
(***************************************************************************)
(* Types.                                                                  *)
(***************************************************************************)
LEMMA InitTypes == Init => TypeInv /\ QueryInv
<1> SUFFICES ASSUME Init PROVE TypeInv /\ QueryInv
  OBVIOUS
<1> USE WorkerAssumption DEF Init, PartInit
<1>0. <<>> \in Seq(Thread) /\ <<>> \in Seq(PartList) /\ Len(<<>>) = 0
  OBVIOUS
<1>1. waiters \in [Part -> Seq(Thread)] /\ parts \in [Thread -> Seq(PartList)]
  BY <1>0
<1>2. buffer \in [Thread -> [1..BufferSize -> Entry \cup {Nil}]]
  OBVIOUS
<1>3. TypeInv
  <2>1. pc \in [Thread -> Busy \cup {"gen", "finished"}] /\ m_query \in [Thread -> Nat \cup {Nil}]
    OBVIOUS
  <2>2. /\ owner \in [Part -> Thread \cup {NoOwner}] /\ ready \in [Thread -> Int]
        /\ ts \in [Thread -> Nat] /\ curr_ts \in [Thread -> Nat] /\ timestamp \in Nat \ {0}
    OBVIOUS
  <2>3. /\ k \in [Thread -> Nat] /\ fail \in [Thread -> Nat]
        /\ q_idx \in [Thread -> Nat] /\ txn_cnt \in [Thread -> Nat]
        /\ slots \in [Thread -> Int]
    OBVIOUS
  <2>4. sim_done \in BOOLEAN
    BY Zenon
  <2> HIDE DEF Init, PartInit
  <2> QED BY <1>1, <1>2, <2>1, <2>2, <2>3, <2>4 DEF TypeInv
<1>4. QueryInv
  BY DEF QueryInv, QueryOf, Busy
<1> QED BY <1>3, <1>4

\* The partitions of the query a thread runs.
LEMMA PartsOfType ==
  ASSUME TypeInv, QueryInv, NEW t \in Thread, pc[t] \in Busy
  PROVE  /\ PartsOf(t) \in Seq(Part) /\ Len(PartsOf(t)) \in Nat \ {0}
         /\ \A i \in 1..Len(PartsOf(t)) : PartsOf(t)[i] \in Part
         /\ \A i, j \in 1..Len(PartsOf(t)) : PartsOf(t)[i] = PartsOf(t)[j] => i = j
<1>1. parts[t] \in Seq(PartList) /\ m_query[t] \in 1..Len(parts[t])
  BY DEF TypeInv, QueryInv, QueryOf
<1>2. PartsOf(t) \in PartList
  BY <1>1, ElementOfSeq DEF PartsOf
<1>3. PartsOf(t) \in Seq(Part) /\ PartsOf(t) # <<>> /\ IsInjective(PartsOf(t))
  BY <1>2 DEF PartList
<1>4. /\ Len(PartsOf(t)) \in Nat /\ DOMAIN PartsOf(t) = 1..Len(PartsOf(t))
      /\ \A i \in 1..Len(PartsOf(t)) : PartsOf(t)[i] \in Part
  BY <1>3, LenProperties
<1>5. Len(PartsOf(t)) # 0
  BY <1>3, EmptySeq
<1> QED BY <1>3, <1>4, <1>5 DEF IsInjective

\* get_next_ts draws a number, and the Manager's counter does not become 0.
LEMMA NextTsType ==
  ASSUME TypeInv, NEW t \in Thread
  PROVE  /\ NextTs(t).curr \in Nat /\ NextTs(t).ts \in Nat /\ NextTs(t).next \in Nat \ {0}
         /\ NextTs(t).next >= timestamp
  BY WorkerAssumption DEF TypeInv, NextTs, BatchTs

\* The lock manager keeps its owners threads, its waiters sequences of them.
LEMMA InsertType ==
  ASSUME TypeInv, NEW t \in Thread, NEW p \in Part, Queued(t, p)
  PROVE  waiters' \in [Part -> Seq(Thread)] /\ ready' \in [Thread -> Int]
<1>1. PICK i \in 1..(Len(waiters[p]) + 1) : waiters' = [waiters EXCEPT ![p] = InsertAt(@, i, t)]
  BY DEF Queued
<1>2. waiters[p] \in Seq(Thread)
  BY DEF TypeInv
<1>3. InsertAt(waiters[p], i, t) \in Seq(Thread)
  BY <1>2, InsertAtProperties
<1>4. ready' = [ready EXCEPT ![t] = @ + 1] /\ ready \in [Thread -> Int]
  BY DEF Queued, TypeInv
<1>5. waiters' \in [Part -> Seq(Thread)]
  BY <1>1, <1>3 DEF TypeInv
<1> QED BY <1>4, <1>5

LEMMA UnlockType ==
  ASSUME TypeInv, NEW t \in Thread, NEW p \in Part, Unlock(t, p)
  PROVE  /\ owner' \in [Part -> Thread \cup {NoOwner}] /\ waiters' \in [Part -> Seq(Thread)]
         /\ ready' \in [Thread -> Int]
<1>0. /\ owner \in [Part -> Thread \cup {NoOwner}] /\ waiters \in [Part -> Seq(Thread)]
      /\ ready \in [Thread -> Int] /\ waiters[p] \in Seq(Thread)
  BY DEF TypeInv
<1>1. CASE owner[p] = t /\ waiters[p] = <<>>
  BY <1>0, <1>1 DEF Unlock
<1>2. CASE owner[p] = t /\ waiters[p] # <<>>
  <2>1. Head(waiters[p]) \in Thread /\ Tail(waiters[p]) \in Seq(Thread)
    BY <1>0, <1>2, HeadTailProperties
  <2>2. /\ owner' = [owner EXCEPT ![p] = Head(waiters[p])]
        /\ waiters' = [waiters EXCEPT ![p] = Tail(@)]
        /\ ready' = [ready EXCEPT ![Head(waiters[p])] = @ - 1]
    BY <1>2 DEF Unlock
  <2>3. waiters' \in [Part -> Seq(Thread)]
    BY <1>0, <2>1, <2>2
  <2>4. ready' \in [Thread -> Int]
    BY <1>0, <2>1, <2>2
  <2> QED BY <1>0, <2>1, <2>2, <2>3, <2>4
<1>3. CASE owner[p] # t
  <2>1. PICK i \in DOMAIN waiters[p] : waiters' = [waiters EXCEPT ![p] = RemoveAt(@, i)]
    BY <1>3 DEF Unlock
  <2>2. i \in 1..Len(waiters[p])
    BY <1>0, LenProperties
  <2>3. RemoveAt(waiters[p], i) \in Seq(Thread)
    BY <1>0, <2>2, RemoveAtProperties
  <2>4. waiters' \in [Part -> Seq(Thread)]
    BY <1>0, <2>1, <2>3
  <2>5. ready' = [ready EXCEPT ![t] = @ - 1] /\ owner' = owner
    BY <1>3 DEF Unlock
  <2> QED BY <1>0, <2>4, <2>5
<1> QED BY <1>1, <1>2, <1>3

\* Nil is neither a query nor an entry of the buffer.
LEMMA NilIsNone == Nil \notin Nat /\ Nil \notin Entry
  BY WorkerAssumption DEF Entry

\* A new query goes to the end of the array; the ones before stay where they are.
LEMMA TakeNewType ==
  ASSUME TypeInv, QueryInv, NEW t \in Thread, TakeNew(t)
  PROVE  /\ parts' \in [Thread -> Seq(PartList)] /\ q_idx' \in [Thread -> Nat]
         /\ Len(parts'[t]) = q_idx'[t] /\ q_idx'[t] = q_idx[t] + 1
         /\ m_query' = [m_query EXCEPT ![t] = q_idx[t] + 1]
<1>1. PICK s \in Parts[t] : parts' = [parts EXCEPT ![t] = Append(@, s)]
  BY DEF TakeNew
<1>2. s \in PartList
  BY WorkerAssumption DEF PartList
<1>3. parts[t] \in Seq(PartList) /\ Len(parts[t]) = q_idx[t]
  BY DEF TypeInv, QueryInv, QueryOf
<1>4. Append(parts[t], s) \in Seq(PartList) /\ Len(Append(parts[t], s)) = q_idx[t] + 1
  BY <1>2, <1>3, AppendProperties
<1>5. q_idx' = [q_idx EXCEPT ![t] = @ + 1] /\ m_query' = [m_query EXCEPT ![t] = q_idx[t] + 1]
  BY DEF TakeNew
<1> QED BY <1>1, <1>4, <1>5 DEF TypeInv

LEMMA TakeAbortedType ==
  ASSUME TypeInv, QueryInv, NEW t \in Thread, TakeAborted(t)
  PROVE  /\ FirstReady(t) \in 1..BufferSize /\ buffer[t][FirstReady(t)] \in Entry
         /\ buffer[t][FirstReady(t)] # Nil
         /\ buffer[t][FirstReady(t)].query \in 1..q_idx[t]
<1> DEFINE R == ReadySlots(t)
<1>1. R \in SUBSET Nat /\ R # {}
  BY DEF ReadySlots, TakeAborted
<1>2. Min(R) \in R /\ \A j \in R : Min(R) <= j
  <2> HIDE DEF R
  <2> QED BY <1>1, MinNat
<1>3. \E i \in R : \A j \in R : i <= j
  BY <1>2
<1>4. FirstReady(t) \in R
  BY <1>3 DEF FirstReady
<1>5. FirstReady(t) \in 1..BufferSize /\ buffer[t][FirstReady(t)] # Nil
  BY <1>4 DEF ReadySlots
<1>6. buffer[t][FirstReady(t)] \in Entry \cup {Nil}
  BY <1>5 DEF TypeInv
<1> QED BY <1>5, <1>6 DEF QueryInv, QueryOf

\* The slot an aborted query goes to exists and is free, if there is any.
LEMMA FreeSlotType ==
  ASSUME TypeInv, NEW t \in Thread, \E i \in 1..BufferSize : buffer[t][i] = Nil
  PROVE  FreeSlot(t) \in 1..BufferSize /\ buffer[t][FreeSlot(t)] = Nil
<1> DEFINE F == {i \in 1..BufferSize : buffer[t][i] = Nil}
<1>1. F \in SUBSET Nat /\ F # {}
  OBVIOUS
<1>2. Min(F) \in F /\ \A j \in F : Min(F) <= j
  <2> HIDE DEF F
  <2> QED BY <1>1, MinNat
<1>3. ASSUME NEW j \in 1..Min(F) - 1 PROVE buffer[t][j] # Nil
  <2>1. j \in 1..BufferSize /\ ~(Min(F) <= j)
    BY <1>2, WorkerAssumption
  <2> QED BY <1>2, <2>1
<1>4. \E i \in 1..BufferSize : buffer[t][i] = Nil /\ \A j \in 1..i - 1 : buffer[t][j] # Nil
  BY <1>2, <1>3
<1> QED BY <1>4 DEF FreeSlot

-----------------------------------------------------------------------------
(***************************************************************************)
(* What a step leaves alone.                                               *)
(***************************************************************************)
Same(u) ==
    /\ pc'[u] = pc[u] /\ k'[u] = k[u] /\ fail'[u] = fail[u] /\ q_idx'[u] = q_idx[u]
    /\ parts'[u] = parts[u] /\ m_query'[u] = m_query[u] /\ buffer'[u] = buffer[u]
    /\ slots'[u] = slots[u] /\ txn_cnt'[u] = txn_cnt[u]
    /\ ts'[u] = ts[u] /\ curr_ts'[u] = curr_ts[u]

\* A thread's step changes no other thread's query, loop, buffer or timestamps.
LEMMA StepIsLocal ==
  ASSUME TypeInv, NEW t \in Thread, Step(t) \/ Elapse(t), NEW u \in Thread, u # t
  PROVE  Same(u)
<1> USE DEF TypeInv, Same, Goto, loopVars, tsVars, partVars
<1>1. CASE GenerateTxn(t)
  BY <1>1 DEF GenerateTxn, TakeNew, TakeAborted
<1>2. CASE GetNextTs(t)
  BY <1>2 DEF GetNextTs
<1>3. CASE LockPart(t)
  BY <1>3 DEF LockPart
<1>4. CASE UnlockBack(t)
  BY <1>4 DEF UnlockBack
<1>5. CASE WaitReady(t) \/ RunTxn(t)
  BY <1>5 DEF WaitReady, RunTxn
<1>6. CASE UnlockPart(t)
  BY <1>6 DEF UnlockPart
<1>7. CASE AbortTxn(t)
  BY <1>7 DEF AbortTxn
<1>8. CASE CommitTxn(t)
  BY <1>8 DEF CommitTxn
<1>9. CASE Elapse(t)
  BY <1>9 DEF Elapse
<1>10. CASE ErrorTxn(t)
  BY <1>10 DEF ErrorTxn
<1> QED BY <1>1, <1>2, <1>3, <1>4, <1>5, <1>6, <1>7, <1>8, <1>9, <1>10 DEF Step

LEMMA SameQuery ==
  ASSUME NEW u \in Thread, Same(u)
  PROVE  /\ PartsOf(u)' = PartsOf(u) /\ Kept(u)' = Kept(u)
         /\ QueryOf(u) => QueryOf(u)'
         /\ SlotOf(u) => SlotOf(u)'
  BY DEF Same, QueryOf, PartsOf, SlotOf, Kept

-----------------------------------------------------------------------------
(***************************************************************************)
(* The types, and the query a thread runs, step by step.                   *)
(***************************************************************************)
\* A step keeps QueryInv if it keeps it for its own thread.
LEMMA QueryByThread ==
  ASSUME TypeInv, QueryInv, NEW t \in Thread, Step(t) \/ Elapse(t), QueryOf(t)'
  PROVE  QueryInv'
<1>1. ASSUME NEW u \in Thread, u # t PROVE QueryOf(u)'
  BY <1>1, StepIsLocal, SameQuery DEF QueryInv
<1> QED BY <1>1 DEF QueryInv

LEMMA GenerateTypes ==
  ASSUME TypeInv, QueryInv, NEW t \in Thread, GenerateTxn(t)
  PROVE  TypeInv' /\ QueryInv'
<1>0. /\ UNCHANGED <<owner, waiters, ready, ts, curr_ts, timestamp, txn_cnt, sim_done, k, fail>>
      /\ pc' = [pc EXCEPT ![t] = "ts"] /\ pc[t] = "gen"
  BY DEF GenerateTxn, Goto, partVars, tsVars
<1>1. pc' \in [Thread -> Busy \cup {"gen", "finished"}] /\ pc'[t] = "ts"
  BY <1>0 DEF TypeInv, Busy
<1>2. CASE TakeNew(t)
  <2>1. /\ parts' \in [Thread -> Seq(PartList)] /\ q_idx' \in [Thread -> Nat]
        /\ Len(parts'[t]) = q_idx'[t] /\ q_idx'[t] = q_idx[t] + 1
        /\ m_query' = [m_query EXCEPT ![t] = q_idx[t] + 1]
    BY <1>2, TakeNewType
  <2>2. UNCHANGED <<buffer, slots>> /\ q_idx[t] \in Nat
    BY <1>2 DEF TakeNew, TypeInv
  <2>3. m_query' \in [Thread -> Nat \cup {Nil}] /\ m_query'[t] = q_idx[t] + 1
    BY <2>1, <2>2 DEF TypeInv
  <2>4. TypeInv'
    BY <1>0, <1>1, <2>1, <2>2, <2>3 DEF TypeInv
  <2>5. QueryOf(t)'
    BY <1>1, <2>1, <2>2, <2>3 DEF QueryInv, QueryOf, Busy
  <2> QED BY <2>4, <2>5, QueryByThread DEF Step
<1>3. CASE TakeAborted(t)
  <2> DEFINE f == FirstReady(t)
  <2>1. f \in 1..BufferSize /\ buffer[t][f].query \in 1..q_idx[t]
    BY <1>3, TakeAbortedType
  <2>2. /\ m_query' = [m_query EXCEPT ![t] = buffer[t][f].query]
        /\ buffer' = [buffer EXCEPT ![t][f] = Nil]
        /\ slots' = [slots EXCEPT ![t] = @ + 1] /\ UNCHANGED <<q_idx, parts>>
    BY <1>3 DEF TakeAborted
  <2> HIDE DEF f
  <2>3. m_query' \in [Thread -> Nat \cup {Nil}] /\ m_query'[t] = buffer[t][f].query
    BY <2>1, <2>2 DEF TypeInv
  <2>4. /\ buffer' \in [Thread -> [1..BufferSize -> Entry \cup {Nil}]]
        /\ buffer'[t] = [buffer[t] EXCEPT ![f] = Nil]
    BY <2>1, <2>2 DEF TypeInv
  <2>5. slots' \in [Thread -> Int]
    BY <2>2 DEF TypeInv
  <2>6. TypeInv'
    BY <1>0, <1>1, <2>2, <2>3, <2>4, <2>5 DEF TypeInv
  <2>7. QueryOf(t)'
    <3>1. buffer[t] \in [1..BufferSize -> Entry \cup {Nil}]
      BY DEF TypeInv
    <3>2. \A i \in 1..BufferSize : buffer'[t][i] # Nil => buffer'[t][i] = buffer[t][i]
      BY <2>4, <3>1
    <3> QED BY <1>1, <2>1, <2>2, <2>3, <3>2 DEF QueryInv, QueryOf, Busy
  <2> QED BY <2>6, <2>7, QueryByThread DEF Step
<1> QED BY <1>2, <1>3 DEF GenerateTxn

LEMMA TsTypes ==
  ASSUME TypeInv, QueryInv, NEW t \in Thread, GetNextTs(t)
  PROVE  TypeInv' /\ QueryInv'
<1>0. /\ UNCHANGED <<owner, waiters, ready, txn_cnt, sim_done, fail, q_idx, parts, m_query, buffer, slots>>
      /\ pc' = [pc EXCEPT ![t] = "lock"] /\ k' = [k EXCEPT ![t] = 1]
      /\ curr_ts' = [curr_ts EXCEPT ![t] = NextTs(t).curr]
      /\ ts' = [ts EXCEPT ![t] = NextTs(t).ts] /\ timestamp' = NextTs(t).next /\ pc[t] = "ts"
  BY DEF GetNextTs, Goto, partVars, loopVars
<1>1. NextTs(t).curr \in Nat /\ NextTs(t).ts \in Nat /\ NextTs(t).next \in Nat \ {0}
  BY NextTsType
<1>2. pc' \in [Thread -> Busy \cup {"gen", "finished"}] /\ pc'[t] = "lock"
  BY <1>0 DEF TypeInv, Busy
<1>3. k' \in [Thread -> Nat] /\ k'[t] = 1
  BY <1>0 DEF TypeInv
<1>4. TypeInv'
  BY <1>0, <1>1, <1>2, <1>3 DEF TypeInv
<1>5. QueryOf(t)'
  <2>1. Len(PartsOf(t)) \in Nat \ {0}
    BY <1>0, PartsOfType DEF Busy
  <2> QED BY <1>0, <1>2, <1>3, <2>1 DEF QueryInv, QueryOf, Busy, PartsOf
<1> QED BY <1>4, <1>5, QueryByThread DEF Step

LEMMA LockTypes ==
  ASSUME TypeInv, QueryInv, NEW t \in Thread, LockPart(t)
  PROVE  TypeInv' /\ QueryInv'
<1> DEFINE p == PartsOf(t)[k[t]]
           n == Len(PartsOf(t))
<1>0. UNCHANGED <<ts, curr_ts, timestamp, q_idx, parts, m_query, buffer, slots, txn_cnt, sim_done>> /\ pc[t] = "lock"
  BY DEF LockPart, loopVars, tsVars
<1>1. k[t] \in 1..n /\ p \in Part /\ n \in Nat \ {0} /\ PartsOf(t)' = PartsOf(t)
  BY <1>0, PartsOfType DEF QueryInv, QueryOf, Busy, PartsOf
<1>2. \/ (Granted(t, p) \/ Queued(t, p)) /\ k' = [k EXCEPT ![t] = @ + 1] /\ UNCHANGED fail
         /\ pc' = [pc EXCEPT ![t] = IF k[t] = n THEN "wait" ELSE "lock"]
      \/ Refused(t, p) /\ pc' = [pc EXCEPT ![t] = "back"] /\ fail' = [fail EXCEPT ![t] = k[t]]
         /\ k' = [k EXCEPT ![t] = 1]
  BY DEF LockPart, Goto
<1> HIDE DEF p, n
<1>3. owner' \in [Part -> Thread \cup {NoOwner}] /\ waiters' \in [Part -> Seq(Thread)] /\ ready' \in [Thread -> Int]
  <2>1. CASE Granted(t, p)
    BY <1>1, <2>1 DEF Granted, TypeInv
  <2>2. CASE Queued(t, p)
    <3>1. UNCHANGED owner
      BY <2>2 DEF Queued
    <3> QED BY <1>1, <2>2, <3>1, InsertType DEF TypeInv
  <2>3. CASE Refused(t, p)
    BY <2>3 DEF Refused, partVars, TypeInv
  <2> QED BY <1>2, <2>1, <2>2, <2>3
<1>4. pc' \in [Thread -> Busy \cup {"gen", "finished"}] /\ pc'[t] \in {"wait", "lock", "back"}
  BY <1>2 DEF TypeInv, Busy
<1>5. k' \in [Thread -> Nat] /\ fail' \in [Thread -> Nat]
  <2>1. k \in [Thread -> Nat] /\ fail \in [Thread -> Nat]
    BY DEF TypeInv
  <2> QED BY <1>1, <1>2, <2>1
<1>6. TypeInv'
  BY <1>0, <1>3, <1>4, <1>5 DEF TypeInv
<1>7. /\ pc'[t] = "lock" => k'[t] \in 1..n
      /\ pc'[t] = "back" => k'[t] \in 1..fail'[t] /\ fail'[t] \in 1..n
  <2>1. k \in [Thread -> Nat] /\ fail \in [Thread -> Nat] /\ t \in DOMAIN pc
    BY DEF TypeInv
  <2> QED BY <1>1, <1>2, <2>1
<1>8. QueryOf(t)'
  BY <1>0, <1>1, <1>4, <1>7 DEF QueryInv, QueryOf, Busy, n
<1> QED BY <1>6, <1>8, QueryByThread DEF Step

LEMMA UnlockTypes ==
  ASSUME TypeInv, QueryInv, NEW t \in Thread, UnlockBack(t) \/ UnlockPart(t)
  PROVE  TypeInv' /\ QueryInv'
<1> DEFINE p == PartsOf(t)[k[t]]
           n == Len(PartsOf(t))
<1>0. /\ UNCHANGED <<ts, curr_ts, timestamp, q_idx, parts, m_query, buffer, slots, txn_cnt, sim_done, fail>>
      /\ pc[t] \in {"back", "unlock"}
  BY DEF UnlockBack, UnlockPart, loopVars, tsVars
<1>1. k[t] \in 1..n /\ p \in Part /\ n \in Nat \ {0} /\ PartsOf(t)' = PartsOf(t)
  <2>1. QueryOf(t) /\ n \in Nat \ {0} /\ (\A i \in 1..n : PartsOf(t)[i] \in Part)
    BY <1>0, PartsOfType DEF Busy, QueryInv
  <2>2. k[t] \in 1..n
    BY <1>0, <2>1 DEF QueryOf
  <2> QED BY <1>0, <2>1, <2>2 DEF PartsOf
<1>2. \/ Unlock(t, p) /\ k' = [k EXCEPT ![t] = @ + 1] /\ pc' = pc /\ pc[t] = "back" /\ k[t] < fail[t]
      \/ UNCHANGED <<owner, waiters, ready, k>> /\ pc' = [pc EXCEPT ![t] = "abort"]
      \/ Unlock(t, p) /\ k' = [k EXCEPT ![t] = @ + 1] /\ pc[t] = "unlock"
         /\ pc' = [pc EXCEPT ![t] = IF k[t] = n THEN "commit" ELSE "unlock"]
  BY DEF UnlockBack, UnlockPart, Goto, partVars
<1> HIDE DEF p, n
<1>3. owner' \in [Part -> Thread \cup {NoOwner}] /\ waiters' \in [Part -> Seq(Thread)] /\ ready' \in [Thread -> Int]
  <2>1. CASE Unlock(t, p)
    BY <1>1, <2>1, UnlockType
  <2>2. CASE UNCHANGED <<owner, waiters, ready>>
    BY <2>2 DEF TypeInv
  <2> QED BY <1>2, <2>1, <2>2
<1>4. /\ pc' \in [Thread -> Busy \cup {"gen", "finished"}]
      /\ pc'[t] \in {"back", "abort", "unlock", "commit"}
  BY <1>0, <1>2 DEF TypeInv, Busy
<1>5. k \in [Thread -> Nat] /\ fail \in [Thread -> Nat] /\ t \in DOMAIN pc
  BY DEF TypeInv
<1>6. k' \in [Thread -> Nat] /\ fail' \in [Thread -> Nat]
  BY <1>0, <1>2, <1>5
<1>7. TypeInv'
  BY <1>0, <1>3, <1>4, <1>6 DEF TypeInv
<1>8. /\ pc'[t] = "unlock" => k'[t] \in 1..n
      /\ pc'[t] = "back" => k'[t] \in 1..fail'[t] /\ fail'[t] \in 1..n
  <2>1. pc[t] = "back" => k[t] \in 1..fail[t] /\ fail[t] \in 1..n
    BY DEF QueryInv, QueryOf, n
  <2> QED BY <1>0, <1>1, <1>2, <1>5, <2>1
<1>9. QueryOf(t)'
  BY <1>0, <1>1, <1>4, <1>8 DEF QueryInv, QueryOf, Busy, n
<1> QED BY <1>7, <1>9, QueryByThread DEF Step

LEMMA RunTypes ==
  ASSUME TypeInv, QueryInv, NEW t \in Thread, WaitReady(t) \/ RunTxn(t)
  PROVE  TypeInv' /\ QueryInv'
<1>0. UNCHANGED <<owner, waiters, ready, ts, curr_ts, timestamp, q_idx, parts, m_query, buffer, slots,
                  txn_cnt, sim_done, fail>>
  BY DEF WaitReady, RunTxn, partVars, loopVars, tsVars
<1>1. \/ pc[t] = "wait" /\ pc' = [pc EXCEPT ![t] = "run"] /\ k' = k
      \/ pc[t] = "run" /\ pc' = [pc EXCEPT ![t] = "unlock"] /\ k' = [k EXCEPT ![t] = 1]
  BY DEF WaitReady, RunTxn, Goto
<1>2. /\ pc' \in [Thread -> Busy \cup {"gen", "finished"}]
      /\ pc'[t] \in {"run", "unlock"} /\ pc[t] \in Busy /\ k' \in [Thread -> Nat]
      /\ pc'[t] = "unlock" => k'[t] = 1
  <2>1. k \in [Thread -> Nat] /\ pc \in [Thread -> Busy \cup {"gen", "finished"}]
    BY DEF TypeInv
  <2> QED BY <1>1, <2>1 DEF Busy
<1>3. TypeInv'
  BY <1>0, <1>2 DEF TypeInv
<1>4. Len(PartsOf(t)) \in Nat \ {0} /\ PartsOf(t)' = PartsOf(t)
  BY <1>0, <1>2, PartsOfType DEF PartsOf
<1>5. QueryOf(t)'
  BY <1>0, <1>2, <1>4 DEF QueryInv, QueryOf, Busy
<1> QED BY <1>3, <1>5, QueryByThread DEF Step

\* A busy thread has a free slot in its buffer.
LEMMA SlotIsFree ==
  ASSUME TypeInv, SlotInv, Buffered, NEW t \in Thread, pc[t] \in Busy
  PROVE  \E i \in 1..BufferSize : buffer[t][i] = Nil
<1> SUFFICES ASSUME \A i \in 1..BufferSize : buffer[t][i] # Nil PROVE FALSE
  OBVIOUS
<1>1. Kept(t) = 1..BufferSize
  BY DEF Kept
<1>2. Cardinality(Kept(t)) = BufferSize
  BY <1>1, FS_Interval, WorkerAssumption
<1>3. slots[t] > 0 /\ slots[t] = BufferSize - Cardinality(Kept(t))
  BY DEF SlotInv, SlotOf
<1> QED BY <1>2, <1>3, WorkerAssumption

LEMMA AbortTypes ==
  ASSUME TypeInv, QueryInv, SlotInv, NEW t \in Thread, AbortTxn(t)
  PROVE  TypeInv' /\ QueryInv'
<1> DEFINE f == FreeSlot(t)
           e == [query |-> m_query[t], ready |-> FALSE]
<1>0. /\ UNCHANGED <<owner, waiters, ready, ts, curr_ts, timestamp, q_idx, parts, txn_cnt, sim_done, k, fail>>
      /\ pc[t] = "abort" /\ pc' = [pc EXCEPT ![t] = IF sim_done THEN "finished" ELSE "gen"]
      /\ m_query' = [m_query EXCEPT ![t] = Nil]
  BY DEF AbortTxn, Goto, partVars, tsVars
<1>1. /\ pc' \in [Thread -> Busy \cup {"gen", "finished"}] /\ pc'[t] \in {"finished", "gen"}
      /\ m_query' \in [Thread -> Nat \cup {Nil}] /\ m_query'[t] = Nil
  BY <1>0 DEF TypeInv
<1>2. m_query[t] \in 1..q_idx[t] /\ e \in Entry /\ e.query = m_query[t]
  BY <1>0 DEF QueryInv, QueryOf, Busy, TypeInv, Entry
<1>3. /\ buffer' \in [Thread -> [1..BufferSize -> Entry \cup {Nil}]] /\ slots' \in [Thread -> Int]
      /\ \A i \in 1..BufferSize : buffer'[t][i] \in {buffer[t][i], e}
  <2> HIDE DEF e
  <2>1. CASE ~Buffered
    BY <2>1 DEF AbortTxn, TypeInv
  <2>2. CASE Buffered
    <3>1. f \in 1..BufferSize
      BY <1>0, <2>2, SlotIsFree, FreeSlotType DEF Busy
    <3>2. buffer' = [buffer EXCEPT ![t][f] = e] /\ slots' = [slots EXCEPT ![t] = @ - 1]
      BY <2>2 DEF AbortTxn, e
    <3>3. buffer \in [Thread -> [1..BufferSize -> Entry \cup {Nil}]] /\ slots \in [Thread -> Int]
      BY DEF TypeInv
    <3> HIDE DEF f
    <3> QED BY <1>2, <3>1, <3>2, <3>3
  <2> QED BY <2>1, <2>2
<1>4. TypeInv'
  BY <1>0, <1>1, <1>3 DEF TypeInv
<1>5. QueryOf(t)'
  BY <1>0, <1>1, <1>2, <1>3 DEF QueryInv, QueryOf, Busy
<1> QED BY <1>4, <1>5, QueryByThread DEF Step

LEMMA CommitTypes ==
  ASSUME TypeInv, QueryInv, NEW t \in Thread, CommitTxn(t)
  PROVE  TypeInv' /\ QueryInv'
<1>0. /\ UNCHANGED <<owner, waiters, ready, ts, curr_ts, timestamp, q_idx, parts, buffer, slots, k, fail>>
      /\ pc' = [pc EXCEPT ![t] = IF sim_done' THEN "finished" ELSE "gen"]
      /\ m_query' = [m_query EXCEPT ![t] = Nil] /\ txn_cnt' = [txn_cnt EXCEPT ![t] = @ + 1]
  BY DEF CommitTxn, Goto, partVars, tsVars
<1>1. /\ pc' \in [Thread -> Busy \cup {"gen", "finished"}] /\ pc'[t] \in {"finished", "gen"}
      /\ m_query' \in [Thread -> Nat \cup {Nil}] /\ m_query'[t] = Nil /\ txn_cnt' \in [Thread -> Nat]
  BY <1>0 DEF TypeInv
<1>2. sim_done' \in BOOLEAN
  BY Zenon DEF CommitTxn
<1>3. TypeInv'
  BY <1>0, <1>1, <1>2 DEF TypeInv
<1>4. QueryOf(t)'
  BY <1>0, <1>1 DEF QueryInv, QueryOf, Busy
<1> QED BY <1>3, <1>4, QueryByThread DEF Step

LEMMA ErrorTypes ==
  ASSUME TypeInv, QueryInv, NEW t \in Thread, ErrorTxn(t)
  PROVE  TypeInv' /\ QueryInv'
<1>0. /\ UNCHANGED <<owner, waiters, ready, ts, curr_ts, timestamp, q_idx, parts, m_query, buffer, slots,
                      txn_cnt, sim_done, k, fail>>
      /\ pc' = [pc EXCEPT ![t] = "finished"]
  BY DEF ErrorTxn, Goto, partVars, tsVars, loopVars
<1>1. pc' \in [Thread -> Busy \cup {"gen", "finished"}] /\ pc'[t] = "finished"
  BY <1>0 DEF TypeInv
<1>2. TypeInv'
  BY <1>0, <1>1 DEF TypeInv
<1>3. QueryOf(t)'
  BY <1>0, <1>1 DEF QueryInv, QueryOf, Busy
<1> QED BY <1>2, <1>3, QueryByThread DEF Step

LEMMA ElapseTypes ==
  ASSUME TypeInv, QueryInv, NEW t \in Thread, Elapse(t)
  PROVE  TypeInv' /\ QueryInv'
<1>0. UNCHANGED <<owner, waiters, ready, ts, curr_ts, timestamp, q_idx, parts, m_query, slots, txn_cnt,
                  sim_done, pc, k, fail>>
  BY DEF Elapse, partVars, tsVars
<1>1. PICK i \in 1..BufferSize : buffer[t][i] # Nil /\ buffer' = [buffer EXCEPT ![t][i].ready = TRUE]
  BY DEF Elapse
<1> DEFINE e == [buffer[t][i] EXCEPT !.ready = TRUE]
<1>2. buffer[t][i] \in Entry
  <2>1. buffer[t] \in [1..BufferSize -> Entry \cup {Nil}]
    BY DEF TypeInv
  <2> QED BY <1>1, <2>1
<1>3. e \in Entry /\ e.query = buffer[t][i].query
  BY <1>2 DEF Entry
<1>4. buffer' = [buffer EXCEPT ![t] = [buffer[t] EXCEPT ![i] = e]]
  BY <1>1 DEF TypeInv
<1> HIDE DEF e
<1>5. buffer' \in [Thread -> [1..BufferSize -> Entry \cup {Nil}]] /\ buffer'[t] = [buffer[t] EXCEPT ![i] = e]
  BY <1>3, <1>4 DEF TypeInv
<1>6. TypeInv'
  BY <1>0, <1>5 DEF TypeInv
<1>7. QueryOf(t)'
  <2>1. buffer[t] \in [1..BufferSize -> Entry \cup {Nil}]
    BY DEF TypeInv
  <2>2. \A j \in 1..BufferSize : buffer'[t][j] = IF j = i THEN e ELSE buffer[t][j]
    BY <1>5, <2>1
  <2> QED BY <1>0, <1>1, <1>3, <2>2 DEF QueryInv, QueryOf, PartsOf
<1> QED BY <1>6, <1>7, QueryByThread DEF Step

LEMMA NextTypes ==
  ASSUME TypeInv, QueryInv, SlotInv, NEW t \in Thread, Step(t) \/ Elapse(t)
  PROVE  TypeInv' /\ QueryInv'
  BY GenerateTypes, TsTypes, LockTypes, UnlockTypes, RunTypes, AbortTypes, CommitTypes, ErrorTypes,
     ElapseTypes DEF Step

-----------------------------------------------------------------------------
(***************************************************************************)
(* The abort buffer and its count of free slots.                           *)
(***************************************************************************)
LEMMA KeptFinite ==
  ASSUME NEW t \in Thread
  PROVE  /\ IsFiniteSet(Kept(t)) /\ Cardinality(Kept(t)) \in Nat
         /\ Cardinality(Kept(t)) <= BufferSize
<1>1. IsFiniteSet(1..BufferSize) /\ Cardinality(1..BufferSize) = BufferSize
  BY FS_Interval, WorkerAssumption
<1>2. Kept(t) \in SUBSET (1..BufferSize)
  BY DEF Kept
<1>3. IsFiniteSet(Kept(t)) /\ Cardinality(Kept(t)) <= Cardinality(1..BufferSize)
  BY <1>1, <1>2, FS_Subset
<1> QED BY <1>1, <1>3, FS_CardinalityType

LEMMA InitSlots == Init => SlotInv
<1> SUFFICES ASSUME Init, NEW t \in Thread PROVE SlotOf(t)
  BY DEF SlotInv
<1>1. Kept(t) = {}
  BY DEF Init, Kept
<1>2. Cardinality(Kept(t)) = 0
  BY <1>1, FS_EmptySet
<1> QED BY <1>2, WorkerAssumption DEF Init, SlotOf, Busy

\* A query taken from the buffer gives its slot back.
LEMMA TakeAbortedSlots ==
  ASSUME TypeInv, QueryInv, NEW t \in Thread, SlotOf(t), pc[t] = "gen", TakeAborted(t),
         pc'[t] = "ts", txn_cnt' = txn_cnt
  PROVE  SlotOf(t)'
<1> DEFINE f == FirstReady(t)
<1>1. f \in 1..BufferSize /\ buffer[t][f] # Nil /\ buffer[t][f].query \in 1..q_idx[t]
  BY TakeAbortedType
<1>2. /\ m_query' = [m_query EXCEPT ![t] = buffer[t][f].query]
      /\ buffer' = [buffer EXCEPT ![t][f] = Nil]
      /\ slots' = [slots EXCEPT ![t] = @ + 1] /\ q_idx' = q_idx
  BY DEF TakeAborted
<1> HIDE DEF f
<1>3. /\ buffer[t] \in [1..BufferSize -> Entry \cup {Nil}] /\ slots[t] \in Int /\ q_idx[t] \in Nat
      /\ buffer'[t] = [buffer[t] EXCEPT ![f] = Nil] /\ slots'[t] = slots[t] + 1
      /\ m_query'[t] = buffer[t][f].query
  BY <1>1, <1>2 DEF TypeInv
<1>4. f \in Kept(t) /\ Kept(t)' = Kept(t) \ {f}
  BY <1>1, <1>3 DEF Kept
<1>5. Cardinality(Kept(t)') = Cardinality(Kept(t)) - 1
  BY <1>4, KeptFinite, FS_RemoveElement
<1>6. m_query'[t] # Nil /\ m_query[t] = Nil
  BY <1>1, <1>3, NilIsNone DEF QueryInv, QueryOf, Busy
<1>7. Cardinality(Kept(t)) \in Nat /\ Cardinality(Kept(t)) <= BufferSize
  BY KeptFinite
<1> QED BY <1>2, <1>3, <1>5, <1>6, <1>7, WorkerAssumption DEF SlotOf, Busy, TypeInv

\* An aborted query takes a slot, which is free.
LEMMA AbortSlots ==
  ASSUME TypeInv, QueryInv, SlotInv, Buffered, NEW t \in Thread, AbortTxn(t)
  PROVE  SlotOf(t)'
<1> DEFINE f == FreeSlot(t)
           e == [query |-> m_query[t], ready |-> FALSE]
<1>0. /\ UNCHANGED <<q_idx, txn_cnt>> /\ pc[t] = "abort"
      /\ pc' = [pc EXCEPT ![t] = IF sim_done THEN "finished" ELSE "gen"]
      /\ m_query' = [m_query EXCEPT ![t] = Nil]
      /\ buffer' = [buffer EXCEPT ![t][f] = e] /\ slots' = [slots EXCEPT ![t] = @ - 1]
  BY DEF AbortTxn, Goto
<1>1. f \in 1..BufferSize /\ buffer[t][f] = Nil
  BY <1>0, SlotIsFree, FreeSlotType DEF Busy
<1>2. m_query[t] \in 1..q_idx[t] /\ q_idx[t] \in Nat
  BY <1>0 DEF QueryInv, QueryOf, Busy, TypeInv
<1>3. e # Nil /\ m_query[t] # Nil
  <2>1. e \in Entry
    BY <1>2 DEF Entry
  <2>2. m_query[t] \in Nat
    BY <1>2
  <2> HIDE DEF e
  <2> QED BY <2>1, <2>2, NilIsNone
<1> HIDE DEF f, e
<1>4. /\ buffer[t] \in [1..BufferSize -> Entry \cup {Nil}] /\ slots[t] \in Int
      /\ buffer'[t] = [buffer[t] EXCEPT ![f] = e] /\ slots'[t] = slots[t] - 1
      /\ m_query'[t] = Nil /\ pc'[t] \in {"finished", "gen"}
  BY <1>0 DEF TypeInv
<1>5. f \notin Kept(t) /\ Kept(t)' = Kept(t) \cup {f}
  BY <1>1, <1>3, <1>4 DEF Kept
<1>6. Cardinality(Kept(t)') = Cardinality(Kept(t)) + 1
  BY <1>5, KeptFinite, FS_AddElement
<1>7. Cardinality(Kept(t)) \in Nat
  BY KeptFinite
<1>8. SlotOf(t)
  BY DEF SlotInv
<1>9. /\ txn_cnt[t] < MaxTxn /\ txn_cnt[t] \in Nat /\ txn_cnt'[t] = txn_cnt[t] /\ q_idx'[t] = q_idx[t]
      /\ pc'[t] \notin Busy
  BY <1>0, <1>4, <1>8 DEF SlotOf, TypeInv, Busy
<1>10. /\ q_idx[t] = txn_cnt[t] + Cardinality(Kept(t)) + 1
       /\ slots[t] = BufferSize - Cardinality(Kept(t))
  BY <1>3, <1>8 DEF SlotOf
<1>11. /\ q_idx'[t] = txn_cnt'[t] + Cardinality(Kept(t)')
       /\ slots'[t] = BufferSize - Cardinality(Kept(t)')
       /\ txn_cnt'[t] < MaxTxn /\ txn_cnt'[t] <= MaxTxn
       /\ txn_cnt'[t] + Cardinality(Kept(t)') + 0 = txn_cnt'[t] + Cardinality(Kept(t)')
  <2> DEFINE c == Cardinality(Kept(t))
             d == Cardinality(Kept(t)')
  <2>1. BufferSize \in Nat /\ MaxTxn \in Nat /\ c \in Nat /\ d = c + 1
    BY <1>6, <1>7, WorkerAssumption
  <2>2. q_idx[t] = txn_cnt[t] + c + 1 /\ slots[t] = BufferSize - c
    BY <1>10
  <2> HIDE DEF c, d
  <2>3. /\ q_idx'[t] = txn_cnt'[t] + d /\ slots'[t] = BufferSize - d
        /\ txn_cnt'[t] < MaxTxn /\ txn_cnt'[t] <= MaxTxn /\ txn_cnt'[t] + d + 0 = txn_cnt'[t] + d
    BY <1>2, <1>4, <1>9, <2>1, <2>2
  <2> QED BY <2>3 DEF d
<1> QED BY <1>4, <1>9, <1>11 DEF SlotOf

LEMMA NextSlots ==
  ASSUME TypeInv, QueryInv, SlotInv, NEW t \in Thread, Step(t) \/ Elapse(t)
  PROVE  SlotInv'
<1> SUFFICES ASSUME Buffered PROVE \A u \in Thread : SlotOf(u)'
  BY DEF SlotInv
<1>0. \A u \in Thread : SlotOf(u)
  BY DEF SlotInv
<1>1. ASSUME NEW u \in Thread, u # t PROVE SlotOf(u)'
  BY <1>0, <1>1, StepIsLocal, SameQuery
<1> USE DEF Goto
<1>2. ASSUME GenerateTxn(t) PROVE SlotOf(t)'
  <2>1. pc[t] = "gen" /\ pc' = [pc EXCEPT ![t] = "ts"] /\ txn_cnt' = txn_cnt
    BY <1>2 DEF GenerateTxn
  <2>2. pc'[t] = "ts"
    BY <2>1 DEF TypeInv
  <2>3. CASE TakeAborted(t)
    BY <1>0, <2>1, <2>2, <2>3, TakeAbortedSlots
  <2>4. CASE TakeNew(t)
    <3>1. /\ slots[t] > 0 /\ slots' = slots /\ buffer' = buffer
          /\ q_idx' = [q_idx EXCEPT ![t] = @ + 1] /\ m_query' = [m_query EXCEPT ![t] = q_idx[t] + 1]
      BY <2>4 DEF TakeNew
    <3>2. q_idx[t] \in Nat /\ q_idx'[t] = q_idx[t] + 1 /\ m_query'[t] = q_idx[t] + 1
      BY <3>1 DEF TypeInv
    <3>3. m_query[t] = Nil /\ m_query'[t] # Nil
      BY <2>1, <3>2, NilIsNone DEF QueryInv, QueryOf, Busy
    <3>4. Kept(t)' = Kept(t)
      BY <3>1 DEF Kept
    <3>5. Cardinality(Kept(t)) \in Nat /\ txn_cnt[t] \in Nat
      BY KeptFinite DEF TypeInv
    <3> QED BY <1>0, <2>1, <2>2, <3>1, <3>2, <3>3, <3>4, <3>5 DEF SlotOf, Busy
  <2> QED BY <1>2, <2>3, <2>4 DEF GenerateTxn
<1>3. ASSUME AbortTxn(t) PROVE SlotOf(t)'
  BY <1>3, AbortSlots
<1>4. ASSUME CommitTxn(t) PROVE SlotOf(t)'
  <2>1. /\ UNCHANGED <<q_idx, buffer, slots>> /\ pc[t] = "commit"
        /\ pc' = [pc EXCEPT ![t] = IF sim_done' THEN "finished" ELSE "gen"]
        /\ m_query' = [m_query EXCEPT ![t] = Nil] /\ txn_cnt' = [txn_cnt EXCEPT ![t] = @ + 1]
        /\ sim_done' = (sim_done \/ txn_cnt[t] + 1 >= MaxTxn)
    BY <1>4 DEF CommitTxn
  <2>2. /\ pc'[t] \in {"finished", "gen"} /\ (pc'[t] # "finished" => ~sim_done')
        /\ m_query'[t] = Nil /\ txn_cnt[t] \in Nat /\ txn_cnt'[t] = txn_cnt[t] + 1
    BY <2>1 DEF TypeInv
  <2>3. m_query[t] # Nil
    BY <2>1, NilIsNone DEF QueryInv, QueryOf, Busy, TypeInv
  <2>4. Kept(t)' = Kept(t) /\ Cardinality(Kept(t)) \in Nat
    BY <2>1, KeptFinite DEF Kept
  <2>5. pc'[t] # "finished" => txn_cnt[t] + 1 < MaxTxn
    <3>1. pc'[t] # "finished" => ~(txn_cnt[t] + 1 >= MaxTxn)
      BY <2>1, <2>2, Zenon
    <3> QED BY <2>2, <3>1, WorkerAssumption
  <2>6. txn_cnt[t] < MaxTxn
    BY <1>0, <2>1 DEF SlotOf
  <2> QED BY <1>0, <2>1, <2>2, <2>3, <2>4, <2>5, <2>6, WorkerAssumption DEF SlotOf, Busy
<1>5. ASSUME Elapse(t) PROVE SlotOf(t)'
  <2>1. UNCHANGED <<q_idx, m_query, slots, txn_cnt, pc>>
    BY <1>5 DEF Elapse
  <2>2. PICK i \in 1..BufferSize : buffer[t][i] # Nil /\ buffer' = [buffer EXCEPT ![t][i].ready = TRUE]
    BY <1>5 DEF Elapse
  <2> DEFINE e == [buffer[t][i] EXCEPT !.ready = TRUE]
  <2>3. buffer[t] \in [1..BufferSize -> Entry \cup {Nil}]
    BY DEF TypeInv
  <2>4. e \in Entry
    BY <2>2, <2>3 DEF Entry
  <2>5. buffer'[t] = [buffer[t] EXCEPT ![i] = e]
    BY <2>2 DEF TypeInv
  <2> HIDE DEF e
  <2>6. Kept(t)' = Kept(t)
    BY <2>2, <2>3, <2>4, <2>5, NilIsNone DEF Kept
  <2> QED BY <1>0, <2>1, <2>6 DEF SlotOf
<1>6. ASSUME \/ GetNextTs(t) \/ LockPart(t) \/ UnlockBack(t) \/ WaitReady(t) \/ RunTxn(t) \/ UnlockPart(t)
      PROVE  SlotOf(t)'
  <2>1. UNCHANGED <<q_idx, m_query, slots, txn_cnt, buffer>> /\ pc[t] \in Busy /\ pc'[t] # "finished"
    BY <1>6 DEF GetNextTs, LockPart, UnlockBack, WaitReady, RunTxn, UnlockPart, loopVars, Busy, TypeInv
  <2>2. pc[t] # "finished" /\ Kept(t)' = Kept(t)
    BY <2>1 DEF Busy, Kept
  <2> QED BY <1>0, <2>1, <2>2 DEF SlotOf
<1>7. ASSUME ErrorTxn(t) PROVE SlotOf(t)'
  <2>1. UNCHANGED <<q_idx, m_query, slots, txn_cnt, buffer>> /\ pc[t] \in Busy /\ pc'[t] = "finished"
    BY <1>7 DEF ErrorTxn, loopVars, Busy, TypeInv
  <2>2. pc[t] # "finished" /\ Kept(t)' = Kept(t)
    BY <2>1 DEF Busy, Kept
  <2> QED BY <1>0, <2>1, <2>2 DEF SlotOf, Busy
<1>8. SlotOf(t)'
  BY <1>2, <1>3, <1>4, <1>5, <1>6, <1>7 DEF Step
<1> QED BY <1>1, <1>8

-----------------------------------------------------------------------------
(***************************************************************************)
(* Timestamps.                                                             *)
(***************************************************************************)

\* What is left of a batch after one draw, ...
LEMMA LeftNext ==
  ASSUME NEW c \in Nat, c % BatchNum # 0
  PROVE  /\ c \in LeftFrom(c) /\ c \notin LeftFrom(c + 1) /\ c # 0
         /\ \A v \in LeftFrom(c + 1) : v \in LeftFrom(c)
<1>1. c \in LeftFrom(c) /\ c \notin LeftFrom(c + 1)
  BY DEF LeftFrom
<1>2. c # 0
  BY WorkerAssumption
<1>3. ASSUME NEW v \in LeftFrom(c + 1) PROVE v \in LeftFrom(c)
  <2>1. v \in Nat /\ v >= c + 1 /\ \A x \in (c + 1)..v : x % BatchNum # 0
    BY DEF LeftFrom
  <2>2. ASSUME NEW x \in c..v PROVE x % BatchNum # 0
    <3>1. x = c \/ x \in (c + 1)..v
      BY <2>1
    <3> QED BY <2>1, <3>1
  <2> QED BY <2>1, <2>2 DEF LeftFrom
<1> QED BY <1>1, <1>2, <1>3

\* ... when it is used up, ...
LEMMA LeftEmpty ==
  ASSUME NEW c \in Nat, c % BatchNum = 0
  PROVE  LeftFrom(c) = {}
<1>1. \A v \in Nat : v >= c => c \in c..v
  OBVIOUS
<1> QED BY <1>1 DEF LeftFrom

\* ... and when a new one, from T on, has been drawn.
LEMMA LeftBatch ==
  ASSUME NEW T \in Nat \ {0}, (T - 1) % BatchNum = 0
  PROVE  /\ (T + BatchNum - 1) % BatchNum = 0
         /\ \A v \in LeftFrom(T + 1) : v > T /\ v < T + BatchNum
<1> DEFINE n == BatchNum
           m == T + n - 1
<1>1. n \in Nat /\ n > 0
  BY WorkerAssumption
<1>2. m % n = 0
  <2>1. T - 1 \in Nat /\ (T - 1) + n = m
    BY <1>1
  <2>2. ((T - 1) + n) % n = (T - 1) % n
    BY <1>1, <2>1, ModShift
  <2> QED BY <2>1, <2>2
<1>3. ASSUME NEW v \in LeftFrom(T + 1) PROVE v > T /\ v < T + n
  <2>1. v \in Nat /\ v >= T + 1 /\ \A x \in (T + 1)..v : x % n # 0
    BY DEF LeftFrom
  <2>2. CASE n = 1
    <3>1. v % 1 = 0 /\ v \in (T + 1)..v
      BY <2>1
    <3> QED BY <2>1, <2>2, <3>1
  <2>3. CASE n # 1
    <3> SUFFICES ASSUME ~(v < T + n) PROVE FALSE
      BY <2>1
    <3>1. m \in (T + 1)..v
      BY <1>1, <2>1, <2>3
    <3> QED BY <1>2, <2>1, <3>1
  <2> QED BY <2>2, <2>3
<1> QED BY <1>2, <1>3

LEMMA InitTs == Init => TsInv
<1> SUFFICES ASSUME Init PROVE TsInv
  OBVIOUS
<1>1. \A t \in Thread : Left(t) = {}
  <2>1. 0 % BatchNum = 0
    BY WorkerAssumption
  <2> QED BY <2>1, LeftEmpty DEF Left, Init
<1>2. (timestamp - 1) % BatchNum = 0
  BY WorkerAssumption DEF Init
<1> QED BY <1>1, <1>2 DEF TsInv, Init, PartInit, Busy

\* The timestamp a thread draws is no other thread's, nor one another thread
\* has in reserve.
LEMMA DrawTs ==
  ASSUME TypeInv, TsInv, NEW t \in Thread, GetNextTs(t)
  PROVE  TsInv'
<1> DEFINE new == NextTs(t)
<1>0. /\ pc' = [pc EXCEPT ![t] = "lock"] /\ pc[t] = "ts"
      /\ curr_ts' = [curr_ts EXCEPT ![t] = new.curr]
      /\ ts' = [ts EXCEPT ![t] = new.ts] /\ timestamp' = new.next
  BY DEF GetNextTs, Goto
<1>1. /\ new.curr \in Nat /\ new.ts \in Nat /\ new.next \in Nat \ {0} /\ new.next >= timestamp
      /\ curr_ts[t] \in Nat /\ timestamp \in Nat \ {0} /\ BatchNum \in Nat \ {0}
      /\ \A u \in Thread : ts[u] \in Nat /\ curr_ts[u] \in Nat
  BY NextTsType, WorkerAssumption DEF TypeInv
<1>2. \A u \in Thread : /\ ts'[u] = IF u = t THEN new.ts ELSE ts[u]
                        /\ curr_ts'[u] = IF u = t THEN new.curr ELSE curr_ts[u]
                        /\ pc'[u] = IF u = t THEN "lock" ELSE pc[u]
  BY <1>0 DEF TypeInv
<1>3. \A u \in Thread : Left(u)' = IF u = t THEN LeftFrom(new.curr) ELSE Left(u)
  BY <1>2 DEF Left
<1>4. \A u \in Thread : ts[u] < timestamp
  BY DEF TsInv
\* It is enough that the drawn timestamp is new, and what is left of the batch too.
<1>5. ASSUME new.ts < new.next, new.ts # 0, \A u \in Thread : ts[u] # new.ts,
             BatchAlloc =>
               /\ (new.next - 1) % BatchNum = 0
               /\ \A v \in LeftFrom(new.curr) :
                    v < new.next /\ v # new.ts /\ \A u \in Thread : ts[u] # v /\ (u # t => v \notin Left(u))
               /\ \A u \in Thread : u # t => new.ts \notin Left(u)
      PROVE  TsInv'
  <2> HIDE DEF new
  <2>1. \A u \in Thread : ts'[u] < timestamp'
    BY <1>0, <1>1, <1>2, <1>4, <1>5
  <2>2. \A u, w \in Thread : u # w /\ ts'[u] # 0 => ts'[u] # ts'[w]
    BY <1>2, <1>5 DEF TsInv
  <2>3. \A u \in Thread : pc'[u] \in Busy \ {"ts"} => ts'[u] # 0
    BY <1>2, <1>5 DEF TsInv
  <2>4. ASSUME BatchAlloc, NEW u \in Thread, NEW v \in Left(u)'
        PROVE  v < timestamp' /\ \A w \in Thread : ts'[w] # v /\ (w # u => v \notin Left(w)')
    <3>1. CASE u = t
      <4>1. v \in LeftFrom(new.curr)
        BY <1>3, <2>4, <3>1
      <4>2. v < new.next /\ v # new.ts /\ \A w \in Thread : ts[w] # v /\ (w # t => v \notin Left(w))
        BY <1>5, <2>4, <4>1
      <4> QED BY <1>0, <1>2, <1>3, <3>1, <4>2
    <3>2. CASE u # t
      <4>1. v \in Left(u) /\ v \in Nat
        BY <1>3, <2>4, <3>2 DEF Left, LeftFrom
      <4>2. v < timestamp /\ \A w \in Thread : ts[w] # v /\ (w # u => v \notin Left(w))
        BY <2>4, <4>1 DEF TsInv
      <4>3. v < timestamp'
        BY <1>0, <1>1, <4>1, <4>2
      <4>4. v # new.ts /\ v \notin LeftFrom(new.curr)
        BY <1>5, <2>4, <3>2, <4>1
      <4> QED BY <1>2, <1>3, <4>2, <4>3, <4>4
    <3> QED BY <3>1, <3>2
  <2>5. BatchAlloc => (timestamp' - 1) % BatchNum = 0
    BY <1>0, <1>5
  <2> QED BY <2>1, <2>2, <2>3, <2>4, <2>5 DEF TsInv
<1>6. CASE ~BatchAlloc
  <2>1. new.ts = timestamp /\ new.next = timestamp + 1
    BY <1>6 DEF NextTs
  <2> HIDE DEF new
  <2> QED BY <1>1, <1>4, <1>5, <1>6, <2>1
<1>7. CASE BatchAlloc /\ curr_ts[t] % BatchNum = 0
  <2>1. new.ts = timestamp /\ new.next = timestamp + BatchNum /\ new.curr = timestamp + 1
    BY <1>7 DEF NextTs, BatchTs
  <2>2. (timestamp - 1) % BatchNum = 0
    BY <1>7 DEF TsInv
  <2>3. /\ (timestamp + BatchNum - 1) % BatchNum = 0
        /\ \A v \in LeftFrom(timestamp + 1) : v > timestamp /\ v < timestamp + BatchNum
    BY <1>1, <2>2, LeftBatch
  <2>4. \A u \in Thread : \A v \in Left(u) : v < timestamp /\ v \in Nat
    BY <1>7 DEF TsInv, Left, LeftFrom
  <2>5. \A v \in LeftFrom(timestamp + 1) : v \in Nat
    BY DEF LeftFrom
  <2> HIDE DEF new
  <2>6. new.ts < new.next /\ new.ts # 0 /\ \A u \in Thread : ts[u] # new.ts
    BY <1>1, <1>4, <2>1
  <2>7. \A v \in LeftFrom(new.curr) :
           v < new.next /\ v # new.ts /\ \A u \in Thread : ts[u] # v /\ (u # t => v \notin Left(u))
    BY <1>1, <1>4, <2>1, <2>3, <2>4, <2>5
  <2>8. \A u \in Thread : new.ts \notin Left(u)
    BY <1>1, <2>1, <2>4
  <2>9. (new.next - 1) % BatchNum = 0
    <3>1. new.next - 1 = timestamp + BatchNum - 1
      BY <1>1, <2>1
    <3> QED BY <2>3, <3>1, Zenon
  <2> QED BY <1>5, <2>6, <2>7, <2>8, <2>9
<1>8. CASE BatchAlloc /\ curr_ts[t] % BatchNum # 0
  <2> DEFINE c == curr_ts[t]
  <2>1. new.ts = c /\ new.next = timestamp /\ new.curr = c + 1
    BY <1>8 DEF NextTs
  <2>2. /\ c \in Left(t) /\ c \notin LeftFrom(c + 1) /\ c # 0
        /\ \A v \in LeftFrom(c + 1) : v \in Left(t)
    BY <1>1, <1>8, LeftNext DEF Left
  <2>3. /\ (timestamp - 1) % BatchNum = 0
        /\ \A v \in Left(t) : v < timestamp /\ \A u \in Thread : ts[u] # v /\ (u # t => v \notin Left(u))
    BY <1>8 DEF TsInv
  <2> HIDE DEF new, c
  <2>4. new.ts < new.next /\ new.ts # 0 /\ \A u \in Thread : ts[u] # new.ts
    BY <2>1, <2>2, <2>3
  <2>5. \A v \in LeftFrom(new.curr) :
           v < new.next /\ v # new.ts /\ \A u \in Thread : ts[u] # v /\ (u # t => v \notin Left(u))
    BY <2>1, <2>2, <2>3
  <2>6. \A u \in Thread : u # t => new.ts \notin Left(u)
    BY <2>1, <2>2, <2>3
  <2> QED BY <1>5, <2>1, <2>3, <2>4, <2>5, <2>6
<1> QED BY <1>6, <1>7, <1>8

LEMMA NextTsInv ==
  ASSUME TypeInv, TsInv, NEW t \in Thread, Step(t) \/ Elapse(t)
  PROVE  TsInv'
<1>1. CASE GetNextTs(t)
  BY <1>1, DrawTs
<1>2. CASE ~GetNextTs(t)
  <2>1. UNCHANGED <<ts, curr_ts, timestamp>>
    BY <1>2 DEF Step, GenerateTxn, LockPart, UnlockBack, WaitReady, RunTxn, UnlockPart, AbortTxn, ErrorTxn, CommitTxn,
                Elapse, tsVars
  <2>2. pc'[t] \in Busy \ {"ts"} => pc[t] \in Busy \ {"ts"}
    <3>1. CASE LockPart(t) \/ UnlockBack(t) \/ WaitReady(t) \/ RunTxn(t) \/ UnlockPart(t)
      BY <3>1 DEF LockPart, UnlockBack, WaitReady, RunTxn, UnlockPart, Busy
    <3>2. CASE GenerateTxn(t) \/ AbortTxn(t) \/ ErrorTxn(t) \/ CommitTxn(t)
      BY <3>2 DEF GenerateTxn, AbortTxn, ErrorTxn, CommitTxn, Goto, Busy, TypeInv
    <3>3. CASE Elapse(t)
      BY <3>3 DEF Elapse
    <3> QED BY <1>2, <3>1, <3>2, <3>3 DEF Step
  <2>3. \A u \in Thread : pc'[u] \in Busy \ {"ts"} => pc[u] \in Busy \ {"ts"}
    BY <2>2, StepIsLocal DEF Same
  <2>4. \A u \in Thread : Left(u)' = Left(u)
    BY <2>1 DEF Left
  <2> QED BY <2>1, <2>3, <2>4 DEF TsInv
<1> QED BY <1>1, <1>2

-----------------------------------------------------------------------------
(***************************************************************************)
(* What PartMan::lock and unlock do to owners, waiters and counters.       *)
(***************************************************************************)

\* The waiters of a partition are different threads, none of them its owner.
LEMMA WaitersDistinct ==
  ASSUME TypeInv, OrderInv, NEW p \in Part
  PROVE  /\ \A i, j \in 1..Len(waiters[p]) : waiters[p][i] = waiters[p][j] => i = j
         /\ \A i \in 1..Len(waiters[p]) : waiters[p][i] \in Thread /\ owner[p] # waiters[p][i]
         /\ waiters[p] \in Seq(Thread) /\ Len(waiters[p]) \in Nat
<1>1. waiters[p] \in Seq(Thread) /\ ts \in [Thread -> Nat]
  BY DEF TypeInv
<1>2. Len(waiters[p]) \in Nat /\ \A i \in 1..Len(waiters[p]) : waiters[p][i] \in Thread
  BY <1>1, LenProperties
<1>3. \A i \in 1..Len(waiters[p]) :
         /\ ts[owner[p]] < ts[waiters[p][i]]
         /\ \A j \in 1..(i - 1) : ts[waiters[p][j]] < ts[waiters[p][i]]
  BY DEF OrderInv
<1>4. ASSUME NEW i \in 1..Len(waiters[p]), NEW j \in 1..Len(waiters[p]), j < i
      PROVE  waiters[p][i] # waiters[p][j]
  <2>1. j \in 1..(i - 1)
    BY <1>2, <1>4
  <2>2. ts[waiters[p][j]] < ts[waiters[p][i]] /\ ts[waiters[p][i]] \in Nat
    BY <1>1, <1>2, <1>3, <2>1
  <2> QED BY <2>2
<1>5. ASSUME NEW i \in 1..Len(waiters[p]) PROVE owner[p] # waiters[p][i]
  <2>1. ts[owner[p]] < ts[waiters[p][i]] /\ ts[waiters[p][i]] \in Nat
    BY <1>1, <1>2, <1>3
  <2> QED BY <2>1
<1>6. \A i, j \in 1..Len(waiters[p]) : waiters[p][i] = waiters[p][j] => i = j
  <2> SUFFICES ASSUME NEW i \in 1..Len(waiters[p]), NEW j \in 1..Len(waiters[p]), waiters[p][i] = waiters[p][j], i # j
               PROVE FALSE
    OBVIOUS
  <2>1. i < j \/ j < i
    BY <1>2
  <2> QED BY <1>4, <2>1
<1> QED BY <1>1, <1>2, <1>5, <1>6

\* The counter ready_part follows when a thread enters one queue, or leaves one.
LEMMA QueuesFinite ==
  ASSUME NEW t \in Thread
  PROVE  IsFiniteSet(Queues(t)) /\ Cardinality(Queues(t)) \in Nat
<1>1. Queues(t) \in SUBSET Part
  BY DEF Queues
<1> QED BY <1>1, FS_Subset, FS_CardinalityType, PartLockAssumption

LEMMA EnterQueue ==
  ASSUME NEW t \in Thread, NEW p \in Part, p \notin Queues(t), Queues(t)' = Queues(t) \cup {p}
  PROVE  Cardinality(Queues(t)') = Cardinality(Queues(t)) + 1
  BY QueuesFinite, FS_AddElement

LEMMA LeaveQueue ==
  ASSUME NEW t \in Thread, NEW p \in Part, p \in Queues(t), Queues(t)' = Queues(t) \ {p}
  PROVE  Cardinality(Queues(t)') = Cardinality(Queues(t)) - 1
  BY QueuesFinite, FS_RemoveElement

\* A granted lock: the queues and counters stay.
LEMMA GrantedEffect ==
  ASSUME TypeInv, OrderInv, ReadyInv, NEW t \in Thread, NEW p \in Part, Granted(t, p), UNCHANGED ts
  PROVE  /\ OrderInv' /\ ReadyInv' /\ \A u \in Thread : Queues(u)' = Queues(u)
         /\ \A u \in Thread, q \in Part : Holds(u, q)' <=> Holds(u, q) \/ (u = t /\ q = p)
<1>1. owner[p] = NoOwner /\ owner' = [owner EXCEPT ![p] = t] /\ waiters' = waiters /\ ready' = ready
  BY DEF Granted
<1>2. \A q \in Part : owner'[q] = IF q = p THEN t ELSE owner[q]
  BY <1>1 DEF TypeInv
<1>3. \A i \in 1..Len(waiters[p]) : FALSE
  BY <1>1 DEF OrderInv
<1>4. OrderInv'
  BY <1>1, <1>2, <1>3 DEF OrderInv
<1>5. \A u \in Thread : Queues(u)' = Queues(u)
  BY <1>1 DEF Queues
<1>6. ReadyInv'
  BY <1>1, <1>5 DEF ReadyInv
<1>7. \A u \in Thread, q \in Part : Holds(u, q)' <=> Holds(u, q) \/ (u = t /\ q = p)
  BY <1>1, <1>2, PartLockAssumption DEF Holds
<1> QED BY <1>4, <1>5, <1>6, <1>7

\* A place in the queue: behind the older ones, before the younger ones.
LEMMA QueuedEffect ==
  ASSUME TypeInv, OrderInv, ReadyInv, TsInv, NEW t \in Thread, NEW p \in Part, Queued(t, p),
         ts[t] # 0, ~Holds(t, p), UNCHANGED ts
  PROVE  /\ OrderInv' /\ ReadyInv' /\ \A u \in Thread : u # t => Queues(u)' = Queues(u)
         /\ \A u \in Thread, q \in Part : Holds(u, q)' <=> Holds(u, q) \/ (u = t /\ q = p)
<1> DEFINE w == waiters[p]
<1>1. /\ owner[p] # NoOwner /\ ts[owner[p]] < ts[t] /\ owner' = owner
      /\ ready' = [ready EXCEPT ![t] = @ + 1]
  BY DEF Queued
<1>2. PICK i \in 1..(Len(w) + 1) :
        /\ \A j \in i..Len(w) : ts[w[j]] >= ts[t]
        /\ i > 1 => ts[w[i - 1]] < ts[t]
        /\ waiters' = [waiters EXCEPT ![p] = InsertAt(w, i, t)]
  BY DEF Queued
<1> DEFINE r == InsertAt(w, i, t)
<1>3. w \in Seq(Thread) /\ Len(w) \in Nat /\ \A j \in 1..Len(w) : w[j] \in Thread
  BY WaitersDistinct
<1>4. /\ Len(r) = Len(w) + 1
      /\ \A j \in 1..(Len(w) + 1) : r[j] = IF j < i THEN w[j] ELSE IF j = i THEN t ELSE w[j - 1]
  <2> HIDE DEF w
  <2> QED BY <1>3, InsertAtProperties
<1>5. \A u : Contains(r, u) <=> Contains(w, u) \/ u = t
  BY <1>3, InsertContains
<1>6. \A q \in Part : waiters'[q] = IF q = p THEN r ELSE waiters[q]
  BY <1>2 DEF TypeInv
<1>7. \A u \in Thread : ts[u] \in Nat
  BY DEF TypeInv
<1>8. /\ \A j \in 1..Len(w) : ts[owner[p]] < ts[w[j]]
      /\ \A j \in 1..Len(w) : \A l \in 1..(j - 1) : ts[w[l]] < ts[w[j]]
  BY DEF OrderInv
<1>9. \A j \in 1..Len(w) : w[j] # t
  BY DEF Holds, Contains
<1> HIDE DEF w, r
\* The older ones are before it, ...
<1>10. ASSUME NEW j \in 1..(i - 1) PROVE j \in 1..Len(w) /\ ts[w[j]] < ts[t]
  <2>1. j \in 1..Len(w) /\ i > 1 /\ i - 1 \in 1..Len(w)
    BY <1>3
  <2>2. ts[w[i - 1]] < ts[t]
    BY <1>2, <2>1
  <2>3. CASE j = i - 1
    BY <2>1, <2>2, <2>3
  <2>4. CASE j # i - 1
    <3>1. j \in 1..((i - 1) - 1)
      BY <1>3, <2>4
    <3>2. ts[w[j]] < ts[w[i - 1]]
      BY <1>8, <2>1, <3>1
    <3> QED BY <1>3, <1>7, <2>1, <2>2, <3>2
  <2> QED BY <2>3, <2>4
\* ... the younger ones behind it: no other has its timestamp.
<1>11. ASSUME NEW j \in i..Len(w) PROVE j \in 1..Len(w) /\ ts[t] < ts[w[j]]
  <2>1. j \in 1..Len(w) /\ w[j] \in Thread /\ w[j] # t
    BY <1>3, <1>9
  <2>2. ts[w[j]] >= ts[t] /\ ts[w[j]] # ts[t]
    BY <1>2, <2>1 DEF TsInv
  <2> QED BY <1>7, <2>1, <2>2
<1>12. ASSUME NEW a \in 1..Len(r)
       PROVE  ts[owner[p]] < ts[r[a]] /\ \A b \in 1..(a - 1) : ts[r[b]] < ts[r[a]]
  <2>0. a \in 1..(Len(w) + 1)
    BY <1>4
  <2>1. CASE a < i
    <3>1. a \in 1..Len(w) /\ r[a] = w[a]
      BY <1>3, <1>4, <2>0, <2>1
    <3>2. \A b \in 1..(a - 1) : r[b] = w[b]
      BY <1>3, <1>4, <2>0, <2>1
    <3> QED BY <1>8, <3>1, <3>2
  <2>2. CASE a = i
    <3>1. r[a] = t
      BY <1>4, <2>0, <2>2
    <3>2. \A b \in 1..(a - 1) : r[b] = w[b] /\ b \in 1..(i - 1)
      BY <1>3, <1>4, <2>0, <2>2
    <3> QED BY <1>1, <1>10, <3>1, <3>2
  <2>3. CASE a > i
    <3>1. r[a] = w[a - 1] /\ a - 1 \in i..Len(w) /\ a - 1 \in 1..Len(w)
      BY <1>3, <1>4, <2>0, <2>3
    <3>2. ts[owner[p]] < ts[r[a]]
      BY <1>8, <3>1
    <3>3. ASSUME NEW b \in 1..(a - 1) PROVE ts[r[b]] < ts[r[a]]
      <4>1. CASE b < i
        <5>1. r[b] = w[b] /\ b \in 1..((a - 1) - 1)
          BY <1>3, <1>4, <2>0, <2>3, <4>1
        <5> QED BY <1>8, <3>1, <5>1
      <4>2. CASE b = i
        <5>1. r[b] = t
          BY <1>3, <1>4, <2>0, <4>2
        <5> QED BY <1>11, <3>1, <5>1
      <4>3. CASE b > i
        <5>1. r[b] = w[b - 1] /\ b - 1 \in 1..((a - 1) - 1)
          BY <1>3, <1>4, <2>0, <2>3, <4>3
        <5> QED BY <1>8, <3>1, <5>1
      <4> QED BY <2>0, <4>1, <4>2, <4>3
    <3> QED BY <3>2, <3>3
  <2> QED BY <2>0, <2>1, <2>2, <2>3
<1>13. OrderInv'
  <2> SUFFICES ASSUME NEW q \in Part, NEW a \in 1..Len(waiters'[q])
               PROVE  /\ owner'[q] # NoOwner /\ ts'[owner'[q]] < ts'[waiters'[q][a]]
                      /\ \A b \in 1..(a - 1) : ts'[waiters'[q][b]] < ts'[waiters'[q][a]]
    BY DEF OrderInv
  <2>1. CASE q = p
    BY <1>1, <1>6, <1>12, <2>1
  <2>2. CASE q # p
    BY <1>1, <1>6, <2>2 DEF OrderInv
  <2> QED BY <2>1, <2>2
<1>14. \A u \in Thread, q \in Part :
         Contains(waiters'[q], u) <=> Contains(waiters[q], u) \/ (u = t /\ q = p)
  BY <1>5, <1>6 DEF w
<1>15. /\ p \notin Queues(t) /\ Queues(t)' = Queues(t) \cup {p}
       /\ \A u \in Thread : u # t => Queues(u)' = Queues(u)
  BY <1>14 DEF Queues, Holds
<1>16. ReadyInv'
  <2>1. Cardinality(Queues(t)') = Cardinality(Queues(t)) + 1
    BY <1>15, EnterQueue
  <2>2. \A u \in Thread : ready'[u] = IF u = t THEN ready[u] + 1 ELSE ready[u]
    BY <1>1 DEF TypeInv
  <2> QED BY <1>15, <2>1, <2>2 DEF ReadyInv
<1>17. \A u \in Thread, q \in Part : Holds(u, q)' <=> Holds(u, q) \/ (u = t /\ q = p)
  BY <1>1, <1>14 DEF Holds
<1> QED BY <1>13, <1>15, <1>16, <1>17

\* The owner leaves a partition nobody waits for.
LEMMA FreeEffect ==
  ASSUME TypeInv, OrderInv, ReadyInv, NEW t \in Thread, NEW p \in Part,
         owner[p] = t, waiters[p] = <<>>, owner' = [owner EXCEPT ![p] = NoOwner],
         UNCHANGED <<waiters, ready, ts>>
  PROVE  /\ OrderInv' /\ ReadyInv' /\ \A u \in Thread : Queues(u)' = Queues(u)
         /\ \A u \in Thread, q \in Part : Holds(u, q)' <=> Holds(u, q) /\ ~(u = t /\ q = p)
<1>1. \A q \in Part : owner'[q] = IF q = p THEN NoOwner ELSE owner[q]
  BY DEF TypeInv
<1>2. \A i \in 1..Len(waiters[p]) : FALSE
  BY EmptySeq
<1>3. OrderInv'
  BY <1>1, <1>2 DEF OrderInv
<1>4. \A u \in Thread : Queues(u)' = Queues(u)
  BY DEF Queues
<1>5. ReadyInv'
  BY <1>4 DEF ReadyInv
<1>6. \A u \in Thread, q \in Part : Holds(u, q)' <=> Holds(u, q) /\ ~(u = t /\ q = p)
  <2>1. \A u : ~Contains(waiters[p], u)
    BY <1>2 DEF Contains
  <2> QED BY <1>1, <2>1, PartLockAssumption DEF Holds
<1> QED BY <1>3, <1>4, <1>5, <1>6

\* The owner leaves, and the oldest waiter becomes the owner.
LEMMA PassEffect ==
  ASSUME TypeInv, OrderInv, ReadyInv, NEW t \in Thread, NEW p \in Part,
         owner[p] = t, waiters[p] # <<>>, owner' = [owner EXCEPT ![p] = Head(waiters[p])],
         waiters' = [waiters EXCEPT ![p] = Tail(@)],
         ready' = [ready EXCEPT ![Head(waiters[p])] = @ - 1], UNCHANGED ts
  PROVE  /\ OrderInv' /\ ReadyInv' /\ \A u \in Thread : Queues(u)' \subseteq Queues(u)
         /\ \A u \in Thread, q \in Part : Holds(u, q)' <=> Holds(u, q) /\ ~(u = t /\ q = p)
<1> DEFINE w == waiters[p]
           r == Tail(w)
<1>1. /\ \A i, j \in 1..Len(w) : w[i] = w[j] => i = j
      /\ \A i \in 1..Len(w) : w[i] \in Thread /\ w[i] # t
      /\ w \in Seq(Thread)
  BY WaitersDistinct
<1>0. PICK h \in Thread : h = Head(w)
  BY <1>1, TailElements
<1>2. /\ Len(w) \in Nat \ {0} /\ Len(r) = Len(w) - 1
      /\ h = w[1] /\ \A i \in 1..(Len(w) - 1) : r[i] = w[i + 1]
      /\ \A u : Contains(w, u) <=> u = h \/ Contains(r, u)
  BY <1>0, <1>1, TailElements
<1>3. /\ \A q \in Part : owner'[q] = IF q = p THEN h ELSE owner[q]
      /\ \A q \in Part : waiters'[q] = IF q = p THEN r ELSE waiters[q]
      /\ \A u \in Thread : ready'[u] = IF u = h THEN ready[u] - 1 ELSE ready[u]
  BY <1>0 DEF TypeInv
<1>4. \A i \in 1..Len(w) : \A j \in 1..(i - 1) : ts[w[j]] < ts[w[i]]
  BY DEF OrderInv
<1>5. h # NoOwner
  BY <1>2, PartLockAssumption
<1>6. ~Contains(w, t)
  BY <1>1 DEF Contains
<1> HIDE DEF w, r
<1>7. ASSUME NEW a \in 1..Len(r)
      PROVE  ts[h] < ts[r[a]] /\ \A b \in 1..(a - 1) : ts[r[b]] < ts[r[a]]
  <2>1. a + 1 \in 1..Len(w) /\ r[a] = w[a + 1] /\ 1 \in 1..((a + 1) - 1)
    BY <1>2
  <2>2. \A b \in 1..(a - 1) : r[b] = w[b + 1] /\ b + 1 \in 1..((a + 1) - 1)
    BY <1>2
  <2> QED BY <1>2, <1>4, <2>1, <2>2
<1>8. OrderInv'
  <2> SUFFICES ASSUME NEW q \in Part, NEW a \in 1..Len(waiters'[q])
               PROVE  /\ owner'[q] # NoOwner /\ ts'[owner'[q]] < ts'[waiters'[q][a]]
                      /\ \A b \in 1..(a - 1) : ts'[waiters'[q][b]] < ts'[waiters'[q][a]]
    BY DEF OrderInv
  <2>1. CASE q = p
    BY <1>3, <1>5, <1>7, <2>1
  <2>2. CASE q # p
    BY <1>3, <2>2 DEF OrderInv
  <2> QED BY <2>1, <2>2
<1>9. ~Contains(r, h)
  <2> SUFFICES ASSUME NEW i \in 1..Len(r), r[i] = h PROVE FALSE
    BY DEF Contains
  <2>1. i + 1 \in 1..Len(w) /\ 1 \in 1..Len(w) /\ i + 1 # 1 /\ r[i] = w[i + 1]
    BY <1>2
  <2> QED BY <1>1, <1>2, <2>1
<1>10. \A u \in Thread, q \in Part : Contains(waiters'[q], u) <=> Contains(waiters[q], u) /\ ~(u = h /\ q = p)
  BY <1>2, <1>3, <1>9 DEF w
<1>11. /\ p \in Queues(h) /\ Queues(h)' = Queues(h) \ {p}
       /\ \A u \in Thread : u # h => Queues(u)' = Queues(u)
  BY <1>2, <1>10 DEF Queues, w
<1>12. ReadyInv'
  <2>1. Cardinality(Queues(h)') = Cardinality(Queues(h)) - 1
    BY <1>2, <1>11, LeaveQueue
  <2>2. ready'[h] = Cardinality(Queues(h)')
    BY <1>3, <2>1 DEF ReadyInv
  <2>3. \A u \in Thread : u # h => ready'[u] = Cardinality(Queues(u)')
    BY <1>3, <1>11 DEF ReadyInv
  <2> QED BY <2>2, <2>3 DEF ReadyInv
<1>13. \A u \in Thread, q \in Part : Holds(u, q)' <=> Holds(u, q) /\ ~(u = t /\ q = p)
  BY <1>2, <1>3, <1>6, <1>10 DEF Holds, w
<1>14. \A u \in Thread : Queues(u)' \subseteq Queues(u)
  BY <1>11
<1> QED BY <1>8, <1>12, <1>13, <1>14

\* A waiter leaves the queue.
LEMMA LeaveEffect ==
  ASSUME TypeInv, OrderInv, ReadyInv, NEW t \in Thread, NEW p \in Part, NEW i \in 1..Len(waiters[p]),
         owner[p] # t, waiters[p][i] = t, waiters' = [waiters EXCEPT ![p] = RemoveAt(@, i)],
         ready' = [ready EXCEPT ![t] = @ - 1], UNCHANGED <<owner, ts>>
  PROVE  /\ OrderInv' /\ ReadyInv' /\ \A u \in Thread : Queues(u)' \subseteq Queues(u)
         /\ \A u \in Thread, q \in Part : Holds(u, q)' <=> Holds(u, q) /\ ~(u = t /\ q = p)
<1> DEFINE w == waiters[p]
           r == RemoveAt(w, i)
<1>1. /\ \A a, b \in 1..Len(w) : w[a] = w[b] => a = b
      /\ \A a \in 1..Len(w) : w[a] \in Thread
      /\ w \in Seq(Thread) /\ Len(w) \in Nat
  BY WaitersDistinct
<1>2. /\ Len(r) = Len(w) - 1
      /\ \A j \in 1..(Len(w) - 1) : r[j] = IF j < i THEN w[j] ELSE w[j + 1]
  <2> HIDE DEF w
  <2> QED BY <1>1, RemoveAtProperties DEF w
<1>3. \A u : Contains(r, u) <=> Contains(w, u) /\ u # t
  <2>1. \A j \in 1..Len(w) : w[j] = w[i] => j = i
    BY <1>1
  <2> QED BY <1>1, <2>1, RemoveContains
<1>4. /\ \A q \in Part : waiters'[q] = IF q = p THEN r ELSE waiters[q]
      /\ \A u \in Thread : ready'[u] = IF u = t THEN ready[u] - 1 ELSE ready[u]
  BY DEF TypeInv
<1>5. /\ \A j \in 1..Len(w) : owner[p] # NoOwner /\ ts[owner[p]] < ts[w[j]]
      /\ \A j \in 1..Len(w) : \A l \in 1..(j - 1) : ts[w[l]] < ts[w[j]]
  BY DEF OrderInv
<1>6. Contains(w, t) /\ i \in 1..Len(w)
  BY DEF Contains
<1> HIDE DEF w, r
<1>7. ASSUME NEW a \in 1..Len(r)
      PROVE  /\ owner[p] # NoOwner /\ ts[owner[p]] < ts[r[a]]
             /\ \A b \in 1..(a - 1) : ts[r[b]] < ts[r[a]]
  <2>1. PICK j \in 1..Len(w) : r[a] = w[j] /\ j = (IF a < i THEN a ELSE a + 1)
    BY <1>1, <1>2
  <2>2. ASSUME NEW b \in 1..(a - 1) PROVE ts[r[b]] < ts[r[a]]
    <3>1. b \in 1..(Len(w) - 1)
      BY <1>1, <1>2
    <3>2. PICK l \in 1..Len(w) : r[b] = w[l] /\ l = (IF b < i THEN b ELSE b + 1)
      BY <1>1, <1>2, <3>1
    <3>3. l \in 1..(j - 1)
      BY <1>1, <1>6, <2>1, <3>2
    <3> QED BY <1>5, <2>1, <3>2, <3>3
  <2> QED BY <1>5, <2>1, <2>2
<1>8. OrderInv'
  <2> SUFFICES ASSUME NEW q \in Part, NEW a \in 1..Len(waiters'[q])
               PROVE  /\ owner'[q] # NoOwner /\ ts'[owner'[q]] < ts'[waiters'[q][a]]
                      /\ \A b \in 1..(a - 1) : ts'[waiters'[q][b]] < ts'[waiters'[q][a]]
    BY DEF OrderInv
  <2>1. CASE q = p
    BY <1>4, <1>7, <2>1
  <2>2. CASE q # p
    BY <1>4, <2>2 DEF OrderInv
  <2> QED BY <2>1, <2>2
<1>9. \A u \in Thread, q \in Part : Contains(waiters'[q], u) <=> Contains(waiters[q], u) /\ ~(u = t /\ q = p)
  BY <1>3, <1>4 DEF w
<1>10. /\ p \in Queues(t) /\ Queues(t)' = Queues(t) \ {p}
       /\ \A u \in Thread : u # t => Queues(u)' = Queues(u)
  BY <1>6, <1>9 DEF Queues, w
<1>11. ReadyInv'
  <2>1. Cardinality(Queues(t)') = Cardinality(Queues(t)) - 1
    BY <1>10, LeaveQueue
  <2>2. ready'[t] = Cardinality(Queues(t)')
    BY <1>4, <2>1 DEF ReadyInv
  <2>3. \A u \in Thread : u # t => ready'[u] = Cardinality(Queues(u)')
    BY <1>4, <1>10 DEF ReadyInv
  <2> QED BY <2>2, <2>3 DEF ReadyInv
<1>12. \A u \in Thread, q \in Part : Holds(u, q)' <=> Holds(u, q) /\ ~(u = t /\ q = p)
  BY <1>9 DEF Holds
<1>13. \A u \in Thread : Queues(u)' \subseteq Queues(u)
  BY <1>10
<1> QED BY <1>8, <1>11, <1>12, <1>13

\* PartMan::unlock takes the thread from the partition, and only it and only there.
LEMMA UnlockEffect ==
  ASSUME TypeInv, OrderInv, ReadyInv, NEW t \in Thread, NEW p \in Part, Unlock(t, p), UNCHANGED ts
  PROVE  /\ OrderInv' /\ ReadyInv' /\ \A u \in Thread : Queues(u)' \subseteq Queues(u)
         /\ \A u \in Thread, q \in Part : Holds(u, q)' <=> Holds(u, q) /\ ~(u = t /\ q = p)
<1>1. CASE owner[p] = t /\ waiters[p] = <<>>
  <2>1. owner' = [owner EXCEPT ![p] = NoOwner] /\ UNCHANGED <<waiters, ready>>
    BY <1>1 DEF Unlock
  <2> QED BY <1>1, <2>1, FreeEffect
<1>2. CASE owner[p] = t /\ waiters[p] # <<>>
  <2>1. /\ owner' = [owner EXCEPT ![p] = Head(waiters[p])] /\ waiters' = [waiters EXCEPT ![p] = Tail(@)]
        /\ ready' = [ready EXCEPT ![Head(waiters[p])] = @ - 1]
    BY <1>2 DEF Unlock
  <2> QED BY <1>2, <2>1, PassEffect
<1>3. CASE owner[p] # t
  <2>1. PICK i \in DOMAIN waiters[p] : waiters[p][i] = t /\ waiters' = [waiters EXCEPT ![p] = RemoveAt(@, i)]
    BY <1>3 DEF Unlock
  <2>2. i \in 1..Len(waiters[p])
    BY WaitersDistinct, LenProperties
  <2>3. ready' = [ready EXCEPT ![t] = @ - 1] /\ owner' = owner
    BY <1>3 DEF Unlock
  <2> QED BY <1>3, <2>1, <2>2, <2>3, LeaveEffect
<1> QED BY <1>1, <1>2, <1>3

-----------------------------------------------------------------------------
(***************************************************************************)
(* The lock and unlock loops: what a thread holds is what it has claimed.  *)
(***************************************************************************)
LEMMA InitLocks == Init => LockInv
<1> SUFFICES ASSUME Init PROVE LockInv
  OBVIOUS
<1>1. \A p \in Part : waiters[p] = <<>> /\ owner[p] = NoOwner
  BY DEF Init, PartInit
<1>2. \A p \in Part : Len(waiters[p]) = 0
  BY <1>1
<1>3. \A t \in Thread, p \in Part : ~Holds(t, p)
  BY <1>1, <1>2, PartLockAssumption DEF Holds, Contains
<1>4. \A t \in Thread, p \in Part : ~Claims(t, p)
  BY DEF Init, Claims
<1>5. \A t \in Thread : Queues(t) = {}
  BY <1>3 DEF Queues, Holds
<1>6. \A t \in Thread : Cardinality(Queues(t)) = 0
  BY <1>5, FS_EmptySet
<1>7. OrderInv
  BY <1>2 DEF OrderInv
<1>8. ReadyInv
  BY <1>6 DEF ReadyInv, Init, PartInit
<1> QED BY <1>3, <1>4, <1>5, <1>7, <1>8 DEF LockInv, ClaimInv, RunInv

LEMMA SameClaims ==
  ASSUME NEW u \in Thread, Same(u), NEW q \in Part
  PROVE  Claims(u, q)' <=> Claims(u, q)
  BY DEF Same, Claims, PartsOf

\* A partition that the loop asks for is claimed with the step, ...
LEMMA LockClaims ==
  ASSUME TypeInv, QueryInv, NEW t \in Thread, pc[t] = "lock", UNCHANGED <<parts, m_query>>,
         k' = [k EXCEPT ![t] = @ + 1],
         pc' = [pc EXCEPT ![t] = IF k[t] = Len(PartsOf(t)) THEN "wait" ELSE "lock"]
  PROVE  /\ ~Claims(t, PartsOf(t)[k[t]])
         /\ \A q \in Part : Claims(t, q)' <=> Claims(t, q) \/ q = PartsOf(t)[k[t]]
<1> DEFINE s == PartsOf(t)
           n == Len(s)
<1>1. /\ n \in Nat /\ k[t] \in 1..n /\ PartsOf(t)' = s
      /\ \A i, j \in 1..n : s[i] = s[j] => i = j
  BY PartsOfType DEF QueryInv, QueryOf, Busy, PartsOf
<1>2. k'[t] = k[t] + 1 /\ pc'[t] = IF k[t] = n THEN "wait" ELSE "lock"
  BY DEF TypeInv
<1> HIDE DEF s
<1>3. \A q : Claims(t, q) <=> \E i \in 1..n : s[i] = q /\ i < k[t]
  BY DEF Claims, s
<1>4. ~Claims(t, s[k[t]])
  BY <1>1, <1>3
<1>5. \A q : Claims(t, q)' <=> \E i \in 1..n : s[i] = q /\ i < k[t] + 1
  <2>1. CASE k[t] = n
    <3>1. \A q : Claims(t, q)' <=> \E i \in 1..n : s[i] = q
      BY <1>1, <1>2, <2>1 DEF Claims
    <3>2. \A i \in 1..n : i < k[t] + 1
      BY <1>1, <2>1
    <3> QED BY <3>1, <3>2
  <2>2. CASE k[t] # n
    BY <1>1, <1>2, <2>2 DEF Claims
  <2> QED BY <2>1, <2>2
<1>6. \A i \in 1..n : i < k[t] + 1 <=> i < k[t] \/ i = k[t]
  BY <1>1
<1> QED BY <1>1, <1>3, <1>4, <1>5, <1>6 DEF s

\* ... and one that it gives back is not claimed after it.
LEMMA UnlockClaims ==
  ASSUME TypeInv, QueryInv, NEW t \in Thread, UNCHANGED <<parts, m_query, fail>>,
         k' = [k EXCEPT ![t] = @ + 1],
         \/ pc[t] = "back" /\ pc' = pc /\ k[t] < fail[t]
         \/ /\ pc[t] = "unlock"
            /\ pc' = [pc EXCEPT ![t] = IF k[t] = Len(PartsOf(t)) THEN "commit" ELSE "unlock"]
  PROVE  \A q \in Part : Claims(t, q)' <=> Claims(t, q) /\ q # PartsOf(t)[k[t]]
<1> DEFINE s == PartsOf(t)
           n == Len(s)
<1>1. /\ n \in Nat /\ PartsOf(t)' = s
      /\ \A i, j \in 1..n : s[i] = s[j] => i = j
  BY PartsOfType DEF Busy, PartsOf
<1>2. /\ pc[t] = "unlock" => k[t] \in 1..n
      /\ pc[t] = "back" => k[t] \in 1..fail[t] /\ fail[t] \in 1..n
  BY DEF QueryInv, QueryOf
<1>3. k'[t] = k[t] + 1 /\ k[t] \in Nat /\ fail[t] \in Nat /\ fail'[t] = fail[t]
  BY DEF TypeInv
<1>4. k[t] \in 1..n
  BY <1>1, <1>2, <1>3
<1> HIDE DEF s
<1>5. CASE pc[t] = "back" /\ pc' = pc /\ k[t] < fail[t]
  <2>1. \A q : Claims(t, q) <=> \E i \in 1..n : s[i] = q /\ k[t] <= i /\ i < fail[t]
    BY <1>5 DEF Claims, s
  <2>2. \A q : Claims(t, q)' <=> \E i \in 1..n : s[i] = q /\ k[t] + 1 <= i /\ i < fail[t]
    BY <1>1, <1>3, <1>5 DEF Claims
  <2>3. \A i \in 1..n : k[t] + 1 <= i <=> k[t] <= i /\ i # k[t]
    BY <1>3
  <2> QED BY <1>1, <1>4, <2>1, <2>2, <2>3 DEF s
<1>6. CASE /\ pc[t] = "unlock"
           /\ pc' = [pc EXCEPT ![t] = IF k[t] = Len(PartsOf(t)) THEN "commit" ELSE "unlock"]
  <2>0. pc'[t] = IF k[t] = n THEN "commit" ELSE "unlock"
    BY <1>6 DEF TypeInv, s
  <2>1. \A q : Claims(t, q) <=> \E i \in 1..n : s[i] = q /\ k[t] <= i
    BY <1>6 DEF Claims, s
  <2>2. \A q : Claims(t, q)' <=> \E i \in 1..n : s[i] = q /\ k[t] + 1 <= i
    <3>1. CASE k[t] = n
      <4>1. \A q : ~Claims(t, q)'
        BY <2>0, <3>1 DEF Claims
      <4>2. \A i \in 1..n : ~(k[t] + 1 <= i)
        BY <1>1, <3>1
      <4> QED BY <4>1, <4>2
    <3>2. CASE k[t] # n
      BY <1>1, <1>3, <2>0, <3>2 DEF Claims
    <3> QED BY <3>1, <3>2
  <2>3. \A i \in 1..n : k[t] + 1 <= i <=> k[t] <= i /\ i # k[t]
    BY <1>3
  <2> QED BY <1>1, <1>4, <2>1, <2>2, <2>3 DEF s
<1> QED BY <1>5, <1>6

\* The steps that leave the locks alone claim and give back nothing.
LEMMA OtherClaims ==
  ASSUME TypeInv, QueryInv, NEW t \in Thread,
         \/ GenerateTxn(t) \/ GetNextTs(t) \/ WaitReady(t) \/ RunTxn(t) \/ AbortTxn(t) \/ ErrorTxn(t) \/ CommitTxn(t)
         \/ Elapse(t)
  PROVE  \A q \in Part : Claims(t, q)' <=> Claims(t, q)
<1>1. CASE GenerateTxn(t) \/ AbortTxn(t) \/ ErrorTxn(t) \/ CommitTxn(t)
  <2>1. pc[t] \in {"gen", "abort", "commit"} /\ pc'[t] \in {"ts", "gen", "finished"}
    BY <1>1 DEF GenerateTxn, AbortTxn, ErrorTxn, CommitTxn, Goto, TypeInv
  <2> QED BY <2>1 DEF Claims
<1>2. CASE GetNextTs(t)
  <2>1. pc[t] = "ts" /\ pc'[t] = "lock" /\ k'[t] = 1
    BY <1>2 DEF GetNextTs, Goto, TypeInv
  <2>2. \A q : \A i \in 1..Len(PartsOf(t)') : ~(i < 1)
    BY <2>1
  <2> QED BY <2>1, <2>2 DEF Claims
<1>3. CASE WaitReady(t)
  <2>1. pc[t] = "wait" /\ pc'[t] = "run" /\ PartsOf(t)' = PartsOf(t)
    BY <1>3 DEF WaitReady, Goto, TypeInv, PartsOf, loopVars
  <2> QED BY <2>1 DEF Claims
<1>4. CASE RunTxn(t)
  <2>1. pc[t] = "run" /\ pc'[t] = "unlock" /\ PartsOf(t)' = PartsOf(t) /\ k'[t] = 1
    BY <1>4 DEF RunTxn, Goto, TypeInv, PartsOf, loopVars
  <2>2. \A i \in 1..Len(PartsOf(t)) : 1 <= i
    OBVIOUS
  <2> QED BY <2>1, <2>2 DEF Claims
<1>5. CASE Elapse(t)
  BY <1>5 DEF Elapse, Claims, PartsOf
<1> QED BY <1>1, <1>2, <1>3, <1>4, <1>5

\* A new timestamp is drawn only by a thread that holds nothing.
LEMMA OrderByTs ==
  ASSUME TypeInv, OrderInv, NEW t \in Thread, \A q \in Part : ~Holds(t, q),
         UNCHANGED <<owner, waiters>>, \A u \in Thread : u # t => ts'[u] = ts[u]
  PROVE  OrderInv'
<1> SUFFICES ASSUME NEW p \in Part, NEW i \in 1..Len(waiters[p])
             PROVE  /\ owner[p] # NoOwner /\ ts'[owner[p]] < ts'[waiters[p][i]]
                    /\ \A j \in 1..(i - 1) : ts'[waiters[p][j]] < ts'[waiters[p][i]]
  BY DEF OrderInv
<1>1. \A j \in 1..Len(waiters[p]) : waiters[p][j] \in Thread /\ waiters[p][j] # t
  BY WaitersDistinct DEF Holds, Contains
<1>2. owner[p] # NoOwner /\ owner[p] \in Thread /\ owner[p] # t
  BY DEF OrderInv, TypeInv, Holds
<1>3. \A j \in 1..(i - 1) : j \in 1..Len(waiters[p])
  BY WaitersDistinct
<1> QED BY <1>1, <1>2, <1>3 DEF OrderInv

LEMMA NextLocks ==
  ASSUME TypeInv, QueryInv, TsInv, LockInv, NEW t \in Thread, Step(t) \/ Elapse(t)
  PROVE  LockInv'
<1> USE DEF LockInv
<1>0. \A u \in Thread : u # t => Same(u)
  BY StepIsLocal
\* It is enough to see what the step does to the queues and to its own claims.
<1>1. ASSUME OrderInv', ReadyInv',
             \A u \in Thread : u # t => Queues(u)' \subseteq Queues(u),
             pc'[t] \in {"run", "unlock"} => Queues(t)' = {},
             \A u \in Thread, q \in Part : u # t => (Holds(u, q)' <=> Holds(u, q)),
             \A q \in Part : Holds(t, q)' <=> Claims(t, q)'
      PROVE  LockInv'
  <2>1. ClaimInv'
    <3> SUFFICES ASSUME NEW u \in Thread, NEW q \in Part PROVE Holds(u, q)' <=> Claims(u, q)'
      BY DEF ClaimInv
    <3>1. CASE u = t
      BY <1>1, <3>1
    <3>2. CASE u # t
      <4>1. Holds(u, q)' <=> Holds(u, q)
        BY <1>1, <3>2
      <4>2. Claims(u, q)' <=> Claims(u, q)
        BY <1>0, <3>2, SameClaims
      <4> QED BY <4>1, <4>2 DEF ClaimInv
    <3> QED BY <3>1, <3>2
  <2>2. RunInv'
    BY <1>0, <1>1 DEF RunInv, Same
  <2> QED BY <1>1, <2>1, <2>2
<1>2. CASE LockPart(t)
  <2> DEFINE p == PartsOf(t)[k[t]]
  <2>1. UNCHANGED <<ts, parts, m_query>> /\ pc[t] = "lock"
    BY <1>2 DEF LockPart, loopVars, tsVars
  <2>2. p \in Part /\ k[t] \in 1..Len(PartsOf(t)) /\ ts[t] # 0
    BY <2>1, PartsOfType DEF QueryInv, QueryOf, Busy, TsInv
  <2>2a. PICK x \in Part : x = p
    BY <2>2
  <2>3. CASE (Granted(t, p) \/ Queued(t, p)) /\ k' = [k EXCEPT ![t] = @ + 1]
             /\ pc' = [pc EXCEPT ![t] = IF k[t] = Len(PartsOf(t)) THEN "wait" ELSE "lock"]
    <3>1. ~Claims(t, x) /\ \A q \in Part : Claims(t, q)' <=> Claims(t, q) \/ q = x
      BY <2>1, <2>2a, <2>3, LockClaims
    <3>2. ~Holds(t, x)
      BY <3>1 DEF ClaimInv
    <3>3. /\ OrderInv' /\ ReadyInv' /\ \A u \in Thread : u # t => Queues(u)' = Queues(u)
          /\ \A u \in Thread, q \in Part : Holds(u, q)' <=> Holds(u, q) \/ (u = t /\ q = x)
      BY <2>1, <2>2, <2>2a, <2>3, <3>2, GrantedEffect, QueuedEffect
    <3>4. pc'[t] \notin {"run", "unlock"}
      BY <2>3 DEF TypeInv
    <3> QED BY <1>1, <3>1, <3>3, <3>4 DEF ClaimInv
  <2>4. CASE Refused(t, p) /\ pc' = [pc EXCEPT ![t] = "back"] /\ fail' = [fail EXCEPT ![t] = k[t]]
             /\ k' = [k EXCEPT ![t] = 1]
    <3>1. UNCHANGED <<owner, waiters, ready>>
      BY <2>4 DEF Refused, partVars
    <3>2. /\ pc'[t] = "back" /\ k'[t] = 1 /\ fail'[t] = k[t] /\ PartsOf(t)' = PartsOf(t)
      BY <2>1, <2>4 DEF TypeInv, PartsOf
    <3>3. \A i \in 1..Len(PartsOf(t)) : 1 <= i
      OBVIOUS
    <3>4. \A q \in Part : Claims(t, q)' <=> Claims(t, q)
      BY <2>1, <3>2, <3>3 DEF Claims
    <3>5. \A u \in Thread : Queues(u)' = Queues(u) /\ \A q \in Part : Holds(u, q)' <=> Holds(u, q)
      BY <3>1 DEF Queues, Holds
    <3>6. OrderInv' /\ ReadyInv'
      BY <2>1, <3>1, <3>5 DEF OrderInv, ReadyInv
    <3> QED BY <1>1, <3>2, <3>4, <3>5, <3>6 DEF ClaimInv
  <2> QED BY <1>2, <2>3, <2>4 DEF LockPart, Goto
<1>3. CASE UnlockBack(t) \/ UnlockPart(t)
  <2> DEFINE p == PartsOf(t)[k[t]]
  <2>1. UNCHANGED <<ts, parts, m_query, fail>> /\ pc[t] \in {"back", "unlock"}
    BY <1>3 DEF UnlockBack, UnlockPart, loopVars, tsVars
  <2>2. CASE /\ Unlock(t, p) /\ k' = [k EXCEPT ![t] = @ + 1]
             /\ \/ pc[t] = "back" /\ pc' = pc /\ k[t] < fail[t]
                \/ /\ pc[t] = "unlock"
                   /\ pc' = [pc EXCEPT ![t] = IF k[t] = Len(PartsOf(t)) THEN "commit" ELSE "unlock"]
    <3>1. k[t] \in 1..Len(PartsOf(t)) /\ \A i \in 1..Len(PartsOf(t)) : PartsOf(t)[i] \in Part
      <4>1. QueryOf(t) /\ Len(PartsOf(t)) \in Nat /\ \A i \in 1..Len(PartsOf(t)) : PartsOf(t)[i] \in Part
        BY <2>1, PartsOfType DEF Busy, QueryInv
      <4> QED BY <2>1, <4>1 DEF QueryOf
    <3>2. PICK x \in Part : x = p
      BY <3>1
    <3>3. \A q \in Part : Claims(t, q)' <=> Claims(t, q) /\ q # x
      BY <2>1, <2>2, <3>2, UnlockClaims
    <3>4. /\ OrderInv' /\ ReadyInv' /\ \A u \in Thread : Queues(u)' \subseteq Queues(u)
          /\ \A u \in Thread, q \in Part : Holds(u, q)' <=> Holds(u, q) /\ ~(u = t /\ q = x)
      BY <2>1, <2>2, <3>2, UnlockEffect
    <3>5. pc'[t] \in {"run", "unlock"} => Queues(t)' = {}
      <4>1. pc'[t] \in {"run", "unlock"} => pc[t] \in {"run", "unlock"}
        BY <2>2 DEF TypeInv
      <4> QED BY <3>4, <4>1 DEF RunInv
    <3> QED BY <1>1, <3>3, <3>4, <3>5 DEF ClaimInv
  <2>3. CASE k[t] = fail[t] /\ pc[t] = "back" /\ pc' = [pc EXCEPT ![t] = "abort"] /\ UNCHANGED <<owner, waiters, ready>>
    <3>1. pc'[t] = "abort" /\ k[t] \in Nat
      BY <2>3 DEF TypeInv
    <3>2. \A i \in 1..Len(PartsOf(t)) : ~(k[t] <= i /\ i < fail[t])
      BY <2>3, <3>1
    <3>3. \A q \in Part : ~Claims(t, q) /\ ~Claims(t, q)'
      BY <2>3, <3>1, <3>2 DEF Claims
    <3>4. \A u \in Thread : Queues(u)' = Queues(u) /\ \A q \in Part : Holds(u, q)' <=> Holds(u, q)
      BY <2>3 DEF Queues, Holds
    <3>5. OrderInv' /\ ReadyInv'
      BY <2>1, <2>3, <3>4 DEF OrderInv, ReadyInv
    <3> QED BY <1>1, <3>1, <3>3, <3>4, <3>5 DEF ClaimInv
  <2> QED BY <1>3, <2>2, <2>3 DEF UnlockBack, UnlockPart, Goto, partVars
<1>4. CASE \/ GenerateTxn(t) \/ GetNextTs(t) \/ WaitReady(t) \/ RunTxn(t) \/ AbortTxn(t) \/ ErrorTxn(t) \/ CommitTxn(t)
           \/ Elapse(t)
  <2>1. UNCHANGED <<owner, waiters, ready>>
    BY <1>4 DEF GenerateTxn, GetNextTs, WaitReady, RunTxn, AbortTxn, ErrorTxn, CommitTxn, Elapse, partVars
  <2>2. \A q \in Part : Claims(t, q)' <=> Claims(t, q)
    BY <1>4, OtherClaims
  <2>3. \A u \in Thread : Queues(u)' = Queues(u) /\ \A q \in Part : Holds(u, q)' <=> Holds(u, q)
    BY <2>1 DEF Queues, Holds
  <2>4. ReadyInv'
    BY <2>1, <2>3 DEF ReadyInv
  <2>5. OrderInv'
    <3>1. CASE GetNextTs(t)
      <4>1. \A q \in Part : ~Holds(t, q)
        BY <3>1 DEF GetNextTs, ClaimInv, Claims
      <4> QED BY <1>0, <2>1, <4>1, OrderByTs DEF Same
    <3>2. CASE ~GetNextTs(t)
      <4>1. ts' = ts
        BY <1>4, <3>2 DEF GenerateTxn, WaitReady, RunTxn, AbortTxn, ErrorTxn, CommitTxn, Elapse, tsVars
      <4> QED BY <2>1, <4>1 DEF OrderInv
    <3> QED BY <3>1, <3>2
  <2>6. pc'[t] \in {"run", "unlock"} => Queues(t)' = {}
    <3>1. CASE WaitReady(t)
      <4>1. Cardinality(Queues(t)) = 0
        BY <3>1 DEF WaitReady, ReadyInv
      <4> QED BY <2>3, <4>1, QueuesFinite, FS_EmptySet
    <3>2. CASE RunTxn(t) \/ Elapse(t)
      BY <2>3, <3>2 DEF RunTxn, Elapse, RunInv
    <3>3. CASE GenerateTxn(t) \/ GetNextTs(t) \/ AbortTxn(t) \/ ErrorTxn(t) \/ CommitTxn(t)
      BY <3>3 DEF GenerateTxn, GetNextTs, AbortTxn, ErrorTxn, CommitTxn, Goto, TypeInv
    <3> QED BY <1>4, <3>1, <3>2, <3>3
  <2> QED BY <1>1, <2>2, <2>3, <2>4, <2>5, <2>6 DEF ClaimInv
<1> QED BY <1>2, <1>3, <1>4 DEF Step

-----------------------------------------------------------------------------
(***************************************************************************)
(* The theorems.                                                           *)
(***************************************************************************)
LEMMA StutterKeeps == WorkerInv /\ UNCHANGED vars => WorkerInv'
<1> SUFFICES ASSUME WorkerInv, UNCHANGED vars PROVE WorkerInv'
  OBVIOUS
<1> USE DEF WorkerInv, vars, partVars, tsVars, loopVars
<1>1. TypeInv'
  BY DEF TypeInv
<1>2. QueryInv' /\ SlotInv'
  BY DEF QueryInv, QueryOf, SlotInv, SlotOf, PartsOf, Kept
<1>3. TsInv'
  BY DEF TsInv, Left
<1>4. LockInv'
  BY DEF LockInv, OrderInv, ReadyInv, ClaimInv, RunInv, Holds, Claims, Queues, PartsOf
<1> QED BY <1>1, <1>2, <1>3, <1>4

\* Every state of the worker threads and their partition locks satisfies the
\* inductive invariant.
THEOREM WorkerInvariant == Spec => []WorkerInv
<1>1. Init => WorkerInv
  BY InitTypes, InitSlots, InitTs, InitLocks DEF WorkerInv
<1>2. WorkerInv /\ [Next]_vars => WorkerInv'
  <2> SUFFICES ASSUME WorkerInv, [Next]_vars PROVE WorkerInv'
    OBVIOUS
  <2>1. ASSUME NEW t \in Thread, Step(t) \/ Elapse(t) PROVE WorkerInv'
    BY <2>1, NextTypes, NextSlots, NextTsInv, NextLocks DEF WorkerInv
  <2>2. CASE Terminating \/ UNCHANGED vars
    BY <2>2, StutterKeeps DEF Terminating
  <2> QED BY <2>1, <2>2 DEF Next
<1> QED BY <1>1, <1>2, PTL DEF Spec

\* At every partition each waiter is younger than the owner and than the waiter
\* before it: PartMan's queues never form a cycle, and unlock's assertion holds.
THEOREM Waiting == Spec => []WaitsForOlder
<1>1. WorkerInv => WaitsForOlder
  <2> SUFFICES ASSUME WorkerInv, NEW p \in Part, NEW i \in DOMAIN waiters[p]
               PROVE  /\ owner[p] # NoOwner /\ ts[owner[p]] < ts[waiters[p][i]]
                      /\ i > 1 => ts[waiters[p][i - 1]] < ts[waiters[p][i]]
    BY DEF WaitsForOlder
  <2>1. waiters[p] \in Seq(Thread)
    BY DEF WorkerInv, TypeInv
  <2>2. i \in 1..Len(waiters[p]) /\ (i > 1 => i - 1 \in 1..(i - 1))
    BY <2>1, LenProperties
  <2> QED BY <2>2 DEF WorkerInv, LockInv, OrderInv
<1> QED BY <1>1, WorkerInvariant, PTL

\* A transaction runs only with all its partitions, and its counter ready_part
\* is the number of queues it is in.
THEOREM Ownership == Spec => []PartitionsOwned
<1>1. WorkerInv => PartitionsOwned
  <2> SUFFICES ASSUME WorkerInv, NEW t \in Thread
               PROVE  /\ pc[t] = "run" => \A i \in DOMAIN PartsOf(t) : owner[PartsOf(t)[i]] = t
                      /\ ready[t] = Cardinality({p \in Part : Contains(waiters[p], t)})
    BY DEF PartitionsOwned
  <2>1. ASSUME pc[t] = "run", NEW i \in DOMAIN PartsOf(t) PROVE owner[PartsOf(t)[i]] = t
    <3>1. PartsOf(t) \in Seq(Part) /\ \A j \in 1..Len(PartsOf(t)) : PartsOf(t)[j] \in Part
      BY <2>1, PartsOfType DEF WorkerInv, Busy
    <3>2. i \in 1..Len(PartsOf(t))
      BY <3>1, LenProperties
    <3>3. PICK p \in Part : p = PartsOf(t)[i]
      BY <3>1, <3>2
    <3>4. Claims(t, p)
      BY <2>1, <3>2, <3>3 DEF Claims
    <3>5. Holds(t, p) /\ p \notin Queues(t)
      BY <2>1, <3>4 DEF WorkerInv, LockInv, ClaimInv, RunInv
    <3> QED BY <3>3, <3>5 DEF Holds, Queues
  <2>2. ready[t] = Cardinality({p \in Part : Contains(waiters[p], t)})
    BY DEF WorkerInv, LockInv, ReadyInv, Queues
  <2> QED BY <2>1, <2>2
<1> QED BY <1>1, WorkerInvariant, PTL

\* No query is lost or doubled, the free slots of the abort buffer are counted
\* right, an abort finds one, and the query array is not overrun.
THEOREM Queries == Spec => []QueriesKept
<1>1. WorkerInv => QueriesKept
  <2> SUFFICES ASSUME WorkerInv, Buffered, NEW t \in Thread
               PROVE  /\ q_idx[t] = txn_cnt[t] + Cardinality(Kept(t)) + (IF m_query[t] = Nil THEN 0 ELSE 1)
                      /\ slots[t] = BufferSize - Cardinality(Kept(t))
                      /\ pc[t] = "abort" => slots[t] > 0
                      /\ q_idx[t] <= MaxTxn + BufferSize
    BY DEF QueriesKept, Kept
  <2>1. SlotOf(t) /\ QueryOf(t)
    BY DEF WorkerInv, SlotInv, QueryInv
  <2> DEFINE c == Cardinality(Kept(t))
  <2>2. c \in Nat /\ c <= BufferSize /\ BufferSize \in Nat /\ MaxTxn \in Nat /\ txn_cnt[t] \in Nat
    BY KeptFinite, WorkerAssumption DEF WorkerInv, TypeInv
  <2>3. /\ q_idx[t] = txn_cnt[t] + c + (IF m_query[t] = Nil THEN 0 ELSE 1) /\ slots[t] = BufferSize - c
        /\ pc[t] \in Busy \/ m_query[t] # Nil => slots[t] > 0
        /\ txn_cnt[t] <= MaxTxn
    BY <2>1 DEF SlotOf
  <2> HIDE DEF c
  <2>4. q_idx[t] <= MaxTxn + BufferSize
    <3>1. CASE m_query[t] = Nil
      BY <2>2, <2>3, <3>1
    <3>2. CASE m_query[t] # Nil
      BY <2>2, <2>3, <3>2
    <3> QED BY <3>1, <3>2
  <2> QED BY <2>3, <2>4 DEF c, Busy
<1> QED BY <1>1, WorkerInvariant, PTL

=============================================================================
