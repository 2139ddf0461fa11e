---------------------------- MODULE RowLockProofs ----------------------------
(***************************************************************************)
(* Proofs about RowLock for any threads, rows and queries, any choice of   *)
(* algorithms and any bound on the attempts.                               *)
(***************************************************************************)
EXTENDS RowLock, SeqLemmas

-----------------------------------------------------------------------------
(***************************************************************************)
(* The operators the lock lists are built with.                            *)
(***************************************************************************)
\* The waiters without an entry are waiters.
LEMMA WithoutEntryType ==
  ASSUME NEW ws \in Seq(LockEntry), NEW t
  PROVE  WithoutEntry(ws, t) \in Seq(LockEntry)
<1> DEFINE E == {i \in 1..Len(ws) : ws[i].txn = t}
<1>1. CASE E = {}
  BY <1>1 DEF WithoutEntry
<1>2. CASE E # {}
  <2>1. Min(E) \in 1..Len(ws)
    <3>1. E \in SUBSET Nat
      BY LenProperties
    <3> QED BY <1>2, <3>1, MinNat
  <2> QED BY <1>2, <2>1, RemoveAtProperties DEF WithoutEntry
<1> QED BY <1>1, <1>2

\* The joining loop stops at a waiter that conflicts with the lock, having met
\* none before, or at the end of the list.
LEMMA JoiningProperties ==
  ASSUME NEW lt, NEW ws \in Seq(LockEntry)
  PROVE  /\ Joining(lt, ws) \in 0..Len(ws)
         /\ Joining(lt, ws) < Len(ws) =>
                Conflict(LockAfter(lt, ws, Joining(lt, ws)), ws[Joining(lt, ws) + 1].type)
         /\ \A m \in 0..(Joining(lt, ws) - 1) :
                ~Conflict(LockAfter(lt, ws, m), ws[m + 1].type)
<1> DEFINE Stop == {n \in 0..Len(ws) :
                      n < Len(ws) => Conflict(LockAfter(lt, ws, n), ws[n + 1].type)}
<1>1. Len(ws) \in Nat
  BY LenProperties
<1>2. Stop \in SUBSET Nat /\ Len(ws) \in Stop
  BY <1>1
<1>3. Min(Stop) \in Stop /\ \A y \in Stop : Min(Stop) <= y
  BY <1>2, MinNat
<1>4. Joining(lt, ws) = Min(Stop)
  BY DEF Joining
<1>5. \A m \in 0..(Min(Stop) - 1) : m \in 0..Len(ws) /\ m < Len(ws) /\ m \notin Stop
  <2>1. SUFFICES ASSUME NEW m \in 0..(Min(Stop) - 1)
                 PROVE  m \in 0..Len(ws) /\ m < Len(ws) /\ m \notin Stop
    OBVIOUS
  <2>2. Min(Stop) \in 0..Len(ws)
    BY <1>3
  <2>3. m \in 0..Len(ws) /\ m < Len(ws) /\ ~(Min(Stop) <= m)
    BY <1>1, <2>2
  <2> QED BY <1>3, <2>3, Zenon
<1>6. \A m \in 0..Len(ws) : m < Len(ws) /\ m \notin Stop =>
          ~Conflict(LockAfter(lt, ws, m), ws[m + 1].type)
  OBVIOUS
<1>7. Min(Stop) \in 0..Len(ws) /\ (Min(Stop) < Len(ws) =>
          Conflict(LockAfter(lt, ws, Min(Stop)), ws[Min(Stop) + 1].type))
  BY <1>3
<1> HIDE DEF Stop
<1> QED BY <1>4, <1>5, <1>6, <1>7

-----------------------------------------------------------------------------
(***************************************************************************)
(* Types.                                                                  *)
(***************************************************************************)
\* Where a transaction stands in its query and in its loops.
CountersOK(t) ==
    /\ pc[t] \in {"granted", "wait", "giveup"} => Len(accesses[t]) < Len(query[t])
    /\ pc[t] = "write" => Len(accesses[t]) > 0
    /\ pc[t] = "cleanup" => rid[t] <= Len(accesses[t])
    /\ pc[t] = "release" => rid[t] \in 1..Len(accesses[t])

CounterInv == \A t \in Thread : CountersOK(t)

TypeInv == TypeOK /\ CounterInv

\* The initial state satisfies TypeInv.
LEMMA InitTypeInv == Init => TypeInv
<1>1. <<>> \in Seq(Access) /\ <<>> \in Seq(LockEntry)
  OBVIOUS
<1> QED BY <1>1 DEF Init, TypeInv, TypeOK, CounterInv, CountersOK, PC, LockType, InitValue

\* The request a transaction is serving is well formed.
LEMMA RequestType ==
  ASSUME TypeOK, NEW t \in Thread, Len(accesses[t]) < Len(query[t])
  PROVE  /\ CurrentRequest(t).type \in {"RD", "WR"}
         /\ RequestRow(t) \in Row
         /\ RequestLock(t) \in {"LOCK_SH", "LOCK_EX"}
<1>1. Len(accesses[t]) \in Nat
  BY LenProperties DEF TypeOK
<1>2. query[t] \in Seq(Request)
  BY QueryAssumption DEF TypeOK
<1>3. Len(accesses[t]) + 1 \in 1..Len(query[t])
  BY <1>1, <1>2, LenProperties
<1>4. CurrentRequest(t) \in Request
  BY <1>2, <1>3, LenProperties DEF CurrentRequest
<1> QED BY <1>4 DEF Request, RequestRow, RequestLock, LockFor

\* The accesses of a transaction are accesses.
LEMMA AccessType ==
  ASSUME TypeOK, NEW t \in Thread, NEW i \in 1..Len(accesses[t])
  PROVE  accesses[t][i].row \in Row /\ accesses[t][i].orig_data \in Nat
<1>1. accesses[t] \in Seq(Access)
  BY DEF TypeOK
<1>2. accesses[t][i] \in Access
  BY <1>1, LenProperties
<1> QED BY <1>2 DEF Access

\* A new waiter is put somewhere in the list, or after it.
LEMMA QueuePositionType ==
  ASSUME TypeOK, NEW t \in Thread, NEW r \in Row
  PROVE  QueuePosition(t, r) \in 1..(Len(waiters[r]) + 1)
<1> DEFINE N == {i \in 1..Len(waiters[r]) : ~(ts[t] < ts[waiters[r][i].txn])}
<1>1. Len(waiters[r]) \in Nat
  BY LenProperties DEF TypeOK
<1>2. N \in SUBSET Nat
  BY <1>1
<1>3. N # {} => Min(N) \in 1..Len(waiters[r])
  BY <1>2, MinNat
<1>4. QueuePosition(t, r) = IF alg = "WAIT_DIE" /\ N # {} THEN Min(N)
                            ELSE Len(waiters[r]) + 1
  BY DEF QueuePosition
<1> HIDE DEF N
<1> QED BY <1>1, <1>3, <1>4

\* The lock as it stands once n waiters have joined.
LEMMA LockAfterType ==
  ASSUME NEW lt \in LockType, NEW ws \in Seq(LockEntry), NEW n \in 0..Len(ws)
  PROVE  LockAfter(lt, ws, n) \in LockType
<1>1. n # 0 => ws[n] \in LockEntry
  BY LenProperties
<1> QED BY <1>1 DEF LockAfter, LockEntry, LockType

\* lock_release keeps the types of the lock lists.
LEMMA LockReleaseType ==
  ASSUME TypeOK, NEW t \in Thread, NEW r \in Row, LockRelease(t, r)
  PROVE  /\ owners' \in [Row -> SUBSET Thread]
         /\ waiters' \in [Row -> Seq(LockEntry)]
         /\ lock_type' \in [Row -> LockType]
         /\ lock_ready' \in [Thread -> BOOLEAN]
<1> DEFINE own == owners[r] \ {t}
           ws == IF t \in owners[r] THEN waiters[r] ELSE WithoutEntry(waiters[r], t)
           lt == IF own = {} THEN "LOCK_NONE" ELSE lock_type[r]
           n == Joining(lt, ws)
           joined == {ws[i].txn : i \in 1..n}
<1>1. own \in SUBSET Thread /\ lt \in LockType
  BY DEF TypeOK, LockType
<1>2. waiters[r] \in Seq(LockEntry)
  BY DEF TypeOK
<1>3. ws \in Seq(LockEntry)
  BY <1>2, WithoutEntryType
<1>4. /\ owners' = [owners EXCEPT ![r] = own \cup joined]
      /\ waiters' = [waiters EXCEPT ![r] = SubSeq(ws, n + 1, Len(ws))]
      /\ lock_type' = [lock_type EXCEPT ![r] = LockAfter(lt, ws, n)]
      /\ lock_ready' = [u \in Thread |-> u \in joined \/ lock_ready[u]]
  BY DEF LockRelease
<1> HIDE DEF own, ws, lt
<1>5. n \in 0..Len(ws) /\ Len(ws) \in Nat
  BY <1>3, JoiningProperties, LenProperties
<1> HIDE DEF n
<1>6. \A i \in 1..Len(ws) : ws[i] \in LockEntry /\ ws[i].txn \in Thread
  <2>1. \A i \in 1..Len(ws) : ws[i] \in LockEntry
    BY <1>3, LenProperties
  <2> QED BY <2>1 DEF LockEntry
<1>7. joined \in SUBSET Thread
  BY <1>5, <1>6
<1>8. SubSeq(ws, n + 1, Len(ws)) \in Seq(LockEntry)
  <2>1. \A i \in (n + 1)..Len(ws) : ws[i] \in LockEntry
    BY <1>5, <1>6
  <2> QED BY <1>5, <2>1, SubSeqProperties
<1>9. LockAfter(lt, ws, n) \in LockType
  BY <1>1, <1>3, <1>5, LockAfterType
<1> HIDE DEF joined
<1>10. \A u \in Thread : (u \in joined \/ lock_ready[u]) \in BOOLEAN
  OBVIOUS
<1>11. lock_ready' \in [Thread -> BOOLEAN]
  BY <1>4, <1>10
<1> QED BY <1>1, <1>4, <1>7, <1>8, <1>9, <1>11 DEF TypeOK

\* Every step of a transaction keeps the types, given that its counters index
\* the sequences they run over.
LEMMA StepTypeOK ==
  ASSUME TypeOK, CounterInv, NEW t \in Thread, Step(t)
  PROVE  TypeOK'
<1> USE DEF TypeOK, PC
<1>1. CASE Begin(t)
  BY <1>1 DEF Begin, lockVars
<1>2. CASE LockGranted(t)
  <2>1. RequestRow(t) \in Row /\ RequestLock(t) \in LockType
    BY <1>2, RequestType DEF LockGranted, HasRequest, LockType
  <2> QED BY <1>2, <2>1 DEF LockGranted
<1>3. CASE LockWait(t)
  <2>1. RequestRow(t) \in Row /\ [txn |-> t, type |-> RequestLock(t)] \in LockEntry
    BY <1>3, RequestType DEF LockWait, HasRequest, LockEntry
  <2>2. InsertAt(waiters[RequestRow(t)], QueuePosition(t, RequestRow(t)),
                 [txn |-> t, type |-> RequestLock(t)]) \in Seq(LockEntry)
    BY <2>1, QueuePositionType, InsertAtProperties
  <2> QED BY <1>3, <2>1, <2>2 DEF LockWait
<1>4. CASE LockRefused(t)
  BY <1>4, LenProperties DEF LockRefused, lockVars
<1>5. CASE WaitReady(t)
  BY <1>5 DEF WaitReady, lockVars
<1>6. CASE WaitTimeout(t)
  BY <1>6 DEF WaitTimeout, lockVars
<1>7. CASE WaitAbort(t)
  BY <1>7 DEF WaitAbort, lockVars
<1>8. CASE GiveUp(t)
  <2>1. RequestRow(t) \in Row
    BY <1>8, RequestType DEF GiveUp, CounterInv, CountersOK
  <2>2. /\ owners' \in [Row -> SUBSET Thread]
        /\ waiters' \in [Row -> Seq(LockEntry)]
        /\ lock_type' \in [Row -> LockType]
        /\ lock_ready' \in [Thread -> BOOLEAN]
    BY <1>8, <2>1, LockReleaseType DEF GiveUp
  <2> QED BY <1>8, <2>2, LenProperties DEF GiveUp
<1>9. CASE TakeAccess(t)
  <2> DEFINE a == [row |-> RequestRow(t), type |-> CurrentRequest(t).type,
                   orig_data |-> data[RequestRow(t)]]
  <2>1. a \in Access
    BY <1>9, RequestType DEF TakeAccess, CounterInv, CountersOK, Access
  <2>2. accesses' = [accesses EXCEPT ![t] = Append(accesses[t], a)]
    BY <1>9 DEF TakeAccess
  <2>3. accesses' \in [Thread -> Seq(Access)]
    BY <2>1, <2>2
  <2> QED BY <1>9, <2>3 DEF TakeAccess, lockVars
<1>10. CASE WriteRow(t)
  <2>1. Len(accesses[t]) \in 1..Len(accesses[t])
    BY <1>10, LenProperties DEF WriteRow, CounterInv, CountersOK
  <2>2. NewValue(accesses[t][Len(accesses[t])].orig_data) \in Nat
    BY <2>1, AccessType DEF NewValue
  <2> QED BY <1>10, <2>2 DEF WriteRow, lockVars
<1>11. CASE Finish(t)
  BY <1>11, LenProperties DEF Finish, lockVars
<1>12. CASE ReturnRow(t)
  <2>1. rid[t] \in 1..Len(accesses[t])
    BY <1>12, LenProperties DEF ReturnRow, CounterInv, CountersOK
  <2>2. accesses[t][rid[t]].orig_data \in Nat
    BY <2>1, AccessType
  <2> QED BY <1>12, <2>2 DEF ReturnRow, lockVars
<1>13. CASE ReleaseRow(t)
  <2>1. rid[t] \in 1..Len(accesses[t]) /\ rid[t] - 1 \in Nat
    BY <1>13, LenProperties DEF ReleaseRow, CounterInv, CountersOK
  <2>2. accesses[t][rid[t]].row \in Row
    BY <2>1, AccessType
  <2>3. /\ owners' \in [Row -> SUBSET Thread]
        /\ waiters' \in [Row -> Seq(LockEntry)]
        /\ lock_type' \in [Row -> LockType]
        /\ lock_ready' \in [Thread -> BOOLEAN]
    BY <1>13, <2>2, LockReleaseType DEF ReleaseRow
  <2> QED BY <1>13, <2>1, <2>3 DEF ReleaseRow
<1>14. CASE EndTxn(t)
  BY <1>14 DEF EndTxn, lockVars
<1> QED BY <1>1, <1>2, <1>3, <1>4, <1>5, <1>6, <1>7, <1>8, <1>9, <1>10, <1>11,
           <1>12, <1>13, <1>14 DEF Step

\* A step changes the counters of its own transaction only.
LEMMA OtherTxns ==
  ASSUME TypeOK, NEW t \in Thread, NEW u \in Thread, u # t, Step(t)
  PROVE  /\ pc'[u] = pc[u] /\ accesses'[u] = accesses[u]
         /\ query'[u] = query[u] /\ rid'[u] = rid[u]
  BY DEF TypeOK, Step, Begin, LockGranted, LockWait, LockRefused, WaitReady,
         WaitTimeout, WaitAbort, GiveUp, TakeAccess, WriteRow, Finish, ReturnRow,
         ReleaseRow, EndTxn

\* Every step of a transaction keeps its counters in range.
LEMMA StepCounterInv ==
  ASSUME TypeOK, CounterInv, NEW t \in Thread, Step(t)
  PROVE  CounterInv'
<1>1. \A u \in Thread \ {t} : CountersOK(u)'
  BY OtherTxns DEF CounterInv, CountersOK
<1>2. CountersOK(t)
  BY DEF CounterInv
<1>3. Len(accesses[t]) \in Nat /\ rid[t] \in Nat /\ accesses[t] \in Seq(Access)
  BY LenProperties DEF TypeOK
<1>4. CountersOK(t)'
  <2> USE DEF CountersOK, TypeOK
  <2>1. CASE Begin(t)
    BY <2>1 DEF Begin
  <2>2. CASE LockGranted(t)
    BY <2>2 DEF LockGranted, HasRequest
  <2>3. CASE LockWait(t)
    BY <2>3 DEF LockWait, HasRequest
  <2>4. CASE LockRefused(t)
    BY <1>3, <2>4 DEF LockRefused
  <2>5. CASE WaitReady(t)
    BY <1>2, <2>5 DEF WaitReady
  <2>6. CASE WaitTimeout(t)
    BY <1>2, <2>6 DEF WaitTimeout
  <2>7. CASE WaitAbort(t)
    BY <1>2, <2>7 DEF WaitAbort
  <2>8. CASE GiveUp(t)
    BY <1>3, <2>8 DEF GiveUp
  <2>9. CASE TakeAccess(t)
    <3> DEFINE a == [row |-> RequestRow(t), type |-> CurrentRequest(t).type,
                     orig_data |-> data[RequestRow(t)]]
    <3>1. a \in Access
      BY <1>2, <2>9, RequestType DEF TakeAccess, Access
    <3>2. accesses'[t] = Append(accesses[t], a) /\ pc'[t] \in {"write", "run"}
      BY <2>9 DEF TakeAccess
    <3> HIDE DEF a
    <3>3. Len(accesses'[t]) > 0
      BY <1>3, <3>1, <3>2, AppendProperties
    <3> QED BY <3>2, <3>3
  <2>10. CASE WriteRow(t)
    BY <2>10 DEF WriteRow
  <2>11. CASE Finish(t)
    BY <1>3, <2>11 DEF Finish
  <2>12. CASE ReturnRow(t)
    BY <1>2, <1>3, <2>12 DEF ReturnRow
  <2>13. CASE ReleaseRow(t)
    BY <1>2, <1>3, <2>13 DEF ReleaseRow
  <2>14. CASE EndTxn(t)
    BY <2>14 DEF EndTxn
  <2> QED BY <2>1, <2>2, <2>3, <2>4, <2>5, <2>6, <2>7, <2>8, <2>9, <2>10, <2>11,
             <2>12, <2>13, <2>14 DEF Step
<1> QED BY <1>1, <1>4 DEF CounterInv

\* TypeInv is inductive.
LEMMA TypeInvStep == TypeInv /\ [Next]_vars => TypeInv'
<1> SUFFICES ASSUME TypeInv, [Next]_vars
             PROVE  TypeInv'
  OBVIOUS
<1>1. ASSUME NEW t \in Thread, Step(t)
      PROVE  TypeInv'
  BY <1>1, StepTypeOK, StepCounterInv DEF TypeInv
<1>2. CASE UNCHANGED vars
  BY <1>2 DEF vars, TypeInv, TypeOK, CounterInv, CountersOK
<1> QED BY <1>1, <1>2 DEF Next, Terminated

\* The lock manager's and the transactions' state keep their types: in
\* particular no loop of lock_get, lock_release or cleanup runs off its list.
THEOREM Typing == Spec => []TypeOK
<1>1. TypeInv => TypeOK
  BY DEF TypeInv
<1> QED BY <1>1, InitTypeInv, TypeInvStep, PTL DEF Spec

-----------------------------------------------------------------------------
(***************************************************************************)
(* The lock of one row.  WaitersBlocked is not inductive: what a release   *)
(* and a new waiter keep is that the head of the list conflicts with the   *)
(* lock, and the others follow from the head.                              *)
(***************************************************************************)
\* A lock type describes a set of owners.
Describes(lt, own) ==
    /\ own = {} <=> lt = "LOCK_NONE"
    /\ lt = "LOCK_EX" => \E u \in Thread : own = {u}

OwnersOK(r) == Describes(lock_type[r], owners[r])

HeadBlocked(r) ==
    Len(waiters[r]) > 0 => Conflict(lock_type[r], waiters[r][1].type)

LockInv == TypeInv /\ \A r \in Row : OwnersOK(r) /\ HeadBlocked(r)

\* The type of a waiter's request is a real lock type.
LEMMA WaiterType ==
  ASSUME NEW ws \in Seq(LockEntry), NEW i \in 1..Len(ws)
  PROVE  ws[i].txn \in Thread /\ ws[i].type \in {"LOCK_SH", "LOCK_EX"}
<1>1. ws[i] \in LockEntry
  BY LenProperties
<1> QED BY <1>1 DEF LockEntry

\* Waiters that join leave a set of owners the lock type describes: an exclusive
\* waiter joins only an empty set, and then nobody joins after it.
LEMMA JoinedOwnersOK ==
  ASSUME NEW own \in SUBSET Thread, NEW lt \in LockType, NEW ws \in Seq(LockEntry),
         Describes(lt, own),
         NEW n \in 0..Len(ws), n = Joining(lt, ws),
         NEW all \in SUBSET Thread,
         \A x : x \in all <=> x \in own \/ \E i \in 1..n : x = ws[i].txn
  PROVE  Describes(LockAfter(lt, ws, n), all)
<1> USE DEF Describes
<1>1. Len(ws) \in Nat
  BY LenProperties
<1>2. CASE n = 0
  BY <1>2 DEF LockAfter
<1>3. CASE n # 0
  <2>1. n \in 1..Len(ws) /\ n - 1 \in 0..(n - 1)
    BY <1>1, <1>3
  <2>2. ws[n].txn \in Thread /\ ws[n].type \in {"LOCK_SH", "LOCK_EX"}
    BY <2>1, WaiterType
  <2>3. ws[n].txn \in all /\ LockAfter(lt, ws, n) = ws[n].type
    BY <1>3, <2>1 DEF LockAfter
  <2>4. ASSUME ws[n].type = "LOCK_EX"
        PROVE  \E u \in Thread : all = {u}
    <3>1. ~Conflict(LockAfter(lt, ws, n - 1), ws[(n - 1) + 1].type)
      BY <2>1, JoiningProperties
    <3>2. (n - 1) + 1 = n
      BY <2>1
    <3>3. LockAfter(lt, ws, n - 1) = "LOCK_NONE"
      BY <2>4, <3>1, <3>2 DEF Conflict
    <3>4. n - 1 = 0
      <4>1. SUFFICES ASSUME n - 1 # 0 PROVE FALSE
        OBVIOUS
      <4>2. n - 1 \in 1..Len(ws)
        BY <1>1, <2>1, <4>1
      <4>3. ws[n - 1].type # "LOCK_NONE"
        BY <4>2, WaiterType
      <4> QED BY <3>3, <4>1, <4>3 DEF LockAfter
    <3>5. lt = "LOCK_NONE" /\ n = 1
      BY <2>1, <3>3, <3>4 DEF LockAfter
    <3>6. all = {ws[1].txn}
      BY <3>5
    <3> QED BY <2>2, <3>5, <3>6
  <2> QED BY <2>2, <2>3, <2>4
<1> QED BY <1>2, <1>3

\* What is left of the waiters starts with one that conflicts.
LEMMA LeftHeadBlocked ==
  ASSUME NEW lt \in LockType, NEW ws \in Seq(LockEntry),
         NEW n \in 0..Len(ws), n = Joining(lt, ws),
         NEW rest, rest = SubSeq(ws, n + 1, Len(ws)), Len(rest) > 0
  PROVE  Conflict(LockAfter(lt, ws, n), rest[1].type)
<1>1. Len(ws) \in Nat /\ \A i \in (n + 1)..Len(ws) : ws[i] \in LockEntry
  BY LenProperties
<1>2. /\ Len(rest) = IF n + 1 <= Len(ws) THEN Len(ws) - (n + 1) + 1 ELSE 0
      /\ \A i \in 1..(Len(ws) - (n + 1) + 1) : rest[i] = ws[(n + 1) + i - 1]
  BY <1>1, SubSeqProperties
<1>3. n < Len(ws) /\ rest[1] = ws[n + 1]
  BY <1>1, <1>2
<1>4. Conflict(LockAfter(lt, ws, n), ws[n + 1].type)
  BY <1>3, JoiningProperties
<1> QED BY <1>3, <1>4

\* lock_release keeps the lock of the row consistent and leaves others alone.
LEMMA LockReleaseInv ==
  ASSUME LockInv, NEW t \in Thread, NEW r \in Row, LockRelease(t, r), NEW s \in Row
  PROVE  OwnersOK(s)' /\ HeadBlocked(s)'
<1> DEFINE own == owners[r] \ {t}
           ws == IF t \in owners[r] THEN waiters[r] ELSE WithoutEntry(waiters[r], t)
           lt == IF own = {} THEN "LOCK_NONE" ELSE lock_type[r]
           n == Joining(lt, ws)
           all == own \cup {ws[i].txn : i \in 1..n}
           rest == SubSeq(ws, n + 1, Len(ws))
<1>1. TypeOK /\ OwnersOK(s) /\ HeadBlocked(s) /\ OwnersOK(r)
  BY DEF LockInv, TypeInv
<1>2. /\ owners' = [owners EXCEPT ![r] = all]
      /\ waiters' = [waiters EXCEPT ![r] = rest]
      /\ lock_type' = [lock_type EXCEPT ![r] = LockAfter(lt, ws, n)]
  BY DEF LockRelease
<1>3. own \in SUBSET Thread /\ lt \in LockType
  BY <1>1 DEF TypeOK, LockType
<1>4. ws \in Seq(LockEntry)
  <2>1. waiters[r] \in Seq(LockEntry)
    BY <1>1 DEF TypeOK
  <2> QED BY <2>1, WithoutEntryType
<1>5. Describes(lt, own)
  BY <1>1 DEF OwnersOK, Describes
<1> HIDE DEF own, ws, lt
<1>6. n \in 0..Len(ws)
  BY <1>4, JoiningProperties
<1>7. CASE s = r
  <2>0. /\ n = Joining(lt, ws)
        /\ \A x : x \in all <=> x \in own \/ \E i \in 1..n : x = ws[i].txn
        /\ all \in SUBSET Thread
    BY <1>3, <1>4, <1>6, WaiterType, LenProperties
  <2> HIDE DEF n, all
  <2>1. Describes(LockAfter(lt, ws, n), all)
    BY <1>3, <1>4, <1>5, <1>6, <2>0, JoinedOwnersOK
  <2>2. Len(rest) > 0 => Conflict(LockAfter(lt, ws, n), rest[1].type)
    BY <1>3, <1>4, <1>6, <2>0, LeftHeadBlocked
  <2> HIDE DEF rest
  <2>3. owners'[s] = all /\ waiters'[s] = rest /\ lock_type'[s] = LockAfter(lt, ws, n)
    BY <1>1, <1>2, <1>7 DEF TypeOK
  <2> QED BY <2>1, <2>2, <2>3 DEF OwnersOK, HeadBlocked
<1>8. CASE s # r
  <2> HIDE DEF all, rest, n
  <2>1. owners'[s] = owners[s] /\ waiters'[s] = waiters[s] /\ lock_type'[s] = lock_type[s]
    BY <1>1, <1>2, <1>8 DEF TypeOK
  <2> QED BY <1>1, <2>1 DEF OwnersOK, HeadBlocked
<1> QED BY <1>7, <1>8

\* A request that is granted at once is compatible with the owners, and leaves
\* the head of the waiters blocked.
LEMMA LockGrantedInv ==
  ASSUME LockInv, NEW t \in Thread, LockGranted(t), NEW s \in Row
  PROVE  OwnersOK(s)' /\ HeadBlocked(s)'
<1> DEFINE r == RequestRow(t)
           lk == RequestLock(t)
<1>1. TypeOK /\ OwnersOK(s) /\ HeadBlocked(s)
  BY DEF LockInv, TypeInv
<1>2. r \in Row /\ lk \in {"LOCK_SH", "LOCK_EX"}
  BY <1>1, RequestType DEF LockGranted, HasRequest
<1>3. ~Conflict(lock_type[r], lk)
  BY DEF LockGranted, MustWait
<1>4. /\ owners' = [owners EXCEPT ![r] = @ \cup {t}]
      /\ lock_type' = [lock_type EXCEPT ![r] = lk]
      /\ waiters' = waiters
  BY DEF LockGranted
<1> HIDE DEF r, lk
<1>5. CASE s = r
  <2>1. owners'[s] = owners[s] \cup {t} /\ lock_type'[s] = lk /\ waiters'[s] = waiters[s]
    BY <1>1, <1>2, <1>4, <1>5 DEF TypeOK
  <2>2. lk = "LOCK_EX" => owners[s] = {}
    BY <1>1, <1>3, <1>5 DEF OwnersOK, Describes, Conflict
  <2>3. OwnersOK(s)'
    BY <1>2, <2>1, <2>2 DEF OwnersOK, Describes
  <2>4. HeadBlocked(s)'
    BY <1>1, <1>2, <1>3, <1>5, <2>1 DEF HeadBlocked, Conflict
  <2> QED BY <2>3, <2>4
<1>6. CASE s # r
  <2>1. owners'[s] = owners[s] /\ lock_type'[s] = lock_type[s] /\ waiters'[s] = waiters[s]
    BY <1>1, <1>2, <1>4, <1>6 DEF TypeOK
  <2> QED BY <1>1, <2>1 DEF OwnersOK, HeadBlocked
<1> QED BY <1>5, <1>6

\* A transaction that becomes the head of the waiters is there because it
\* conflicts: one that waits for its age only is put behind the head.
LEMMA NewHeadConflicts ==
  ASSUME TypeOK, NEW t \in Thread, NEW r \in Row, NEW lk,
         MustWait(t, r, lk), QueuePosition(t, r) = 1
  PROVE  Conflict(lock_type[r], lk)
<1> DEFINE N == {i \in 1..Len(waiters[r]) : ~(ts[t] < ts[waiters[r][i].txn])}
<1>1. waiters[r] \in Seq(LockEntry) /\ Len(waiters[r]) \in Nat
  BY LenProperties DEF TypeOK
<1>2. CASE waiters[r] = <<>>
  BY <1>2 DEF MustWait
<1>3. CASE waiters[r] # <<>>
  <2>1. Len(waiters[r]) # 0
    BY <1>1, <1>3
  <2>2. alg = "WAIT_DIE" /\ N # {} /\ Min(N) = 1
    BY <1>1, <2>1 DEF QueuePosition
  <2>3. N \in SUBSET Nat
    BY <1>1
  <2>4. 1 \in N
    BY <2>2, <2>3, MinNat
  <2>5. ~(ts[t] < ts[waiters[r][1].txn])
    BY <2>4
  <2> QED BY <2>2, <2>5 DEF MustWait
<1> QED BY <1>2, <1>3

\* A new waiter leaves the head of the list blocked.
LEMMA LockWaitInv ==
  ASSUME LockInv, NEW t \in Thread, LockWait(t), NEW s \in Row
  PROVE  OwnersOK(s)' /\ HeadBlocked(s)'
<1> DEFINE r == RequestRow(t)
           e == [txn |-> t, type |-> RequestLock(t)]
           p == QueuePosition(t, r)
<1>1. TypeOK /\ OwnersOK(s) /\ HeadBlocked(s)
  BY DEF LockInv, TypeInv
<1>2. r \in Row /\ e \in LockEntry /\ e.type = RequestLock(t)
  BY <1>1, RequestType DEF LockWait, HasRequest, LockEntry
<1>3. waiters[r] \in Seq(LockEntry) /\ Len(waiters[r]) \in Nat
  BY <1>1, <1>2, LenProperties DEF TypeOK
<1>4. p \in 1..(Len(waiters[r]) + 1)
  BY <1>1, <1>2, QueuePositionType
<1>5. InsertAt(waiters[r], p, e)[1] = IF p = 1 THEN e ELSE waiters[r][1]
  <2>1. 1 \in 1..(Len(waiters[r]) + 1) /\ ~(1 < p /\ p = 1)
    BY <1>3
  <2> HIDE DEF r, e, p
  <2> QED BY <1>2, <1>3, <1>4, <2>1, InsertAtProperties
<1>6. p = 1 => Conflict(lock_type[r], e.type)
  BY <1>1, <1>2, NewHeadConflicts DEF LockWait
<1>7. /\ waiters' = [waiters EXCEPT ![r] = InsertAt(waiters[r], p, e)]
      /\ owners' = owners /\ lock_type' = lock_type
  BY DEF LockWait
<1> HIDE DEF r, e, p
<1>8. OwnersOK(s)'
  BY <1>1, <1>7 DEF OwnersOK
<1>9. HeadBlocked(s)'
  <2>1. CASE s = r
    <3>1. waiters'[s] = InsertAt(waiters[r], p, e)
      BY <1>1, <1>2, <1>7, <2>1 DEF TypeOK
    <3>2. p # 1 => Len(waiters[r]) > 0
      BY <1>3, <1>4
    <3> QED BY <1>1, <1>5, <1>6, <1>7, <2>1, <3>1, <3>2 DEF HeadBlocked
  <2>2. CASE s # r
    BY <1>1, <1>2, <1>7, <2>2 DEF TypeOK, HeadBlocked
  <2> QED BY <2>1, <2>2
<1> QED BY <1>8, <1>9

\* LockInv is inductive.
LEMMA LockInvStep == LockInv /\ [Next]_vars => LockInv'
<1> SUFFICES ASSUME LockInv, [Next]_vars
             PROVE  LockInv'
  OBVIOUS
<1>1. TypeInv'
  BY TypeInvStep DEF LockInv
<1>2. ASSUME UNCHANGED <<owners, waiters, lock_type>>, NEW s \in Row
      PROVE  OwnersOK(s)' /\ HeadBlocked(s)'
  BY <1>2 DEF LockInv, OwnersOK, HeadBlocked
<1>3. ASSUME NEW t \in Thread, Step(t), NEW s \in Row
      PROVE  OwnersOK(s)' /\ HeadBlocked(s)'
  <2>1. CASE LockGranted(t)
    BY <2>1, LockGrantedInv
  <2>2. CASE LockWait(t)
    BY <2>2, LockWaitInv
  <2>3. CASE GiveUp(t)
    <3>1. RequestRow(t) \in Row
      BY <2>3, RequestType DEF GiveUp, LockInv, TypeInv, CounterInv, CountersOK
    <3> QED BY <2>3, <3>1, LockReleaseInv DEF GiveUp
  <2>4. CASE ReleaseRow(t)
    <3>1. accesses[t][rid[t]].row \in Row
      BY <2>4, AccessType DEF ReleaseRow, LockInv, TypeInv, CounterInv, CountersOK
    <3> QED BY <2>4, <3>1, LockReleaseInv DEF ReleaseRow
  <2>5. CASE ~(LockGranted(t) \/ LockWait(t) \/ GiveUp(t) \/ ReleaseRow(t))
    <3>1. UNCHANGED <<owners, waiters, lock_type>>
      BY <1>3, <2>5 DEF Step, lockVars, Begin, LockRefused, WaitReady, WaitTimeout,
         WaitAbort, TakeAccess, WriteRow, Finish, ReturnRow, EndTxn
    <3> QED BY <1>2, <3>1
  <2> QED BY <2>1, <2>2, <2>3, <2>4, <2>5
<1>4. ASSUME UNCHANGED vars, NEW s \in Row
      PROVE  OwnersOK(s)' /\ HeadBlocked(s)'
  BY <1>2, <1>4 DEF vars
<1> QED BY <1>1, <1>3, <1>4 DEF LockInv, Next, Terminated

\* The lock of every row stays consistent.
THEOREM LockConsistent == Spec => []LockInv
<1>1. Init => LockInv
  <2>1. Init => \A r \in Row : OwnersOK(r) /\ HeadBlocked(r)
    BY DEF Init, OwnersOK, Describes, HeadBlocked
  <2> QED BY <2>1, InitTypeInv DEF LockInv
<1> QED BY <1>1, LockInvStep, PTL DEF Spec

\* Whatever the algorithm, lock_get and lock_release never let an exclusive
\* owner share a row, and lock_type tells whether the row has owners.
THEOREM CompatibleOwners == Spec => []OwnersCompatible
<1>1. LockInv => OwnersCompatible
  <2>1. SUFFICES ASSUME LockInv, NEW r \in Row
                 PROVE  /\ owners[r] = {} <=> lock_type[r] = "LOCK_NONE"
                        /\ lock_type[r] = "LOCK_EX" => Cardinality(owners[r]) = 1
    BY DEF OwnersCompatible
  <2>2. OwnersOK(r)
    BY <2>1 DEF LockInv
  <2>3. \A u \in Thread : Cardinality({u}) = 1
    BY FS_Singleton
  <2> QED BY <2>2, <2>3 DEF OwnersOK, Describes
<1> QED BY <1>1, LockConsistent, PTL

\* No waiter is left in the list of a row it could own: lock_release never
\* forgets a grant, and lock_get makes nobody wait without a cause.
THEOREM BlockedWaiters == Spec => []WaitersBlocked
<1>1. LockInv => WaitersBlocked
  <2>1. SUFFICES ASSUME LockInv, NEW r \in Row, NEW i \in 1..Len(waiters[r]),
                        ~Conflict(lock_type[r], waiters[r][i].type)
                 PROVE  \E j \in 1..(i - 1) :
                            Conflict(waiters[r][j].type, waiters[r][i].type)
    BY DEF WaitersBlocked
  <2>2. waiters[r] \in Seq(LockEntry) /\ lock_type[r] \in LockType
    BY <2>1 DEF LockInv, TypeInv, TypeOK
  <2>3. Len(waiters[r]) \in Nat
    BY <2>2, LenProperties
  <2>4. Conflict(lock_type[r], waiters[r][1].type)
    BY <2>1, <2>3 DEF LockInv, HeadBlocked
  <2>5. 1 \in 1..(i - 1)
    BY <2>1, <2>3, <2>4
  <2>6. /\ waiters[r][1].type \in {"LOCK_SH", "LOCK_EX"}
        /\ waiters[r][i].type \in {"LOCK_SH", "LOCK_EX"}
    BY <2>2, <2>3, <2>5, WaiterType
  <2>7. Conflict(waiters[r][1].type, waiters[r][i].type)
    BY <2>1, <2>4, <2>6 DEF Conflict
  <2> QED BY <2>5, <2>7
<1> QED BY <1>1, LockConsistent, PTL

-----------------------------------------------------------------------------
(***************************************************************************)
(* The lock lists and the transactions.  A transaction takes the locks of  *)
(* its query in order and returns them in reverse, so what it holds is a   *)
(* prefix of the query: ListsMatchTxns follows from "owners are exactly    *)
(* the transactions whose prefix reaches the row" and "waiters are exactly *)
(* the transactions that wait and were not granted".                       *)
(***************************************************************************)
\* The length of that prefix.  A waiter is granted when lock_ready is set.
Waits(t) == pc[t] \in {"wait", "giveup"}
Given(t) ==
    IF pc[t] \in {"cleanup", "release"} THEN rid[t]
    ELSE IF pc[t] = "granted" \/ (Waits(t) /\ lock_ready[t]) THEN Len(accesses[t]) + 1
    ELSE Len(accesses[t])

\* The accesses are those of the query's first requests.
AccessesOK(t) ==
    /\ Len(accesses[t]) <= Len(query[t])
    /\ pc[t] = "idle" => accesses[t] = <<>>
    /\ \A i \in 1..Len(accesses[t]) :
          accesses[t][i].row = query[t][i].row /\ accesses[t][i].type = query[t][i].type

\* The owners of a row are those that were given it, in the mode they asked for.
OwnerOf(t, r) ==
    /\ t \in owners[r] <=> \E i \in 1..Given(t) : query[t][i].row = r
    /\ \A i \in 1..Given(t) :
          query[t][i].row = r => lock_type[r] = LockFor(query[t][i].type)

\* An entry in the list of a row stands for the request its transaction waits
\* with.
EntryOf(t, r) ==
    /\ Queued(t, r) <=> Waits(t) /\ ~lock_ready[t] /\ RequestRow(t) = r
    /\ \A i \in 1..Len(waiters[r]) :
          waiters[r][i].txn = t => waiters[r][i].type = RequestLock(t)

\* No transaction has two entries in a list.
Distinct(ws) == \A i, j \in 1..Len(ws) : ws[i].txn = ws[j].txn => i = j

ListInv ==
    /\ LockInv
    /\ \A t \in Thread : AccessesOK(t)
    /\ \A r \in Row : Distinct(waiters[r])
    /\ \A t \in Thread, r \in Row : OwnerOf(t, r) /\ EntryOf(t, r)

\* The requests of a query are well formed and name distinct rows.
LEMMA QueryRows ==
  ASSUME TypeOK, NEW t \in Thread
  PROVE  /\ Len(query[t]) \in Nat
         /\ \A i \in 1..Len(query[t]) : query[t][i].row \in Row /\ query[t][i].type \in {"RD", "WR"}
         /\ \A i, j \in 1..Len(query[t]) : query[t][i].row = query[t][j].row => i = j
<1>1. query[t] \in Seq(Request) /\ AccessedOnce(query[t])
  <2>1. query[t] \in Query \/ query[t] = <<>>
    BY DEF TypeOK
  <2>2. <<>> \in Seq(Request) /\ Len(<<>>) = 0
    OBVIOUS
  <2>3. AccessedOnce(<<>>)
    BY <2>2 DEF AccessedOnce
  <2> QED BY <2>1, <2>2, <2>3, QueryAssumption
<1>2. Len(query[t]) \in Nat /\ \A i \in 1..Len(query[t]) : query[t][i] \in Request
  BY <1>1, LenProperties
<1>3. ASSUME NEW i \in 1..Len(query[t]), NEW j \in 1..Len(query[t]), query[t][i].row = query[t][j].row
      PROVE  i = j
  <2>1. ~(i < j) /\ ~(j < i)
    BY <1>1, <1>3 DEF AccessedOnce
  <2> QED BY <1>2, <2>1
<1> QED BY <1>2, <1>3 DEF Request

\* What a transaction was given is a prefix of its query.
LEMMA GivenType ==
  ASSUME TypeInv, NEW t \in Thread, AccessesOK(t)
  PROVE  /\ Given(t) \in 0..Len(query[t]) /\ Len(accesses[t]) \in 0..Len(query[t])
         /\ Len(accesses[t]) \in 0..Len(accesses[t])
<1>1. Len(query[t]) \in Nat /\ Len(accesses[t]) \in Nat /\ rid[t] \in Nat
  BY QueryRows, LenProperties DEF TypeInv, TypeOK
<1>2. CountersOK(t) /\ Len(accesses[t]) <= Len(query[t])
  BY DEF TypeInv, CounterInv, AccessesOK
<1> QED BY <1>1, <1>2 DEF Given, CountersOK, Waits

\* Once a waiter joins an occupied row the lock stays as it was, and all that
\* join ask for the lock the row then has.
LEMMA JoinedModes ==
  ASSUME NEW lt \in LockType, NEW ws \in Seq(LockEntry)
  PROVE  /\ lt # "LOCK_NONE" => LockAfter(lt, ws, Joining(lt, ws)) = lt
         /\ \A i \in 1..Joining(lt, ws) : LockAfter(lt, ws, Joining(lt, ws)) = ws[i].type
<1> DEFINE n == Joining(lt, ws)
<1>1. Len(ws) \in Nat /\ \A i \in 1..Len(ws) : ws[i].type \in {"LOCK_SH", "LOCK_EX"}
  BY WaiterType, LenProperties
<1>2. n \in 0..Len(ws) /\ \A m \in 0..(n - 1) : ~Conflict(LockAfter(lt, ws, m), ws[m + 1].type)
  BY JoiningProperties
<1> HIDE DEF n
<1>3. ASSUME NEW i \in 1..n PROVE ~Conflict(LockAfter(lt, ws, i - 1), ws[i].type)
  <2>1. i - 1 \in 0..(n - 1) /\ (i - 1) + 1 = i
    BY <1>1, <1>2
  <2> QED BY <1>2, <2>1
<1>4. ASSUME NEW i \in 1..n, i # 1 PROVE ws[i].type = "LOCK_SH" /\ ws[i - 1].type = "LOCK_SH"
  <2>1. i \in 1..Len(ws) /\ i - 1 \in 1..Len(ws) /\ i - 1 # 0
    BY <1>1, <1>2, <1>4
  <2>2. ~Conflict(ws[i - 1].type, ws[i].type)
    BY <1>3, <2>1 DEF LockAfter
  <2> QED BY <1>1, <2>1, <2>2 DEF Conflict
<1>5. ASSUME NEW i \in 1..n PROVE ws[i].type = ws[n].type
  <2>1. CASE i = n
    BY <2>1
  <2>2. CASE i # n
    <3>1. n \in 1..n /\ n # 1 /\ i + 1 \in 1..n /\ i + 1 # 1 /\ (i + 1) - 1 = i
      BY <1>2, <1>1, <2>2
    <3> QED BY <1>4, <3>1
  <2> QED BY <2>1, <2>2
<1>6. ASSUME lt # "LOCK_NONE", n # 0 PROVE ws[n].type = lt
  <2>1. 1 \in 1..n /\ 1 \in 1..Len(ws) /\ 1 - 1 = 0
    BY <1>1, <1>2, <1>6
  <2>2. ~Conflict(lt, ws[1].type) /\ ws[1].type \in {"LOCK_SH", "LOCK_EX"}
    BY <1>1, <1>3, <2>1 DEF LockAfter
  <2>3. ws[1].type = lt
    BY <1>6, <2>2 DEF Conflict, LockType
  <2> QED BY <1>5, <2>1, <2>3
<1>7. LockAfter(lt, ws, n) = IF n = 0 THEN lt ELSE ws[n].type
  BY DEF LockAfter
<1>8. \A i \in 1..n : n # 0
  BY <1>2
<1> QED BY <1>5, <1>6, <1>7, <1>8 DEF n

\* A list without the transaction's entry: the others' entries, in order.
LEMMA WithoutEntryProperties ==
  ASSUME NEW ws \in Seq(LockEntry), Distinct(ws), NEW t
  PROVE  /\ WithoutEntry(ws, t) \in Seq(LockEntry) /\ Distinct(WithoutEntry(ws, t))
         /\ \A k \in 1..Len(WithoutEntry(ws, t)) :
               /\ WithoutEntry(ws, t)[k].txn # t
               /\ \E j \in 1..Len(ws) : WithoutEntry(ws, t)[k] = ws[j]
         /\ \A j \in 1..Len(ws) :
               ws[j].txn # t => \E k \in 1..Len(WithoutEntry(ws, t)) : WithoutEntry(ws, t)[k] = ws[j]
<1> DEFINE E == {i \in 1..Len(ws) : ws[i].txn = t}
           v == WithoutEntry(ws, t)
<1>1. Len(ws) \in Nat
  BY LenProperties
<1>2. CASE E = {}
  <2>1. v = ws /\ \A i \in 1..Len(ws) : ws[i].txn # t
    BY <1>2 DEF WithoutEntry
  <2> QED BY <2>1
<1>3. CASE E # {}
  <2> DEFINE p == Min(E)
  <2>1. p \in 1..Len(ws) /\ ws[p].txn = t
    <3>1. E \in SUBSET Nat
      BY <1>1
    <3>2. p \in E
      BY <1>3, <3>1, MinNat
    <3> QED BY <3>2
  <2>2. v = RemoveAt(ws, p)
    BY <1>3 DEF WithoutEntry
  <2> HIDE DEF p, v
  <2>3. /\ v \in Seq(LockEntry) /\ Len(v) = Len(ws) - 1
        /\ \A k \in 1..(Len(ws) - 1) : v[k] = IF k < p THEN ws[k] ELSE ws[k + 1]
    BY <2>1, <2>2, RemoveAtProperties
  <2> DEFINE from(k) == IF k < p THEN k ELSE k + 1
  <2>4. \A k \in 1..Len(v) : from(k) \in 1..Len(ws) /\ from(k) # p /\ v[k] = ws[from(k)]
    BY <1>1, <2>1, <2>3
  <2>5. \A k, l \in 1..Len(v) : from(k) = from(l) => k = l
    BY <1>1, <2>1, <2>3
  <2>6. \A j \in 1..Len(ws) : j # p => \E k \in 1..Len(v) : from(k) = j
    <3>1. SUFFICES ASSUME NEW j \in 1..Len(ws), j # p PROVE \E k \in 1..Len(v) : from(k) = j
      OBVIOUS
    <3>2. CASE j < p
      <4>1. j \in 1..Len(v) /\ from(j) = j
        BY <1>1, <2>1, <2>3, <3>2
      <4> QED BY <4>1
    <3>3. CASE j > p
      <4>1. j - 1 \in 1..Len(v) /\ from(j - 1) = j
        BY <1>1, <2>1, <2>3, <3>3
      <4> QED BY <4>1
    <3> QED BY <1>1, <2>1, <3>1, <3>2, <3>3
  <2> HIDE DEF from
  <2>7. \A i, j \in 1..Len(ws) : ws[i].txn = ws[j].txn => i = j
    BY DEF Distinct
  <2>8. \A k \in 1..Len(v) : v[k].txn # t
    BY <2>1, <2>4, <2>7
  <2>9. Distinct(v)
    BY <2>4, <2>5, <2>7 DEF Distinct
  <2>10. \A j \in 1..Len(ws) : ws[j].txn # t => \E k \in 1..Len(v) : v[k] = ws[j]
    BY <2>1, <2>4, <2>6
  <2> QED BY <2>3, <2>4, <2>8, <2>9, <2>10 DEF v
<1> QED BY <1>2, <1>3

\* The end of a list, and what was cut off.
LEMMA SplitList ==
  ASSUME NEW ws \in Seq(LockEntry), Distinct(ws), NEW n \in 0..Len(ws)
  PROVE  /\ Distinct(SubSeq(ws, n + 1, Len(ws)))
         /\ \A k \in 1..Len(SubSeq(ws, n + 1, Len(ws))) :
               \E j \in 1..Len(ws) : SubSeq(ws, n + 1, Len(ws))[k] = ws[j] /\ j > n
         /\ \A j \in 1..Len(ws) :
               j > n => \E k \in 1..Len(SubSeq(ws, n + 1, Len(ws))) : SubSeq(ws, n + 1, Len(ws))[k] = ws[j]
<1> DEFINE v == SubSeq(ws, n + 1, Len(ws))
<1>1. Len(ws) \in Nat /\ \A i \in (n + 1)..Len(ws) : ws[i] \in LockEntry
  BY LenProperties
<1>2. /\ Len(v) = IF n + 1 <= Len(ws) THEN Len(ws) - (n + 1) + 1 ELSE 0
      /\ \A i \in 1..(Len(ws) - (n + 1) + 1) : v[i] = ws[(n + 1) + i - 1]
  BY <1>1, SubSeqProperties
<1> HIDE DEF v
<1>3. Len(v) = Len(ws) - n
  BY <1>1, <1>2
<1>4. \A k \in 1..Len(v) : n + k \in 1..Len(ws) /\ v[k] = ws[n + k] /\ n + k > n
  <2>1. SUFFICES ASSUME NEW k \in 1..Len(v)
                 PROVE  n + k \in 1..Len(ws) /\ v[k] = ws[n + k] /\ n + k > n
    OBVIOUS
  <2>2. k \in 1..(Len(ws) - (n + 1) + 1) /\ (n + 1) + k - 1 = n + k /\ n + k \in 1..Len(ws) /\ n + k > n
    BY <1>1, <1>3
  <2> QED BY <1>2, <2>2
<1>5. ASSUME NEW j \in 1..Len(ws), j > n PROVE \E k \in 1..Len(v) : v[k] = ws[j]
  <2>1. j - n \in 1..Len(v) /\ n + (j - n) = j
    BY <1>1, <1>3, <1>5
  <2> QED BY <1>4, <2>1
<1>6. Distinct(v)
  <2>1. SUFFICES ASSUME NEW k \in 1..Len(v), NEW l \in 1..Len(v), v[k].txn = v[l].txn PROVE k = l
    BY DEF Distinct
  <2>2. n + k = n + l
    BY <1>4, <2>1 DEF Distinct
  <2> QED BY <1>1, <2>2
<1> QED BY <1>4, <1>5, <1>6 DEF v

\* A list with a new entry for a transaction that had none.
LEMMA InsertEntry ==
  ASSUME NEW ws \in Seq(LockEntry), Distinct(ws), NEW e \in LockEntry, NEW p \in 1..(Len(ws) + 1),
         \A i \in 1..Len(ws) : ws[i].txn # e.txn
  PROVE  /\ Distinct(InsertAt(ws, p, e))
         /\ \A k \in 1..Len(InsertAt(ws, p, e)) :
               InsertAt(ws, p, e)[k] = e \/ \E j \in 1..Len(ws) : InsertAt(ws, p, e)[k] = ws[j]
         /\ \A j \in 1..Len(ws) : \E k \in 1..Len(InsertAt(ws, p, e)) : InsertAt(ws, p, e)[k] = ws[j]
         /\ \E k \in 1..Len(InsertAt(ws, p, e)) : InsertAt(ws, p, e)[k] = e
<1> DEFINE v == InsertAt(ws, p, e)
<1>1. Len(ws) \in Nat
  BY LenProperties
<1>2. /\ Len(v) = Len(ws) + 1
      /\ \A k \in 1..(Len(ws) + 1) : v[k] = IF k < p THEN ws[k] ELSE IF k = p THEN e ELSE ws[k - 1]
  BY InsertAtProperties
<1> HIDE DEF v
<1> DEFINE from(k) == IF k < p THEN k ELSE k - 1
<1>3. p \in 1..Len(v) /\ v[p] = e
  BY <1>1, <1>2
<1>4. \A k \in 1..Len(v) : k # p => from(k) \in 1..Len(ws) /\ v[k] = ws[from(k)]
  BY <1>1, <1>2
<1>5. \A k, l \in 1..Len(v) : k # p /\ l # p /\ from(k) = from(l) => k = l
  BY <1>1, <1>2
<1>6. ASSUME NEW j \in 1..Len(ws) PROVE \E k \in 1..Len(v) : v[k] = ws[j]
  <2>1. CASE j < p
    <3>1. j \in 1..Len(v) /\ v[j] = ws[j]
      BY <1>1, <1>2, <2>1
    <3> QED BY <3>1
  <2>2. CASE ~(j < p)
    <3>1. j + 1 \in 1..Len(v) /\ j + 1 # p /\ ~(j + 1 < p) /\ (j + 1) - 1 = j
      BY <1>1, <1>2, <2>2
    <3>2. v[j + 1] = ws[j]
      BY <1>2, <3>1
    <3> QED BY <3>1, <3>2
  <2> QED BY <2>1, <2>2
<1> HIDE DEF from
<1>7. Distinct(v)
  <2>1. SUFFICES ASSUME NEW k \in 1..Len(v), NEW l \in 1..Len(v), v[k].txn = v[l].txn PROVE k = l
    BY DEF Distinct
  <2>2. k = p <=> l = p
    BY <1>3, <1>4, <2>1
  <2> QED BY <1>4, <1>5, <2>1, <2>2 DEF Distinct
<1> QED BY <1>3, <1>4, <1>6, <1>7 DEF v

\* An owner of a row does not wait for it.
LEMMA OwnerNotQueued ==
  ASSUME ListInv, NEW t \in Thread, NEW r \in Row, t \in owners[r]
  PROVE  ~Queued(t, r)
<1>1. TypeInv /\ TypeOK /\ AccessesOK(t) /\ OwnerOf(t, r) /\ EntryOf(t, r)
  BY DEF ListInv, LockInv, TypeInv
<1>2. PICK i \in 1..Given(t) : query[t][i].row = r
  BY <1>1 DEF OwnerOf
<1>3. SUFFICES ASSUME Queued(t, r) PROVE FALSE
  OBVIOUS
<1>4. Waits(t) /\ ~lock_ready[t] /\ RequestRow(t) = r
  BY <1>1, <1>3 DEF EntryOf
<1>5. Given(t) = Len(accesses[t]) /\ Len(accesses[t]) < Len(query[t])
  BY <1>1, <1>4 DEF Given, Waits, TypeInv, CounterInv, CountersOK
<1>6. Len(accesses[t]) \in Nat /\ Len(query[t]) \in Nat
  BY <1>1, GivenType, QueryRows
<1>7. i \in 1..Len(query[t]) /\ Len(accesses[t]) + 1 \in 1..Len(query[t]) /\ i # Len(accesses[t]) + 1
  BY <1>5, <1>6
<1>8. query[t][Len(accesses[t]) + 1].row = r
  BY <1>4 DEF RequestRow, CurrentRequest
<1> QED BY <1>1, <1>2, <1>7, <1>8, QueryRows

\* What lock_release does to the lists, in terms of the set J of transactions
\* that join the owners.
ReleasedTo(J, t, r) ==
    /\ owners'[r] = (owners[r] \ {t}) \cup J
    /\ \A u \in Thread : lock_ready'[u] <=> u \in J \/ lock_ready[u]
    /\ \A s \in Row \ {r} : /\ owners'[s] = owners[s] /\ waiters'[s] = waiters[s]
                            /\ lock_type'[s] = lock_type[s]
    /\ Distinct(waiters'[r])
    /\ \A k \in 1..Len(waiters'[r]) : \E j \in 1..Len(waiters[r]) :
          /\ waiters'[r][k] = waiters[r][j]
          /\ waiters[r][j].txn # t /\ waiters[r][j].txn \notin J
    /\ \A j \in 1..Len(waiters[r]) :
          waiters[r][j].txn # t /\ waiters[r][j].txn \notin J =>
             \E k \in 1..Len(waiters'[r]) : waiters'[r][k] = waiters[r][j]
    /\ \A u \in J : \E j \in 1..Len(waiters[r]) :
          u # t /\ waiters[r][j].txn = u /\ lock_type'[r] = waiters[r][j].type
    /\ owners[r] \ {t} # {} => lock_type'[r] = lock_type[r]

\* lock_release does that for some J.
LEMMA ReleaseEffect ==
  ASSUME ListInv, NEW t \in Thread, NEW r \in Row, LockRelease(t, r)
  PROVE  \E J \in SUBSET Thread : ReleasedTo(J, t, r)
<1> DEFINE own == owners[r] \ {t}
           ws == IF t \in owners[r] THEN waiters[r] ELSE WithoutEntry(waiters[r], t)
           lt == IF own = {} THEN "LOCK_NONE" ELSE lock_type[r]
           n == Joining(lt, ws)
           J == {ws[i].txn : i \in 1..n}
           rest == SubSeq(ws, n + 1, Len(ws))
<1>1. TypeOK /\ LockInv /\ OwnersOK(r) /\ Distinct(waiters[r]) /\ waiters[r] \in Seq(LockEntry)
  BY DEF ListInv, LockInv, TypeInv, TypeOK
<1>2. /\ owners' = [owners EXCEPT ![r] = own \cup J]
      /\ waiters' = [waiters EXCEPT ![r] = rest]
      /\ lock_type' = [lock_type EXCEPT ![r] = LockAfter(lt, ws, n)]
      /\ lock_ready' = [u \in Thread |-> u \in J \/ lock_ready[u]]
  BY DEF LockRelease
<1>3. own \in SUBSET Thread /\ lt \in LockType /\ (own # {} => lt = lock_type[r] /\ lt # "LOCK_NONE")
  BY <1>1 DEF TypeOK, LockType, OwnersOK, Describes
<1>4. /\ ws \in Seq(LockEntry) /\ Distinct(ws)
      /\ \A k \in 1..Len(ws) : ws[k].txn # t /\ \E j \in 1..Len(waiters[r]) : ws[k] = waiters[r][j]
      /\ \A j \in 1..Len(waiters[r]) :
            waiters[r][j].txn # t => \E k \in 1..Len(ws) : ws[k] = waiters[r][j]
  <2>1. CASE t \in owners[r]
    <3>1. \A i \in 1..Len(waiters[r]) : waiters[r][i].txn # t
      BY <2>1, OwnerNotQueued DEF Queued
    <3> QED BY <1>1, <2>1, <3>1
  <2>2. CASE t \notin owners[r]
    <3>1. ws = WithoutEntry(waiters[r], t)
      BY <2>2
    <3> HIDE DEF ws
    <3> QED BY <1>1, <3>1, WithoutEntryProperties
  <2> QED BY <2>1, <2>2
<1> HIDE DEF own, ws, lt
<1>5. n \in 0..Len(ws) /\ Len(ws) \in Nat
  BY <1>4, JoiningProperties, LenProperties
<1>6. /\ lt # "LOCK_NONE" => LockAfter(lt, ws, n) = lt
      /\ \A i \in 1..n : LockAfter(lt, ws, n) = ws[i].type
  BY <1>3, <1>4, JoinedModes
<1>7. /\ Distinct(rest)
      /\ \A k \in 1..Len(rest) : \E j \in 1..Len(ws) : rest[k] = ws[j] /\ j > n
      /\ \A j \in 1..Len(ws) : j > n => \E k \in 1..Len(rest) : rest[k] = ws[j]
  <2> HIDE DEF n
  <2> QED BY <1>4, <1>5, SplitList
<1>8. J \in SUBSET Thread
  BY <1>4, <1>5, WaiterType
<1> HIDE DEF n, rest
<1>9. \A i \in 1..Len(ws) : ws[i].txn \in J <=> i <= n
  <2>1. ASSUME NEW i \in 1..Len(ws), ws[i].txn \in J PROVE i <= n
    <3>1. PICK j \in 1..n : ws[j].txn = ws[i].txn
      BY <2>1
    <3>2. j \in 1..Len(ws)
      BY <1>5
    <3>3. i = j
      BY <1>4, <3>1, <3>2 DEF Distinct
    <3> QED BY <1>5, <3>3
  <2>2. ASSUME NEW i \in 1..Len(ws), i <= n PROVE ws[i].txn \in J
    <3>1. i \in 1..n
      BY <1>5, <2>2
    <3> QED BY <3>1
  <2> QED BY <2>1, <2>2
<1>10. \A u \in J : \E i \in 1..Len(ws) : ws[i].txn = u /\ LockAfter(lt, ws, n) = ws[i].type
  BY <1>5, <1>6
<1> HIDE DEF J
<1>11. /\ owners'[r] = own \cup J /\ waiters'[r] = rest /\ lock_type'[r] = LockAfter(lt, ws, n)
       /\ \A s \in Row \ {r} : owners'[s] = owners[s] /\ waiters'[s] = waiters[s]
                               /\ lock_type'[s] = lock_type[s]
  BY <1>1, <1>2 DEF TypeOK
<1>12. \A u \in Thread : lock_ready'[u] <=> u \in J \/ lock_ready[u]
  BY <1>2, Zenon
<1>13. \A k \in 1..Len(rest) : \E j \in 1..Len(waiters[r]) :
          rest[k] = waiters[r][j] /\ waiters[r][j].txn # t /\ waiters[r][j].txn \notin J
  <2>1. SUFFICES ASSUME NEW k \in 1..Len(rest)
                 PROVE  \E j \in 1..Len(waiters[r]) :
                           rest[k] = waiters[r][j] /\ waiters[r][j].txn # t /\ waiters[r][j].txn \notin J
    OBVIOUS
  <2>2. PICK i \in 1..Len(ws) : rest[k] = ws[i] /\ i > n
    BY <1>7
  <2>3. PICK j \in 1..Len(waiters[r]) : ws[i] = waiters[r][j]
    BY <1>4
  <2>4. ws[i].txn # t /\ ws[i].txn \notin J
    BY <1>4, <1>5, <1>9, <2>2
  <2> QED BY <2>2, <2>3, <2>4
<1>14. \A j \in 1..Len(waiters[r]) : waiters[r][j].txn # t /\ waiters[r][j].txn \notin J =>
          \E k \in 1..Len(rest) : rest[k] = waiters[r][j]
  <2>1. SUFFICES ASSUME NEW j \in 1..Len(waiters[r]), waiters[r][j].txn # t, waiters[r][j].txn \notin J
                 PROVE  \E k \in 1..Len(rest) : rest[k] = waiters[r][j]
    OBVIOUS
  <2>2. PICK i \in 1..Len(ws) : ws[i] = waiters[r][j]
    BY <1>4, <2>1
  <2>3. i > n
    BY <1>5, <1>9, <2>1, <2>2
  <2> QED BY <1>7, <2>2, <2>3
<1>15. \A u \in J : \E j \in 1..Len(waiters[r]) :
          u # t /\ waiters[r][j].txn = u /\ LockAfter(lt, ws, n) = waiters[r][j].type
  <2>1. SUFFICES ASSUME NEW u \in J
                 PROVE  \E j \in 1..Len(waiters[r]) :
                           u # t /\ waiters[r][j].txn = u /\ LockAfter(lt, ws, n) = waiters[r][j].type
    OBVIOUS
  <2>2. PICK i \in 1..Len(ws) : ws[i].txn = u /\ LockAfter(lt, ws, n) = ws[i].type
    BY <1>10
  <2>3. PICK j \in 1..Len(waiters[r]) : ws[i] = waiters[r][j]
    BY <1>4
  <2> QED BY <1>4, <2>2, <2>3
<1>16. own # {} => LockAfter(lt, ws, n) = lock_type[r]
  BY <1>3, <1>6
<1> HIDE DEF own
<1>17. owners'[r] = (owners[r] \ {t}) \cup J /\ (owners[r] \ {t} # {} => lock_type'[r] = lock_type[r])
  BY <1>11, <1>16 DEF own
<1>18. /\ Distinct(waiters'[r])
       /\ \A k \in 1..Len(waiters'[r]) : \E j \in 1..Len(waiters[r]) :
             /\ waiters'[r][k] = waiters[r][j]
             /\ waiters[r][j].txn # t /\ waiters[r][j].txn \notin J
       /\ \A j \in 1..Len(waiters[r]) :
             waiters[r][j].txn # t /\ waiters[r][j].txn \notin J =>
                \E k \in 1..Len(waiters'[r]) : waiters'[r][k] = waiters[r][j]
       /\ \A u \in J : \E j \in 1..Len(waiters[r]) :
             u # t /\ waiters[r][j].txn = u /\ lock_type'[r] = waiters[r][j].type
  <2>1. waiters'[r] = rest /\ lock_type'[r] = LockAfter(lt, ws, n)
    BY <1>11
  <2>2. Distinct(waiters'[r])
    BY <1>7, <2>1
  <2>3. \A k \in 1..Len(waiters'[r]) : \E j \in 1..Len(waiters[r]) :
           /\ waiters'[r][k] = waiters[r][j]
           /\ waiters[r][j].txn # t /\ waiters[r][j].txn \notin J
    BY <1>13, <2>1
  <2>4. \A j \in 1..Len(waiters[r]) : waiters[r][j].txn # t /\ waiters[r][j].txn \notin J =>
           \E k \in 1..Len(waiters'[r]) : waiters'[r][k] = waiters[r][j]
    BY <1>14, <2>1
  <2>5. \A u \in J : \E j \in 1..Len(waiters[r]) :
           u # t /\ waiters[r][j].txn = u /\ lock_type'[r] = waiters[r][j].type
    BY <1>15, <2>1
  <2> QED BY <2>2, <2>3, <2>4, <2>5
<1>19. WITNESS J \in SUBSET Thread
<1> QED BY <1>11, <1>12, <1>17, <1>18, Zenon DEF ReleasedTo

\* lock_release by a transaction that returns its last lock, or gives up the
\* one it waits for: the lists still match all the transactions, those that
\* join included.
LEMMA ReleaseLists ==
  ASSUME ListInv, NEW t \in Thread, NEW k \in 1..Len(query[t]), NEW r \in Row, query[t][k].row = r,
         Given(t) \in {k - 1, k}, Given(t)' = k - 1, Waits(t) => RequestRow(t) = r, ~Waits(t)',
         query' = query, accesses' = accesses,
         \A v \in Thread \ {t} : pc'[v] = pc[v] /\ rid'[v] = rid[v],
         LockRelease(t, r), NEW u \in Thread, NEW s \in Row
  PROVE  OwnerOf(u, s)' /\ EntryOf(u, s)' /\ Distinct(waiters[s])'
<1>1. /\ TypeInv /\ TypeOK /\ AccessesOK(u) /\ OwnerOf(u, s) /\ EntryOf(u, s) /\ Distinct(waiters[s])
      /\ OwnerOf(u, r) /\ EntryOf(u, r)
  BY DEF ListInv, LockInv, TypeInv
<1>0. PICK J \in SUBSET Thread : ReleasedTo(J, t, r)
  BY ReleaseEffect
<1>2. /\ owners'[r] = (owners[r] \ {t}) \cup J
      /\ \A v \in Thread : lock_ready'[v] <=> v \in J \/ lock_ready[v]
      /\ \A q \in Row \ {r} : /\ owners'[q] = owners[q] /\ waiters'[q] = waiters[q]
                              /\ lock_type'[q] = lock_type[q]
      /\ Distinct(waiters'[r])
      /\ \A m \in 1..Len(waiters'[r]) : \E j \in 1..Len(waiters[r]) :
            /\ waiters'[r][m] = waiters[r][j]
            /\ waiters[r][j].txn # t /\ waiters[r][j].txn \notin J
      /\ \A j \in 1..Len(waiters[r]) :
            waiters[r][j].txn # t /\ waiters[r][j].txn \notin J =>
               \E m \in 1..Len(waiters'[r]) : waiters'[r][m] = waiters[r][j]
      /\ \A v \in J : \E j \in 1..Len(waiters[r]) :
            v # t /\ waiters[r][j].txn = v /\ lock_type'[r] = waiters[r][j].type
      /\ owners[r] \ {t} # {} => lock_type'[r] = lock_type[r]
  BY <1>0, Zenon DEF ReleasedTo
<1>3. Distinct(waiters'[s])
  <2>1. CASE s = r
    BY <1>2, <2>1
  <2>2. CASE s # r
    BY <1>1, <1>2, <2>2
  <2> QED BY <2>1, <2>2
<1>4. Queued(u, s)' <=> Queued(u, s) /\ (s = r => u # t /\ u \notin J)
  <2>1. CASE s = r
    <3>1. ASSUME Queued(u, s)' PROVE Queued(u, s) /\ u # t /\ u \notin J
      <4>1. PICK m \in 1..Len(waiters'[r]) : waiters'[r][m].txn = u
        BY <2>1, <3>1 DEF Queued
      <4> QED BY <1>2, <2>1, <4>1 DEF Queued
    <3>2. ASSUME Queued(u, s), u # t, u \notin J PROVE Queued(u, s)'
      <4>1. PICK j \in 1..Len(waiters[r]) : waiters[r][j].txn = u
        BY <2>1, <3>2 DEF Queued
      <4>2. PICK m \in 1..Len(waiters'[r]) : waiters'[r][m] = waiters[r][j]
        BY <1>2, <3>2, <4>1
      <4> QED BY <2>1, <4>1, <4>2 DEF Queued
    <3> QED BY <2>1, <3>1, <3>2
  <2>2. CASE s # r
    <3>1. waiters'[s] = waiters[s]
      BY <1>2, <2>2
    <3> QED BY <2>2, <3>1 DEF Queued
  <2> QED BY <2>1, <2>2
<1>5. \A i \in 1..Len(waiters'[s]) : waiters'[s][i].txn = u => waiters'[s][i].type = RequestLock(u)
  <2>1. CASE s = r
    BY <1>1, <1>2, <2>1 DEF EntryOf
  <2>2. CASE s # r
    <3>1. waiters'[s] = waiters[s]
      BY <1>2, <2>2
    <3> QED BY <1>1, <3>1 DEF EntryOf
  <2> QED BY <2>1, <2>2
<1>6. RequestLock(u)' = RequestLock(u) /\ RequestRow(u)' = RequestRow(u)
  BY DEF RequestLock, RequestRow, CurrentRequest
<1>7. Len(query[u]) \in Nat /\ Given(u) \in 0..Len(query[u]) /\ Len(accesses[u]) \in 0..Len(query[u])
  BY <1>1, GivenType, QueryRows
<1>8. \A i, j \in 1..Len(query[u]) : query[u][i].row = query[u][j].row => i = j
  BY <1>1, QueryRows
<1>9. CASE u = t
  <2>1. u \notin J
    BY <1>2, <1>9
  <2>2. EntryOf(u, s)'
    <3>1. ~Queued(u, s)'
      BY <1>1, <1>4, <1>9 DEF EntryOf
    <3>2. ~Waits(u)'
      BY <1>9
    <3> QED BY <1>5, <1>6, <3>1, <3>2 DEF EntryOf
  <2>3. u \in owners'[s] <=> u \in owners[s] /\ s # r
    BY <1>2, <1>9, <2>1
  <2>4. s # r => lock_type'[s] = lock_type[s]
    BY <1>2
  <2>5. ASSUME s = r, NEW i \in 1..(k - 1) PROVE query[u][i].row # s
    <3>1. i \in 1..Len(query[u]) /\ i # k /\ k \in 1..Len(query[u])
      BY <1>7, <1>9
    <3> QED BY <1>8, <1>9, <2>5, <3>1
  <2>6. ASSUME s # r, NEW i \in 1..Given(u), query[u][i].row = s PROVE i \in 1..(k - 1)
    <3>1. i # k
      BY <1>9, <2>6
    <3> QED BY <1>7, <1>9, <2>6, <3>1
  <2>7. ASSUME NEW i \in 1..(k - 1) PROVE i \in 1..Given(u)
    BY <1>7, <1>9
  <2>8. Given(u)' = k - 1 /\ query'[u] = query[u]
    BY <1>9
  <2>9. u \in owners'[s] <=> \E i \in 1..(k - 1) : query[u][i].row = s
    BY <1>1, <2>3, <2>5, <2>6, <2>7 DEF OwnerOf
  <2>10. \A i \in 1..(k - 1) : query[u][i].row = s => lock_type'[s] = LockFor(query[u][i].type)
    BY <1>1, <2>4, <2>5, <2>7 DEF OwnerOf
  <2>11. OwnerOf(u, s)'
    BY <2>8, <2>9, <2>10 DEF OwnerOf
  <2> QED BY <1>3, <2>2, <2>11
<1>10. CASE u # t /\ u \notin J
  <2>1. (lock_ready'[u] <=> lock_ready[u]) /\ (Waits(u)' <=> Waits(u))
    BY <1>2, <1>10 DEF Waits
  <2>2. Given(u)' = Given(u)
    BY <1>10, <2>1 DEF Given, Waits
  <2>3. EntryOf(u, s)'
    BY <1>1, <1>4, <1>5, <1>6, <1>10, <2>1 DEF EntryOf
  <2>4. u \in owners'[s] <=> u \in owners[s]
    BY <1>2, <1>10
  <2>5. u \in owners[s] => lock_type'[s] = lock_type[s]
    BY <1>2, <1>10
  <2>6. OwnerOf(u, s)'
    <3>1. query'[u] = query[u]
      OBVIOUS
    <3> QED BY <1>1, <2>2, <2>4, <2>5, <3>1 DEF OwnerOf
  <2> QED BY <1>3, <2>3, <2>6
<1>11. CASE u # t /\ u \in J
  <2>1. PICK j \in 1..Len(waiters[r]) : waiters[r][j].txn = u /\ lock_type'[r] = waiters[r][j].type
    BY <1>2, <1>11
  <2>2. Queued(u, r) /\ lock_type'[r] = RequestLock(u)
    BY <1>1, <2>1 DEF EntryOf, Queued
  <2>3. Waits(u) /\ ~lock_ready[u] /\ RequestRow(u) = r /\ lock_ready'[u] /\ Waits(u)'
    BY <1>1, <1>2, <1>11, <2>2 DEF EntryOf, Waits
  <2>4. EntryOf(u, s)'
    <3>1. ~Queued(u, s)'
      BY <1>1, <1>4, <1>11, <2>3 DEF EntryOf
    <3> QED BY <1>5, <1>6, <2>3, <3>1 DEF EntryOf
  <2> DEFINE n == Len(accesses[u])
  <2>5. Given(u) = n /\ Given(u)' = n + 1 /\ n < Len(query[u])
    BY <1>1, <2>3 DEF Given, Waits, TypeInv, CounterInv, CountersOK
  <2>6. query[u][n + 1].row = r /\ lock_type'[r] = LockFor(query[u][n + 1].type)
    BY <2>2, <2>3 DEF RequestRow, RequestLock, CurrentRequest
  <2> HIDE DEF n
  <2>7. u \in owners'[s] <=> u \in owners[s] \/ s = r
    BY <1>2, <1>11
  <2>8. \A i \in 1..(n + 1) : i \in 1..n \/ i = n + 1
    BY <1>7, <2>5
  <2>9. \A i \in 1..n : i \in 1..(n + 1) /\ i \in 1..Len(query[u]) /\ i # n + 1
    BY <1>7, <2>5
  <2>10. n + 1 \in 1..(n + 1) /\ n + 1 \in 1..Len(query[u])
    BY <1>7, <2>5
  <2>11. \A i \in 1..n : query[u][i].row # r
    BY <1>8, <2>6, <2>9, <2>10
  <2>12. u \in owners'[s] <=> \E i \in 1..(n + 1) : query[u][i].row = s
    <3>1. u \in owners[s] <=> \E i \in 1..n : query[u][i].row = s
      BY <1>1, <2>5 DEF OwnerOf
    <3> QED BY <2>6, <2>7, <2>8, <2>9, <2>10, <3>1
  <2>13. \A i \in 1..(n + 1) : query[u][i].row = s => lock_type'[s] = LockFor(query[u][i].type)
    <3>1. SUFFICES ASSUME NEW i \in 1..(n + 1), query[u][i].row = s
                   PROVE  lock_type'[s] = LockFor(query[u][i].type)
      OBVIOUS
    <3>2. CASE i = n + 1
      BY <2>6, <3>1, <3>2
    <3>3. CASE i \in 1..n
      <4>1. s # r
        BY <2>11, <3>1, <3>3
      <4> QED BY <1>1, <1>2, <2>5, <3>1, <3>3, <4>1 DEF OwnerOf
    <3> QED BY <2>8, <3>2, <3>3
  <2>14. OwnerOf(u, s)'
    BY <2>5, <2>12, <2>13 DEF OwnerOf
  <2> QED BY <1>3, <2>4, <2>14
<1> QED BY <1>9, <1>10, <1>11

\* A transaction whose lists and whose place in them did not change.
LEMMA SameLists ==
  ASSUME NEW u \in Thread, NEW s \in Row, OwnerOf(u, s), EntryOf(u, s), Distinct(waiters[s]),
         owners'[s] = owners[s], lock_type'[s] = lock_type[s], waiters'[s] = waiters[s],
         Given(u)' = Given(u), query'[u] = query[u],
         Waits(u)' /\ ~lock_ready'[u] <=> Waits(u) /\ ~lock_ready[u],
         Waits(u) /\ ~lock_ready[u] => accesses'[u] = accesses[u]
  PROVE  OwnerOf(u, s)' /\ EntryOf(u, s)' /\ Distinct(waiters[s])'
<1>1. Queued(u, s)' <=> Queued(u, s)
  BY DEF Queued
<1>2. Waits(u) /\ ~lock_ready[u] =>
          RequestRow(u)' = RequestRow(u) /\ RequestLock(u)' = RequestLock(u)
  BY DEF RequestRow, RequestLock, CurrentRequest
<1>3. \A i \in 1..Len(waiters[s]) : waiters[s][i].txn = u => Queued(u, s)
  BY DEF Queued
<1>4. EntryOf(u, s)'
  BY <1>1, <1>2, <1>3 DEF EntryOf
<1>5. OwnerOf(u, s)'
  BY DEF OwnerOf
<1> QED BY <1>4, <1>5

\* The accesses follow the query.
LEMMA AccessesStep ==
  ASSUME TypeInv, NEW t \in Thread, Step(t), NEW u \in Thread, AccessesOK(u)
  PROVE  AccessesOK(u)'
<1>1. TypeOK /\ CountersOK(u)
  BY DEF TypeInv, CounterInv
<1>2. CASE u # t
  BY <1>1, <1>2, OtherTxns DEF AccessesOK
<1>3. CASE u = t
  <2>0. Len(<<>>) = 0 /\ 1..0 = {} /\ Len(query[u]) \in Nat /\ accesses[u] \in Seq(Access)
        /\ Len(accesses[u]) \in Nat
    BY <1>1, QueryRows, LenProperties DEF TypeOK
  <2>1. CASE Begin(t)
    <3>1. accesses'[u] = <<>> /\ pc'[u] = "run" /\ query'[u] \in Query
      BY <1>1, <1>3, <2>1 DEF Begin, AccessesOK, TypeOK
    <3>2. Len(query'[u]) \in Nat
      BY <3>1, QueryAssumption, LenProperties
    <3> QED BY <2>0, <3>1, <3>2 DEF AccessesOK
  <2>2. CASE EndTxn(t)
    <3>1. accesses'[u] = <<>> /\ query'[u] = query[u]
      BY <1>1, <1>3, <2>2 DEF EndTxn, TypeOK
    <3> QED BY <2>0, <3>1 DEF AccessesOK
  <2>3. CASE TakeAccess(t)
    <3> DEFINE n == Len(accesses[u])
               a == [row |-> RequestRow(u), type |-> CurrentRequest(u).type,
                     orig_data |-> data[RequestRow(u)]]
    <3>1. n < Len(query[u])
      BY <1>1, <1>3, <2>3 DEF TakeAccess, CountersOK
    <3>2. a \in Access /\ a.row = query[u][n + 1].row /\ a.type = query[u][n + 1].type
      <4>1. RequestRow(u) \in Row /\ CurrentRequest(u).type \in {"RD", "WR"} /\ data[RequestRow(u)] \in Nat
        BY <1>1, <3>1, RequestType DEF TypeOK
      <4> QED BY <4>1 DEF Access, RequestRow, CurrentRequest
    <3>3. accesses'[u] = Append(accesses[u], a) /\ query'[u] = query[u] /\ pc'[u] # "idle"
      BY <1>1, <1>3, <2>3 DEF TakeAccess, TypeOK
    <3> HIDE DEF a
    <3>4. /\ Len(accesses'[u]) = n + 1 /\ accesses'[u][n + 1] = a
          /\ \A i \in 1..n : accesses'[u][i] = accesses[u][i]
      BY <2>0, <3>2, <3>3, AppendProperties
    <3>5. \A i \in 1..(n + 1) : i \in 1..n \/ i = n + 1
      BY <2>0
    <3>6. n + 1 <= Len(query[u])
      BY <2>0, <3>1
    <3> QED BY <3>2, <3>3, <3>4, <3>5, <3>6 DEF AccessesOK
  <2>4. CASE ~(Begin(t) \/ EndTxn(t) \/ TakeAccess(t))
    <3>1. accesses'[u] = accesses[u] /\ query'[u] = query[u] /\ pc'[u] # "idle"
      BY <1>1, <1>3, <2>4 DEF TypeOK, Step, LockGranted, LockWait, LockRefused, WaitReady,
         WaitTimeout, WaitAbort, GiveUp, WriteRow, Finish, ReturnRow, ReleaseRow
    <3> QED BY <3>1 DEF AccessesOK
  <2> QED BY <2>1, <2>2, <2>3, <2>4
<1> QED BY <1>2, <1>3

\* lock_get grants: the lock is compatible with what the other owners hold.
LEMMA GrantedLists ==
  ASSUME ListInv, NEW t \in Thread, LockGranted(t), NEW u \in Thread, NEW s \in Row
  PROVE  OwnerOf(u, s)' /\ EntryOf(u, s)' /\ Distinct(waiters[s])'
<1> DEFINE r == RequestRow(t)
           lk == RequestLock(t)
           n == Len(accesses[t])
<1>1. TypeInv /\ TypeOK /\ AccessesOK(u) /\ OwnerOf(u, s) /\ EntryOf(u, s) /\ Distinct(waiters[s])
  BY DEF ListInv, LockInv, TypeInv
<1>2. n < Len(query[t]) /\ pc[t] = "run" /\ ~Conflict(lock_type[r], lk)
  BY DEF LockGranted, HasRequest, MustWait
<1>3. r \in Row /\ lk \in {"LOCK_SH", "LOCK_EX"} /\ lk = LockFor(query[t][n + 1].type)
      /\ query[t][n + 1].row = r
  BY <1>1, <1>2, RequestType DEF RequestRow, RequestLock, CurrentRequest
<1>4. /\ owners' = [owners EXCEPT ![r] = owners[r] \cup {t}]
      /\ lock_type' = [lock_type EXCEPT ![r] = lk]
      /\ pc' = [pc EXCEPT ![t] = "granted"]
      /\ waiters' = waiters /\ accesses' = accesses /\ query' = query /\ rid' = rid
      /\ lock_ready' = lock_ready
  BY DEF LockGranted
<1>5. Len(query[u]) \in Nat /\ Given(u) \in 0..Len(query[u]) /\ Len(accesses[u]) \in 0..Len(query[u])
  BY <1>1, GivenType, QueryRows
<1>6. \A i, j \in 1..Len(query[u]) : query[u][i].row = query[u][j].row => i = j
  BY <1>1, QueryRows
<1> HIDE DEF r, lk
<1>7. CASE u # t
  <2>1. pc'[u] = pc[u]
    BY <1>1, <1>4, <1>7 DEF TypeOK
  <2>2. Given(u)' = Given(u) /\ Waits(u)' = Waits(u)
    BY <1>4, <2>1 DEF Given, Waits
  <2>3. EntryOf(u, s)'
    BY <1>1, <1>4, <2>2 DEF EntryOf, Queued, RequestRow, RequestLock, CurrentRequest
  <2>4. u \in owners'[s] <=> u \in owners[s]
    BY <1>1, <1>3, <1>4, <1>7 DEF TypeOK
  <2>5. ASSUME NEW i \in 1..Given(u), query[u][i].row = s
        PROVE  lock_type'[s] = LockFor(query[u][i].type)
    <3>1. lock_type[s] = LockFor(query[u][i].type)
      BY <1>1, <2>5 DEF OwnerOf
    <3>2. CASE s # r
      BY <1>1, <1>3, <1>4, <3>1, <3>2 DEF TypeOK
    <3>3. CASE s = r
      <4>1. lock_type'[s] = lk
        BY <1>1, <1>3, <1>4, <3>3 DEF TypeOK
      <4>2. LockFor(query[u][i].type) \in {"LOCK_SH", "LOCK_EX"}
        BY DEF LockFor
      <4> QED BY <1>2, <1>3, <3>1, <3>3, <4>1, <4>2 DEF Conflict
    <3> QED BY <3>2, <3>3
  <2>6. OwnerOf(u, s)'
    BY <1>1, <1>4, <2>2, <2>4, <2>5 DEF OwnerOf
  <2> QED BY <1>1, <1>4, <2>3, <2>6
<1>8. CASE u = t
  <2>1. pc'[t] = "granted" /\ ~Waits(t) /\ ~Waits(t)'
    BY <1>1, <1>2, <1>4 DEF TypeOK, Waits
  <2>2. Given(t) = n /\ Given(t)' = n + 1
    BY <1>2, <1>4, <2>1 DEF Given
  <2>3. EntryOf(t, s)'
    <3>1. ~Queued(t, s)
      BY <1>1, <1>8, <2>1 DEF EntryOf
    <3>2. ~Queued(t, s)' /\ \A i \in 1..Len(waiters'[s]) : waiters'[s][i].txn # t
      BY <1>4, <3>1 DEF Queued
    <3> QED BY <2>1, <3>2 DEF EntryOf
  <2>4. t \in owners'[s] <=> t \in owners[s] \/ s = r
    BY <1>1, <1>3, <1>4 DEF TypeOK
  <2>5. n \in Nat /\ n + 1 \in 1..(n + 1) /\ n + 1 \in 1..Len(query[t])
    BY <1>2, <1>5, <1>8
  <2>6. \A i \in 1..(n + 1) : i \in 1..n \/ i = n + 1
    BY <2>5
  <2>7. \A i \in 1..n : i \in 1..(n + 1) /\ i \in 1..Len(query[t]) /\ i # n + 1
    BY <1>2, <1>5, <1>8
  <2>8. \A i \in 1..n : query[t][i].row # r
    BY <1>3, <1>6, <1>8, <2>5, <2>7
  <2> HIDE DEF n
  <2>9. t \in owners'[s] <=> \E i \in 1..(n + 1) : query[t][i].row = s
    <3>1. t \in owners[s] <=> \E i \in 1..n : query[t][i].row = s
      BY <1>1, <1>8, <2>2 DEF OwnerOf
    <3> QED BY <1>3, <2>4, <2>5, <2>6, <2>7, <3>1
  <2>10. ASSUME NEW i \in 1..(n + 1), query[t][i].row = s
         PROVE  lock_type'[s] = LockFor(query[t][i].type)
    <3>1. CASE i = n + 1
      BY <1>1, <1>3, <1>4, <2>10, <3>1 DEF TypeOK
    <3>2. CASE i \in 1..n
      <4>1. s # r
        BY <2>8, <2>10, <3>2
      <4>2. lock_type'[s] = lock_type[s]
        BY <1>1, <1>3, <1>4, <4>1 DEF TypeOK
      <4> QED BY <1>1, <1>8, <2>2, <2>10, <3>2, <4>2 DEF OwnerOf
    <3> QED BY <2>6, <3>1, <3>2
  <2>11. OwnerOf(t, s)'
    BY <1>4, <2>2, <2>9, <2>10 DEF OwnerOf
  <2> QED BY <1>1, <1>4, <1>8, <2>3, <2>11
<1> QED BY <1>7, <1>8

\* lock_get queues the transaction.
LEMMA WaitLists ==
  ASSUME ListInv, NEW t \in Thread, LockWait(t), NEW u \in Thread, NEW s \in Row
  PROVE  OwnerOf(u, s)' /\ EntryOf(u, s)' /\ Distinct(waiters[s])'
<1> DEFINE r == RequestRow(t)
           e == [txn |-> t, type |-> RequestLock(t)]
           p == QueuePosition(t, r)
           v == InsertAt(waiters[r], p, e)
<1>1. /\ TypeInv /\ TypeOK /\ AccessesOK(u) /\ OwnerOf(u, s) /\ EntryOf(u, s) /\ Distinct(waiters[s])
      /\ \A q \in Row : EntryOf(t, q) /\ EntryOf(u, q) /\ Distinct(waiters[q])
  BY DEF ListInv, LockInv, TypeInv
<1>2. r \in Row /\ e \in LockEntry /\ e.txn = t /\ e.type = RequestLock(t)
  BY <1>1, RequestType DEF LockWait, HasRequest, LockEntry
<1>3. waiters[r] \in Seq(LockEntry) /\ p \in 1..(Len(waiters[r]) + 1)
  BY <1>1, <1>2, QueuePositionType DEF TypeOK
<1>4. /\ waiters' = [waiters EXCEPT ![r] = v] /\ owners' = owners /\ lock_type' = lock_type
      /\ lock_ready' = [lock_ready EXCEPT ![t] = FALSE] /\ pc' = [pc EXCEPT ![t] = "wait"]
      /\ accesses' = accesses /\ query' = query /\ rid' = rid /\ pc[t] = "run"
  BY DEF LockWait, HasRequest
<1>5. ~Waits(t) /\ Waits(t)' /\ ~lock_ready'[t]
  BY <1>1, <1>4 DEF Waits, TypeOK
<1>6. \A q \in Row : ~Queued(t, q)
  BY <1>1, <1>5 DEF EntryOf
<1>7. /\ RequestLock(u)' = RequestLock(u) /\ RequestRow(u)' = RequestRow(u)
      /\ RequestRow(t)' = r
  BY <1>4 DEF RequestLock, RequestRow, CurrentRequest
<1>8. \A i \in 1..Len(waiters[r]) : waiters[r][i].txn # e.txn
  BY <1>2, <1>6 DEF Queued
<1> HIDE DEF r, e, p
<1>9. /\ Distinct(v)
      /\ \A k \in 1..Len(v) : v[k] = e \/ \E j \in 1..Len(waiters[r]) : v[k] = waiters[r][j]
      /\ \A j \in 1..Len(waiters[r]) : \E k \in 1..Len(v) : v[k] = waiters[r][j]
      /\ \E k \in 1..Len(v) : v[k] = e
  BY <1>1, <1>2, <1>3, <1>8, InsertEntry
<1> HIDE DEF v
<1>10. waiters'[r] = v /\ (s # r => waiters'[s] = waiters[s])
  BY <1>1, <1>2, <1>4 DEF TypeOK
<1>11. Distinct(waiters'[s])
  <2>1. CASE s = r
    BY <1>9, <1>10, <2>1
  <2>2. CASE s # r
    BY <1>1, <1>10, <2>2
  <2> QED BY <2>1, <2>2
<1>12. Given(u)' = Given(u) /\ (u # t => Waits(u)' = Waits(u) /\ lock_ready'[u] = lock_ready[u])
  <2>1. CASE u # t
    <3>1. pc'[u] = pc[u] /\ lock_ready'[u] = lock_ready[u]
      BY <1>1, <1>4, <2>1 DEF TypeOK
    <3> QED BY <1>4, <3>1 DEF Given, Waits
  <2>2. CASE u = t
    <3>1. pc'[u] = "wait" /\ pc[u] = "run" /\ ~lock_ready'[u]
      BY <1>1, <1>4, <1>5, <2>2 DEF TypeOK
    <3> QED BY <1>4, <2>2, <3>1 DEF Given, Waits
  <2> QED BY <2>1, <2>2
<1>13. OwnerOf(u, s)'
  BY <1>1, <1>4, <1>12 DEF OwnerOf
<1>14. Queued(u, s)' <=> Queued(u, s) \/ (u = t /\ s = r)
  <2>1. CASE s = r
    <3>1. ASSUME Queued(u, s)' PROVE Queued(u, s) \/ u = t
      <4>1. PICK k \in 1..Len(v) : v[k].txn = u
        BY <1>10, <2>1, <3>1 DEF Queued
      <4> QED BY <1>2, <1>9, <2>1, <4>1 DEF Queued
    <3>2. ASSUME Queued(u, s) PROVE Queued(u, s)'
      <4>1. PICK j \in 1..Len(waiters[r]) : waiters[r][j].txn = u
        BY <2>1, <3>2 DEF Queued
      <4>2. PICK k \in 1..Len(v) : v[k] = waiters[r][j]
        BY <1>9
      <4> QED BY <1>10, <2>1, <4>1, <4>2 DEF Queued
    <3>3. ASSUME u = t PROVE Queued(u, s)'
      <4>1. PICK k \in 1..Len(v) : v[k] = e
        BY <1>9
      <4> QED BY <1>2, <1>10, <2>1, <3>3, <4>1 DEF Queued
    <3> QED BY <2>1, <3>1, <3>2, <3>3
  <2>2. CASE s # r
    BY <1>10, <2>2 DEF Queued
  <2> QED BY <2>1, <2>2
<1>15. \A i \in 1..Len(waiters'[s]) : waiters'[s][i].txn = u => waiters'[s][i].type = RequestLock(u)
  <2>1. CASE s = r
    <3>1. SUFFICES ASSUME NEW i \in 1..Len(v), v[i].txn = u PROVE v[i].type = RequestLock(u)
      BY <1>10, <2>1
    <3>2. CASE v[i] = e
      BY <1>2, <3>1, <3>2
    <3>3. CASE v[i] # e
      <4>1. PICK j \in 1..Len(waiters[r]) : v[i] = waiters[r][j]
        BY <1>9, <3>3
      <4> QED BY <1>1, <2>1, <3>1, <4>1 DEF EntryOf
    <3> QED BY <3>2, <3>3
  <2>2. CASE s # r
    BY <1>1, <1>10, <2>2 DEF EntryOf
  <2> QED BY <2>1, <2>2
<1>16. Queued(u, s)' <=> Waits(u)' /\ ~lock_ready'[u] /\ RequestRow(u)' = s
  <2>1. CASE u = t
    BY <1>5, <1>6, <1>7, <1>14, <2>1
  <2>2. CASE u # t
    BY <1>1, <1>7, <1>12, <1>14, <2>2 DEF EntryOf
  <2> QED BY <2>1, <2>2
<1>17. EntryOf(u, s)'
  BY <1>7, <1>15, <1>16 DEF EntryOf
<1> QED BY <1>11, <1>13, <1>17

\* The other steps leave the lists alone, and everybody's place in them.
LEMMA QuietLists ==
  ASSUME ListInv, NEW t \in Thread, Step(t), NEW u \in Thread, NEW s \in Row,
         ~(LockGranted(t) \/ LockWait(t) \/ GiveUp(t) \/ ReleaseRow(t))
  PROVE  OwnerOf(u, s)' /\ EntryOf(u, s)' /\ Distinct(waiters[s])'
<1>1. /\ TypeInv /\ TypeOK /\ CountersOK(u) /\ AccessesOK(u)
      /\ OwnerOf(u, s) /\ EntryOf(u, s) /\ Distinct(waiters[s])
  BY DEF ListInv, LockInv, TypeInv, CounterInv
<1>2. UNCHANGED <<owners, waiters, lock_type, lock_ready>>
  BY DEF Step, lockVars, Begin, LockRefused, WaitReady, WaitTimeout,
         WaitAbort, TakeAccess, WriteRow, Finish, ReturnRow, EndTxn
<1>3. CASE u # t
  <2>1. pc'[u] = pc[u] /\ accesses'[u] = accesses[u] /\ query'[u] = query[u] /\ rid'[u] = rid[u]
    BY <1>1, <1>3, OtherTxns
  <2>2. Given(u)' = Given(u) /\ Waits(u)' = Waits(u)
    BY <1>2, <2>1 DEF Given, Waits
  <2> QED BY <1>1, <1>2, <2>1, <2>2, SameLists
<1>4. CASE u = t /\ Begin(t)
  <2>1. /\ accesses[u] = <<>> /\ accesses'[u] = <<>> /\ pc[u] = "idle" /\ pc'[u] = "run"
        /\ Len(<<>>) = 0 /\ 1..0 = {}
    BY <1>1, <1>4 DEF Begin, AccessesOK, TypeOK
  <2>2. Given(u) = 0 /\ Given(u)' = 0 /\ ~Waits(u) /\ ~Waits(u)'
    BY <2>1 DEF Given, Waits
  <2>3. OwnerOf(u, s)'
    BY <1>1, <1>2, <2>1, <2>2 DEF OwnerOf
  <2>4. EntryOf(u, s)'
    BY <1>1, <1>2, <2>2 DEF EntryOf, Queued
  <2> QED BY <1>1, <1>2, <2>3, <2>4
<1>5. CASE u = t /\ ~Begin(t)
  <2>1. query'[u] = query[u]
    BY <1>1, <1>5 DEF Step, LockRefused, WaitReady, WaitTimeout, WaitAbort, TakeAccess, WriteRow,
       Finish, ReturnRow, EndTxn
  <2>2. /\ Given(u)' = Given(u)
        /\ Waits(u)' /\ ~lock_ready'[u] <=> Waits(u) /\ ~lock_ready[u]
        /\ Waits(u) => accesses'[u] = accesses[u]
    <3> USE DEF Given, Waits
    <3>0. pc \in [Thread -> PC] /\ accesses \in [Thread -> Seq(Access)] /\ rid \in [Thread -> Nat]
      BY <1>1 DEF TypeOK
    <3>1. CASE TakeAccess(t)
      <4> DEFINE a == [row |-> RequestRow(t), type |-> CurrentRequest(t).type,
                       orig_data |-> data[RequestRow(t)]]
      <4>1. pc[t] = "granted" /\ pc'[t] \in {"write", "run"} /\ accesses'[t] = Append(accesses[t], a)
        BY <3>0, <3>1 DEF TakeAccess
      <4>2. a \in Access
        <5>1. RequestRow(t) \in Row /\ CurrentRequest(t).type \in {"RD", "WR"} /\ data[RequestRow(t)] \in Nat
          BY <1>1, <1>5, <4>1, RequestType DEF TypeOK, CountersOK
        <5> QED BY <5>1 DEF Access
      <4> HIDE DEF a
      <4>3. Len(accesses'[t]) = Len(accesses[t]) + 1
        BY <3>0, <4>1, <4>2, AppendProperties
      <4> QED BY <1>5, <4>1, <4>3
    <3>2. CASE EndTxn(t)
      <4>1. pc[t] = "cleanup" /\ rid[t] = 0 /\ accesses'[t] = <<>> /\ pc'[t] = "idle" /\ Len(<<>>) = 0
        BY <3>0, <3>2 DEF EndTxn
      <4> QED BY <1>5, <4>1
    <3>3. CASE Finish(t) \/ LockRefused(t)
      <4>1. /\ pc[t] = "run" /\ pc'[t] = "cleanup" /\ rid'[t] = Len(accesses[t])
            /\ accesses'[t] = accesses[t]
        BY <3>0, <3>3 DEF Finish, LockRefused, HasRequest
      <4> QED BY <1>5, <4>1
    <3>4. CASE WaitReady(t)
      BY <1>2, <1>5, <3>0, <3>4 DEF WaitReady
    <3>5. CASE WaitTimeout(t)
      BY <1>2, <1>5, <3>0, <3>5 DEF WaitTimeout
    <3>6. CASE WaitAbort(t)
      BY <1>2, <1>5, <3>0, <3>6 DEF WaitAbort
    <3>7. CASE WriteRow(t)
      BY <1>2, <1>5, <3>0, <3>7 DEF WriteRow
    <3>8. CASE ReturnRow(t)
      BY <1>2, <1>5, <3>0, <3>8 DEF ReturnRow
    <3> QED BY <1>5, <3>1, <3>2, <3>3, <3>4, <3>5, <3>6, <3>7, <3>8 DEF Step
  <2> QED BY <1>1, <1>2, <2>1, <2>2, SameLists
<1> QED BY <1>3, <1>4, <1>5

\* Giving up returns the lock of the request, if it was granted meanwhile, or
\* the place in its list.
LEMMA GiveUpLists ==
  ASSUME ListInv, NEW t \in Thread, GiveUp(t), NEW u \in Thread, NEW s \in Row
  PROVE  OwnerOf(u, s)' /\ EntryOf(u, s)' /\ Distinct(waiters[s])'
<1> DEFINE k == Len(accesses[t]) + 1
<1>1. TypeInv /\ TypeOK /\ CountersOK(t)
  BY DEF ListInv, LockInv, TypeInv, CounterInv
<1>2. pc[t] = "giveup" /\ Len(accesses[t]) < Len(query[t])
  BY <1>1 DEF GiveUp, CountersOK
<1>3. Len(accesses[t]) \in Nat /\ Len(query[t]) \in Nat
  BY <1>1, QueryRows, LenProperties DEF TypeOK
<1>4. k \in 1..Len(query[t]) /\ k - 1 = Len(accesses[t])
  BY <1>2, <1>3
<1>5. RequestRow(t) \in Row /\ query[t][k].row = RequestRow(t)
  BY <1>1, <1>2, RequestType DEF RequestRow, CurrentRequest
<1>6. /\ query' = query /\ accesses' = accesses /\ LockRelease(t, RequestRow(t))
      /\ pc' = [pc EXCEPT ![t] = "cleanup"] /\ rid' = [rid EXCEPT ![t] = Len(accesses[t])]
  BY DEF GiveUp
<1>7. /\ pc'[t] = "cleanup" /\ rid'[t] = Len(accesses[t])
      /\ \A v \in Thread \ {t} : pc'[v] = pc[v] /\ rid'[v] = rid[v]
  BY <1>1, <1>6 DEF TypeOK
<1>8. Given(t) \in {k - 1, k} /\ Given(t)' = k - 1 /\ ~Waits(t)'
  BY <1>2, <1>4, <1>7 DEF Given, Waits
<1> HIDE DEF k
<1> QED BY <1>4, <1>5, <1>6, <1>7, <1>8, ReleaseLists

\* cleanup returns the last lock the transaction still holds.
LEMMA ReleaseRowLists ==
  ASSUME ListInv, NEW t \in Thread, ReleaseRow(t), NEW u \in Thread, NEW s \in Row
  PROVE  OwnerOf(u, s)' /\ EntryOf(u, s)' /\ Distinct(waiters[s])'
<1> DEFINE k == rid[t]
<1>1. TypeInv /\ TypeOK /\ CountersOK(t) /\ AccessesOK(t)
  BY DEF ListInv, LockInv, TypeInv, CounterInv
<1>2. pc[t] = "release" /\ k \in 1..Len(accesses[t])
  BY <1>1 DEF ReleaseRow, CountersOK
<1>3. Len(accesses[t]) \in Nat /\ Len(query[t]) \in Nat
  BY <1>1, QueryRows, LenProperties DEF TypeOK
<1>4. k \in 1..Len(query[t])
  BY <1>1, <1>2, <1>3 DEF AccessesOK
<1>5. accesses[t][k].row \in Row /\ query[t][k].row = accesses[t][k].row
  BY <1>1, <1>2, AccessType DEF AccessesOK
<1>6. /\ query' = query /\ accesses' = accesses /\ LockRelease(t, accesses[t][k].row)
      /\ pc' = [pc EXCEPT ![t] = "cleanup"] /\ rid' = [rid EXCEPT ![t] = k - 1]
  BY DEF ReleaseRow
<1>7. /\ pc'[t] = "cleanup" /\ rid'[t] = k - 1
      /\ \A v \in Thread \ {t} : pc'[v] = pc[v] /\ rid'[v] = rid[v]
  BY <1>1, <1>6 DEF TypeOK
<1>8. Given(t) = k /\ Given(t)' = k - 1 /\ ~Waits(t)' /\ ~Waits(t)
  BY <1>2, <1>7 DEF Given, Waits
<1> HIDE DEF k
<1> QED BY <1>4, <1>5, <1>6, <1>7, <1>8, ReleaseLists

\* ListInv is inductive.
LEMMA ListInvStep == ListInv /\ [Next]_vars => ListInv'
<1> SUFFICES ASSUME ListInv, [Next]_vars
             PROVE  ListInv'
  OBVIOUS
<1>1. LockInv' /\ LockInv
  BY LockInvStep DEF ListInv
<1>2. ASSUME NEW t \in Thread, Step(t) PROVE ListInv'
  <2>1. \A u \in Thread : AccessesOK(u)'
    BY <1>1, <1>2, AccessesStep DEF ListInv, LockInv
  <2>2. ASSUME NEW u \in Thread, NEW s \in Row
        PROVE  OwnerOf(u, s)' /\ EntryOf(u, s)' /\ Distinct(waiters[s])'
    BY <1>2, GrantedLists, WaitLists, GiveUpLists, ReleaseRowLists, QuietLists
  <2>3. ASSUME NEW s \in Row PROVE Distinct(waiters[s])'
    BY <1>2, <2>2
  <2> QED BY <1>1, <2>1, <2>2, <2>3 DEF ListInv
<1>3. CASE UNCHANGED vars
  BY <1>1, <1>3 DEF vars, ListInv, AccessesOK, OwnerOf, EntryOf, Distinct, Given, Waits, Queued,
     RequestRow, RequestLock, CurrentRequest
<1> QED BY <1>2, <1>3 DEF Next, Terminated

\* The lists of every row match the places of all transactions.
THEOREM ListsConsistent == Spec => []ListInv
<1>1. Init => ListInv
  <2> SUFFICES ASSUME Init PROVE ListInv
    OBVIOUS
  <2>1. LockInv
    <3>1. \A r \in Row : OwnersOK(r) /\ HeadBlocked(r)
      BY DEF Init, OwnersOK, Describes, HeadBlocked
    <3> QED BY <3>1, InitTypeInv DEF LockInv
  <2>2. Len(<<>>) = 0 /\ 1..0 = {}
    OBVIOUS
  <2>3. ASSUME NEW t \in Thread, NEW r \in Row
        PROVE  OwnerOf(t, r) /\ EntryOf(t, r) /\ Distinct(waiters[r])
    <3>1. /\ pc[t] = "idle" /\ accesses[t] = <<>> /\ waiters[r] = <<>> /\ owners[r] = {}
      BY DEF Init
    <3>2. Given(t) = 0 /\ ~Waits(t) /\ ~Queued(t, r)
      BY <2>2, <3>1 DEF Given, Waits, Queued
    <3> QED BY <2>2, <3>1, <3>2 DEF OwnerOf, EntryOf, Distinct
  <2>4. ASSUME NEW t \in Thread PROVE AccessesOK(t)
    BY <2>2 DEF Init, AccessesOK
  <2>5. ASSUME NEW r \in Row PROVE Distinct(waiters[r])
    BY <2>2 DEF Init, Distinct
  <2> QED BY <2>1, <2>3, <2>4, <2>5 DEF ListInv
<1> QED BY <1>1, ListInvStep, PTL DEF Spec

\* Nothing is locked or queued for a transaction that does not know: a grant
\* that races a timeout is given back, and cleanup returns exactly the locks
\* that get_row took.
THEOREM MatchingLists == Spec => []ListsMatchTxns
<1>1. ListInv => ListsMatchTxns
  <2>1. SUFFICES ASSUME ListInv, NEW t \in Thread, NEW r \in Row
                 PROVE  IF pc[t] \in {"wait", "giveup"} /\ r = RequestRow(t)
                        THEN /\ (t \in owners[r]) = lock_ready[t]
                             /\ Queued(t, r) = ~lock_ready[t]
                        ELSE /\ t \in owners[r] <=> r \in LockedRows(t)
                             /\ ~Queued(t, r)
    BY DEF ListsMatchTxns
  <2>2. TypeInv /\ TypeOK /\ CountersOK(t) /\ AccessesOK(t) /\ OwnerOf(t, r) /\ EntryOf(t, r)
    BY <2>1 DEF ListInv, LockInv, TypeInv, CounterInv
  <2> DEFINE n == Len(accesses[t])
  <2>3. Given(t) \in 0..Len(query[t]) /\ n \in 0..Len(query[t]) /\ Len(query[t]) \in Nat
    BY <2>2, GivenType, QueryRows
  <2>4. \A i, j \in 1..Len(query[t]) : query[t][i].row = query[t][j].row => i = j
    BY <2>2, QueryRows
  <2>5. lock_ready[t] \in BOOLEAN
    BY <2>2 DEF TypeOK
  <2>6. \A i \in 1..(n + 1) : i \in 1..n \/ i = n + 1
    BY <2>3
  <2>7. \A i \in 1..n : i \in 1..(n + 1)
    BY <2>3
  <2>8. n + 1 \in 1..(n + 1)
    BY <2>3
  <2>9. CASE Waits(t) /\ r = RequestRow(t)
    <3>1. n + 1 \in 1..Len(query[t])
      BY <2>2, <2>3, <2>9 DEF Waits, CountersOK
    <3>2. query[t][n + 1].row = r
      BY <2>9 DEF RequestRow, CurrentRequest
    <3>3. Queued(t, r) <=> ~lock_ready[t]
      BY <2>2, <2>9 DEF EntryOf
    <3>4. lock_ready[t] => t \in owners[r]
      <4>1. lock_ready[t] => Given(t) = n + 1
        BY <2>9 DEF Given, Waits
      <4> QED BY <2>2, <2>8, <3>2, <4>1 DEF OwnerOf
    <3>5. ~lock_ready[t] => t \notin owners[r]
      BY <2>1, <3>3, OwnerNotQueued
    <3>6. Queued(t, r) \in BOOLEAN
      BY DEF Queued
    <3>7. (t \in owners[r]) = lock_ready[t]
      <4>1. (t \in owners[r]) \in BOOLEAN
        OBVIOUS
      <4>2. (t \in owners[r]) <=> lock_ready[t]
        BY <3>4, <3>5, Zenon
      <4> QED BY <2>5, <4>1, <4>2, Zenon
    <3>8. Queued(t, r) = ~lock_ready[t]
      BY <2>5, <3>3, <3>6, Zenon
    <3>9. pc[t] \in {"wait", "giveup"} /\ r = RequestRow(t)
      BY <2>9 DEF Waits
    <3> QED BY <3>7, <3>8, <3>9, Zenon
  <2>10. CASE ~(Waits(t) /\ r = RequestRow(t))
    <3>1. ~Queued(t, r)
      BY <2>2, <2>10 DEF EntryOf
    <3>2. t \in owners[r] <=> r \in LockedRows(t)
      <4>1. CASE pc[t] \in {"cleanup", "release"}
        <5>1. Given(t) = rid[t] /\ LockedRows(t) = {accesses[t][i].row : i \in 1..rid[t]}
          BY <4>1 DEF Given, LockedRows
        <5>2. \A i \in 1..rid[t] : i \in 1..n
          BY <2>2, <2>3, <4>1 DEF CountersOK, TypeOK
        <5>3. \A i \in 1..rid[t] : accesses[t][i].row = query[t][i].row
          BY <2>2, <5>2 DEF AccessesOK
        <5> QED BY <2>2, <5>1, <5>3 DEF OwnerOf
      <4>2. CASE pc[t] = "granted"
        <5>1. /\ Given(t) = n + 1
              /\ LockedRows(t) = {accesses[t][i].row : i \in 1..n} \cup {query[t][n + 1].row}
          BY <4>2 DEF Given, LockedRows, RequestRow, CurrentRequest
        <5>2. \A i \in 1..n : accesses[t][i].row = query[t][i].row
          BY <2>2 DEF AccessesOK
        <5>3. t \in owners[r] <=> \E i \in 1..(n + 1) : query[t][i].row = r
          BY <2>2, <5>1 DEF OwnerOf
        <5> HIDE DEF n
        <5> QED BY <2>6, <2>7, <2>8, <5>1, <5>2, <5>3
      <4>3. CASE pc[t] \notin {"cleanup", "release", "granted"}
        <5>1. LockedRows(t) = {accesses[t][i].row : i \in 1..n}
          BY <4>3 DEF LockedRows
        <5>2. \A i \in 1..n : accesses[t][i].row = query[t][i].row
          BY <2>2 DEF AccessesOK
        <5>3. Given(t) = n \/ (Given(t) = n + 1 /\ Waits(t))
          BY <4>3 DEF Given
        <5>4. Waits(t) => query[t][n + 1].row # r
          BY <2>10 DEF RequestRow, CurrentRequest
        <5>5. t \in owners[r] <=> \E i \in 1..Given(t) : query[t][i].row = r
          BY <2>2 DEF OwnerOf
        <5>6. t \in owners[r] <=> \E i \in 1..n : query[t][i].row = r
          <6> HIDE DEF n
          <6>1. CASE Given(t) = n
            BY <5>5, <6>1
          <6>2. CASE Given(t) = n + 1 /\ Waits(t)
            BY <2>6, <2>7, <5>4, <5>5, <6>2
          <6> QED BY <5>3, <6>1, <6>2
        <5> HIDE DEF n
        <5> QED BY <5>1, <5>2, <5>6
      <4> QED BY <4>1, <4>2, <4>3
    <3> QED BY <2>10, <3>1, <3>2 DEF Waits
  <2> QED BY <2>9, <2>10
<1> QED BY <1>1, ListsConsistent, PTL

-----------------------------------------------------------------------------
(***************************************************************************)
(* The stored rows.  StableReads is not inductive without the rows that    *)
(* are written: what is stored in every held row is known, and only the    *)
(* one owner of an exclusive lock changes it.                              *)
(***************************************************************************)
\* What is stored in the rows of the held accesses: a row that was read is as it
\* was read, a row that was written is one further, except before the write and
\* after it was undone.
Untouched(t, i) ==
    \/ accesses[t][i].type = "RD"
    \/ pc[t] = "write" /\ i = Len(accesses[t])
    \/ pc[t] = "release" /\ rc[t] = "Abort" /\ i = rid[t]
Expected(t, i) ==
    IF Untouched(t, i) THEN accesses[t][i].orig_data ELSE NewValue(accesses[t][i].orig_data)

OutcomeOK(t) ==
    /\ pc[t] \in {"run", "wait", "granted", "write"} => rc[t] = "RCOK"
    /\ pc[t] = "giveup" => rc[t] = "Abort"
    /\ Committed(t) => Len(accesses[t]) = Len(query[t])
StoredOK(t) == \A i \in HeldAccesses(t) : data[accesses[t][i].row] = Expected(t, i)

WriteOK(t) == pc[t] = "write" => accesses[t][Len(accesses[t])].type = "WR"

DataInv == ListInv /\ \A t \in Thread : OutcomeOK(t) /\ WriteOK(t) /\ StoredOK(t)

\* Whoever was given a row to write shares it with nobody.
LEMMA GivenExclusive ==
  ASSUME ListInv, NEW t \in Thread, NEW u \in Thread, NEW i \in 1..Given(t), NEW j \in 1..Given(u),
         query[t][i].row = query[u][j].row, query[t][i].type = "WR"
  PROVE  u = t /\ j = i
<1>1. TypeInv /\ TypeOK /\ AccessesOK(t) /\ AccessesOK(u)
  BY DEF ListInv, LockInv, TypeInv
<1>2. /\ Given(t) \in 0..Len(query[t]) /\ Len(query[t]) \in Nat
      /\ Given(u) \in 0..Len(query[u]) /\ Len(query[u]) \in Nat
  BY <1>1, GivenType, QueryRows
<1>3. i \in 1..Len(query[t]) /\ j \in 1..Len(query[u])
  BY <1>2
<1> DEFINE r == query[t][i].row
<1>4. r \in Row
  BY <1>1, <1>3, QueryRows
<1>5. OwnerOf(t, r) /\ OwnerOf(u, r) /\ OwnersOK(r)
  BY <1>4 DEF ListInv, LockInv
<1>6. t \in owners[r] /\ u \in owners[r] /\ lock_type[r] = "LOCK_EX"
  BY <1>5 DEF OwnerOf, LockFor
<1>7. u = t
  BY <1>5, <1>6 DEF OwnersOK, Describes
<1> QED BY <1>1, <1>3, <1>7, QueryRows

\* The held accesses are accesses to given rows.
LEMMA HeldGiven ==
  ASSUME ListInv, NEW t \in Thread, NEW i \in HeldAccesses(t)
  PROVE  /\ i \in 1..Given(t) /\ i \in 1..Len(accesses[t]) /\ i \in Nat
         /\ accesses[t][i].row = query[t][i].row /\ accesses[t][i].type = query[t][i].type
         /\ accesses[t][i].row \in Row /\ accesses[t][i].type \in {"RD", "WR"}
         /\ accesses[t][i].orig_data \in Nat
<1>1. TypeInv /\ TypeOK /\ AccessesOK(t) /\ CountersOK(t)
  BY DEF ListInv, LockInv, TypeInv, CounterInv
<1>2. Len(accesses[t]) \in Nat /\ rid[t] \in Nat /\ accesses[t] \in Seq(Access)
  BY <1>1, LenProperties DEF TypeOK
<1>3. i \in 1..Given(t) /\ i \in 1..Len(accesses[t]) /\ i \in Nat
  BY <1>1, <1>2 DEF HeldAccesses, Given, CountersOK
<1>4. accesses[t][i] \in Access
  BY <1>2, <1>3, LenProperties
<1> QED BY <1>1, <1>3, <1>4 DEF AccessesOK, Access

\* A held access to write a row is the only held access to it.
LEMMA HeldExclusive ==
  ASSUME ListInv, NEW t \in Thread, NEW u \in Thread, NEW i \in HeldAccesses(t),
         NEW j \in HeldAccesses(u), accesses[t][i].row = accesses[u][j].row,
         accesses[t][i].type = "WR"
  PROVE  u = t /\ j = i
<1>1. /\ i \in 1..Given(t) /\ accesses[t][i].row = query[t][i].row
      /\ accesses[t][i].type = query[t][i].type
      /\ j \in 1..Given(u) /\ accesses[u][j].row = query[u][j].row
  BY HeldGiven
<1> QED BY <1>1, GivenExclusive

\* A row granted for writing is in nobody's accesses, and one granted for
\* reading in nobody's accesses for writing.
LEMMA GrantedExclusive ==
  ASSUME ListInv, NEW t \in Thread, pc[t] = "granted", NEW u \in Thread, NEW j \in HeldAccesses(u),
         accesses[u][j].row = RequestRow(t),
         CurrentRequest(t).type = "WR" \/ accesses[u][j].type = "WR"
  PROVE  FALSE
<1> DEFINE n == Len(accesses[t])
<1>1. TypeInv /\ TypeOK /\ AccessesOK(t)
  BY DEF ListInv, LockInv, TypeInv
<1>2. n \in Nat /\ Given(t) = n + 1 /\ n + 1 \in 1..(n + 1)
  BY <1>1, LenProperties DEF TypeOK, Given
<1>3. /\ j \in 1..Given(u) /\ accesses[u][j].row = query[u][j].row /\ j \in 1..Len(accesses[u])
      /\ accesses[u][j].type = query[u][j].type
  BY HeldGiven
<1>4. query[t][n + 1].row = query[u][j].row /\ CurrentRequest(t).type = query[t][n + 1].type
  BY <1>3 DEF RequestRow, CurrentRequest
<1>5. n + 1 \in 1..Given(t)
  BY <1>2
<1> HIDE DEF n
<1>6. u = t /\ j = n + 1
  <2>1. CASE query[t][n + 1].type = "WR"
    BY <1>3, <1>4, <1>5, <2>1, GivenExclusive
  <2>2. CASE query[u][j].type = "WR"
    <3>1. query[u][j].row = query[t][n + 1].row
      BY <1>4
    <3>2. t = u /\ n + 1 = j
      BY <1>3, <1>5, <2>2, <3>1, GivenExclusive
    <3> QED BY <3>2
  <2> QED BY <1>3, <1>4, <2>1, <2>2
<1> QED BY <1>2, <1>3, <1>6 DEF n

\* A step decides the outcome of its own transaction only.
LEMMA OtherOutcomes ==
  ASSUME TypeOK, NEW t \in Thread, NEW u \in Thread, u # t, Step(t)
  PROVE  rc'[u] = rc[u]
  BY DEF TypeOK, Step, Begin, LockGranted, LockWait, LockRefused, WaitReady,
         WaitTimeout, WaitAbort, GiveUp, TakeAccess, WriteRow, Finish, ReturnRow,
         ReleaseRow, EndTxn

\* The outcome follows the place of the transaction.
LEMMA OutcomeStep ==
  ASSUME ListInv, NEW t \in Thread, Step(t), NEW u \in Thread, OutcomeOK(u)
  PROVE  OutcomeOK(u)'
<1>1. TypeOK
  BY DEF ListInv, LockInv, TypeInv
<1>2. CASE u # t
  BY <1>1, <1>2, OtherTxns, OtherOutcomes DEF OutcomeOK, Committed
<1>3. CASE u = t
  <2>0. pc \in [Thread -> PC] /\ rc \in [Thread -> {"RCOK", "Abort"}]
    BY <1>1 DEF TypeOK
  <2> USE DEF OutcomeOK, Committed
  <2>1. CASE Begin(t)
    BY <1>3, <2>0, <2>1 DEF Begin
  <2>2. CASE LockRefused(t) \/ WaitAbort(t)
    BY <1>3, <2>0, <2>2 DEF LockRefused, WaitAbort
  <2>3. CASE Finish(t)
    BY <1>3, <2>0, <2>3 DEF Finish
  <2>4. CASE LockGranted(t) \/ LockWait(t) \/ WaitReady(t) \/ WaitTimeout(t) \/ TakeAccess(t)
    BY <1>3, <2>0, <2>4 DEF LockGranted, LockWait, WaitReady, WaitTimeout, TakeAccess, HasRequest
  <2>5. CASE WriteRow(t)
    BY <1>3, <2>0, <2>5 DEF WriteRow
  <2>6. CASE GiveUp(t)
    BY <1>3, <2>0, <2>6 DEF GiveUp
  <2>7. CASE ReturnRow(t) \/ ReleaseRow(t)
    BY <1>3, <2>0, <2>7 DEF ReturnRow, ReleaseRow
  <2>8. CASE EndTxn(t)
    BY <1>3, <2>0, <2>8 DEF EndTxn
  <2> QED BY <2>1, <2>2, <2>3, <2>4, <2>5, <2>6, <2>7, <2>8 DEF Step
<1> QED BY <1>2, <1>3

\* A transaction that keeps its accesses, or returns some, while nobody changes
\* the rows.
LEMMA SameStored ==
  ASSUME NEW u \in Thread, StoredOK(u), accesses'[u] = accesses[u],
         \A i \in HeldAccesses(u)' :
            /\ i \in HeldAccesses(u) /\ (Untouched(u, i)' <=> Untouched(u, i))
            /\ data'[accesses[u][i].row] = data[accesses[u][i].row]
  PROVE  StoredOK(u)'
<1>1. SUFFICES ASSUME NEW i \in HeldAccesses(u)'
               PROVE  data'[accesses'[u][i].row] = Expected(u, i)'
  BY DEF StoredOK
<1>2. data[accesses[u][i].row] = Expected(u, i)
  BY <1>1 DEF StoredOK
<1>3. Expected(u, i)' = Expected(u, i)
  BY <1>1 DEF Expected
<1> QED BY <1>1, <1>2, <1>3

\* Which rows a step changes: those its transaction holds exclusively.
LEMMA ChangedRows ==
  ASSUME ListInv, NEW t \in Thread, WriteOK(t), Step(t), NEW r \in Row, data'[r] # data[r]
  PROVE  /\ WriteRow(t) \/ ReturnRow(t)
         /\ ~Committed(t)
         /\ \E i \in HeldAccesses(t) :
              /\ accesses[t][i].row = r /\ accesses[t][i].type = "WR"
              /\ WriteRow(t) => i = Len(accesses[t]) /\ data'[r] = NewValue(accesses[t][i].orig_data)
              /\ ReturnRow(t) => i = rid[t] /\ data'[r] = accesses[t][i].orig_data
<1>1. TypeInv /\ TypeOK /\ CountersOK(t) /\ AccessesOK(t)
  BY DEF ListInv, LockInv, TypeInv, CounterInv
<1>2. Len(accesses[t]) \in Nat /\ rid[t] \in Nat /\ data \in [Row -> Nat]
  BY <1>1, LenProperties DEF TypeOK
<1>3. data' # data
  OBVIOUS
<1>4. WriteRow(t) \/ ReturnRow(t)
  BY <1>3 DEF Step, Begin, LockGranted, LockWait, LockRefused, WaitReady,
         WaitTimeout, WaitAbort, GiveUp, TakeAccess, Finish, ReleaseRow, EndTxn
<1>5. CASE WriteRow(t)
  <2> DEFINE n == Len(accesses[t])
  <2>1. pc[t] = "write" /\ n > 0
    BY <1>1, <1>5 DEF WriteRow, CountersOK
  <2>2. n \in HeldAccesses(t) /\ ~Committed(t) /\ ~ReturnRow(t)
    BY <1>2, <2>1 DEF HeldAccesses, Committed, ReturnRow
  <2>3. data' = [data EXCEPT ![accesses[t][n].row] = NewValue(accesses[t][n].orig_data)]
    BY <1>5 DEF WriteRow
  <2>4. accesses[t][n].row \in Row
    BY <2>2, HeldGiven
  <2>5. accesses[t][n].row = r /\ data'[r] = NewValue(accesses[t][n].orig_data)
    BY <1>2, <2>3, <2>4
  <2>6. accesses[t][n].type = "WR"
    BY <2>1, <2>2 DEF WriteOK
  <2> QED BY <1>5, <2>2, <2>5, <2>6
<1>6. CASE ReturnRow(t)
  <2> DEFINE n == rid[t]
  <2>1. pc[t] = "cleanup" /\ n > 0 /\ ~WriteRow(t)
    BY <1>6 DEF ReturnRow, WriteRow
  <2>2. n \in HeldAccesses(t)
    BY <1>2, <2>1 DEF HeldAccesses
  <2>3. accesses[t][n].row \in Row
    BY <2>2, HeldGiven
  <2>4. /\ accesses[t][n].type = "WR" /\ rc[t] = "Abort"
        /\ data' = [data EXCEPT ![accesses[t][n].row] = accesses[t][n].orig_data]
    BY <1>3, <1>6 DEF ReturnRow
  <2>5. accesses[t][n].row = r /\ data'[r] = accesses[t][n].orig_data
    BY <1>2, <2>3, <2>4
  <2>6. ~Committed(t)
    BY <2>4 DEF Committed
  <2> QED BY <1>6, <2>1, <2>2, <2>4, <2>5, <2>6
<1> QED BY <1>4, <1>5, <1>6

\* What the access of a grant looks like.
LEMMA Taken ==
  ASSUME ListInv, NEW t \in Thread, TakeAccess(t)
  PROVE  /\ Len(accesses'[t]) = Len(accesses[t]) + 1
         /\ \A i \in 1..Len(accesses[t]) : accesses'[t][i] = accesses[t][i]
         /\ accesses'[t][Len(accesses[t]) + 1] =
               [row |-> RequestRow(t), type |-> CurrentRequest(t).type, orig_data |-> data[RequestRow(t)]]
         /\ pc[t] = "granted" /\ pc'[t] = IF CurrentRequest(t).type = "WR" THEN "write" ELSE "run"
         /\ RequestRow(t) \in Row /\ CurrentRequest(t).type \in {"RD", "WR"}
         /\ Len(accesses[t]) \in Nat
<1> DEFINE a == [row |-> RequestRow(t), type |-> CurrentRequest(t).type, orig_data |-> data[RequestRow(t)]]
<1>1. TypeOK /\ CountersOK(t)
  BY DEF ListInv, LockInv, TypeInv, CounterInv
<1>2. /\ pc[t] = "granted" /\ accesses'[t] = Append(accesses[t], a)
      /\ pc'[t] = IF CurrentRequest(t).type = "WR" THEN "write" ELSE "run"
  BY <1>1 DEF TakeAccess, TypeOK
<1>3. RequestRow(t) \in Row /\ CurrentRequest(t).type \in {"RD", "WR"}
  BY <1>1, <1>2, RequestType DEF CountersOK
<1>4. a \in Access /\ accesses[t] \in Seq(Access) /\ Len(accesses[t]) \in Nat
  BY <1>1, <1>3, LenProperties DEF Access, TypeOK
<1> HIDE DEF a
<1>5. /\ Len(accesses'[t]) = Len(accesses[t]) + 1
      /\ \A i \in 1..Len(accesses[t]) : accesses'[t][i] = accesses[t][i]
      /\ accesses'[t][Len(accesses[t]) + 1] = a
  BY <1>2, <1>4, AppendProperties
<1> QED BY <1>2, <1>3, <1>4, <1>5 DEF a

\* Only an access for writing is followed by a write.
LEMMA WriteStep ==
  ASSUME ListInv, NEW t \in Thread, Step(t), NEW u \in Thread, WriteOK(u)
  PROVE  WriteOK(u)'
<1>1. TypeOK
  BY DEF ListInv, LockInv, TypeInv
<1>2. CASE u # t
  BY <1>1, <1>2, OtherTxns DEF WriteOK
<1>3. CASE u = t /\ TakeAccess(t)
  <2>1. CurrentRequest(t).type = accesses'[t][Len(accesses'[t])].type
    <3>1. /\ Len(accesses'[t]) = Len(accesses[t]) + 1
          /\ accesses'[t][Len(accesses[t]) + 1] =
               [row |-> RequestRow(t), type |-> CurrentRequest(t).type, orig_data |-> data[RequestRow(t)]]
      BY <1>3, Taken
    <3> QED BY <3>1
  <2>2. pc'[t] = "write" => CurrentRequest(t).type = "WR"
    BY <1>3, Taken
  <2> QED BY <1>3, <2>1, <2>2 DEF WriteOK
<1>4. CASE u = t /\ ~TakeAccess(t)
  <2>1. pc'[u] # "write"
    BY <1>1, <1>4 DEF TypeOK, Step, Begin, LockGranted, LockWait, LockRefused, WaitReady,
       WaitTimeout, WaitAbort, GiveUp, WriteRow, Finish, ReturnRow, ReleaseRow, EndTxn
  <2> QED BY <2>1 DEF WriteOK
<1> QED BY <1>2, <1>3, <1>4

\* What is stored in the rows a transaction holds.
LEMMA StoredStep ==
  ASSUME DataInv, NEW t \in Thread, Step(t), NEW u \in Thread
  PROVE  StoredOK(u)'
<1>1. /\ ListInv /\ TypeInv /\ TypeOK /\ WriteOK(t) /\ StoredOK(u) /\ CountersOK(t) /\ AccessesOK(t)
      /\ OutcomeOK(t)
  BY DEF DataInv, ListInv, LockInv, TypeInv, CounterInv
<1>2. /\ pc \in [Thread -> PC] /\ rc \in [Thread -> {"RCOK", "Abort"}] /\ rid \in [Thread -> Nat]
      /\ accesses \in [Thread -> Seq(Access)] /\ Len(accesses[t]) \in Nat
  BY <1>1, LenProperties DEF TypeOK
<1>3. ASSUME NEW i \in HeldAccesses(u), data'[accesses[u][i].row] # data[accesses[u][i].row]
      PROVE  /\ u = t /\ accesses[u][i].type = "WR" /\ ~Committed(t)
             /\ \/ WriteRow(t) /\ i = Len(accesses[t])
                   /\ data'[accesses[u][i].row] = NewValue(accesses[u][i].orig_data)
                \/ ReturnRow(t) /\ i = rid[t] /\ data'[accesses[u][i].row] = accesses[u][i].orig_data
  <2>1. accesses[u][i].row \in Row
    BY <1>1, HeldGiven
  <2>2. /\ WriteRow(t) \/ ReturnRow(t)
        /\ ~Committed(t)
        /\ \E j \in HeldAccesses(t) :
              /\ accesses[t][j].row = accesses[u][i].row /\ accesses[t][j].type = "WR"
              /\ WriteRow(t) => j = Len(accesses[t])
                    /\ data'[accesses[u][i].row] = NewValue(accesses[t][j].orig_data)
              /\ ReturnRow(t) => j = rid[t] /\ data'[accesses[u][i].row] = accesses[t][j].orig_data
    <3> DEFINE r == accesses[u][i].row
    <3>1. r \in Row /\ data'[r] # data[r]
      BY <1>3, <2>1
    <3> HIDE DEF r
    <3>2. /\ WriteRow(t) \/ ReturnRow(t)
          /\ ~Committed(t)
          /\ \E j \in HeldAccesses(t) :
              /\ accesses[t][j].row = r /\ accesses[t][j].type = "WR"
              /\ WriteRow(t) => j = Len(accesses[t]) /\ data'[r] = NewValue(accesses[t][j].orig_data)
              /\ ReturnRow(t) => j = rid[t] /\ data'[r] = accesses[t][j].orig_data
      BY <1>1, <3>1, ChangedRows
    <3> QED BY <3>2 DEF r
  <2>3. PICK j \in HeldAccesses(t) :
              /\ accesses[t][j].row = accesses[u][i].row /\ accesses[t][j].type = "WR"
              /\ WriteRow(t) => j = Len(accesses[t])
                    /\ data'[accesses[u][i].row] = NewValue(accesses[t][j].orig_data)
              /\ ReturnRow(t) => j = rid[t] /\ data'[accesses[u][i].row] = accesses[t][j].orig_data
    BY <2>2
  <2>4. u = t /\ i = j
    BY <1>1, <2>3, HeldExclusive
  <2> QED BY <2>2, <2>3, <2>4
<1>4. CASE u # t
  <2>1. /\ pc'[u] = pc[u] /\ accesses'[u] = accesses[u] /\ rid'[u] = rid[u] /\ rc'[u] = rc[u]
    BY <1>1, <1>4, OtherTxns, OtherOutcomes
  <2>2. HeldAccesses(u)' = HeldAccesses(u) /\ \A i : Untouched(u, i)' <=> Untouched(u, i)
    BY <2>1 DEF HeldAccesses, Untouched
  <2> QED BY <1>1, <1>3, <1>4, <2>1, <2>2, SameStored
<1>5. CASE u = t /\ (Begin(t) \/ EndTxn(t))
  <2>1. accesses'[t] = <<>> /\ pc'[t] \in {"run", "idle"}
    BY <1>1, <1>2, <1>5 DEF Begin, EndTxn, AccessesOK
  <2>2. Len(<<>>) = 0 /\ 1..0 = {}
    OBVIOUS
  <2>3. HeldAccesses(t)' = {}
    BY <2>1, <2>2 DEF HeldAccesses
  <2> QED BY <1>5, <2>3 DEF StoredOK
<1>6. CASE u = t /\ ~(Begin(t) \/ EndTxn(t) \/ TakeAccess(t) \/ WriteRow(t) \/ ReturnRow(t) \/ ReleaseRow(t))
  <2>1. /\ accesses'[t] = accesses[t] /\ pc[t] \notin {"write", "cleanup", "release"}
        /\ pc'[t] # "write" /\ pc'[t] # "release"
        /\ pc'[t] = "cleanup" => rid'[t] = Len(accesses[t])
    BY <1>2, <1>6 DEF Step, HasRequest, LockGranted, LockWait, LockRefused, WaitReady,
       WaitTimeout, WaitAbort, GiveUp, Finish
  <2>2. HeldAccesses(t)' = HeldAccesses(t) /\ \A i : Untouched(t, i)' <=> Untouched(t, i)
    BY <2>1 DEF HeldAccesses, Untouched
  <2> QED BY <1>1, <1>3, <1>6, <2>1, <2>2, SameStored
<1>7. CASE u = t /\ TakeAccess(t)
  <2> DEFINE n == Len(accesses[t])
  <2>1. /\ Len(accesses'[t]) = n + 1 /\ \A i \in 1..n : accesses'[t][i] = accesses[t][i]
        /\ accesses'[t][n + 1] =
               [row |-> RequestRow(t), type |-> CurrentRequest(t).type, orig_data |-> data[RequestRow(t)]]
        /\ pc[t] = "granted" /\ pc'[t] = IF CurrentRequest(t).type = "WR" THEN "write" ELSE "run"
        /\ CurrentRequest(t).type \in {"RD", "WR"} /\ data' = data
    BY <1>1, <1>7, Taken DEF TakeAccess
  <2>2. HeldAccesses(t) = 1..n /\ HeldAccesses(t)' = 1..(n + 1)
    BY <2>1 DEF HeldAccesses
  <2>3. SUFFICES ASSUME NEW i \in 1..(n + 1)
                 PROVE  data'[accesses'[t][i].row] = Expected(t, i)'
    BY <1>7, <2>2 DEF StoredOK
  <2>4. CASE i \in 1..n
    <3>1. i # Len(accesses'[t]) /\ i # n + 1 /\ i # Len(accesses[t]) + 1
      BY <1>2, <2>1, <2>4
    <3>2. accesses'[t][i] = accesses[t][i]
      BY <2>1, <2>4
    <3>3. Untouched(t, i) <=> accesses[t][i].type = "RD"
      BY <2>1 DEF Untouched
    <3>4. Untouched(t, i)' <=> accesses[t][i].type = "RD"
      BY <2>1, <3>1, <3>2 DEF Untouched
    <3>5. data[accesses[t][i].row] = Expected(t, i)
      BY <1>1, <1>7, <2>2, <2>4 DEF StoredOK
    <3> QED BY <2>1, <3>2, <3>3, <3>4, <3>5 DEF Expected
  <2>5. CASE i = n + 1
    <3>1. Untouched(t, i)'
      BY <2>1, <2>5 DEF Untouched
    <3> QED BY <2>1, <2>5, <3>1 DEF Expected
  <2> QED BY <1>2, <2>4, <2>5
<1>8. CASE u = t /\ WriteRow(t)
  <2> DEFINE n == Len(accesses[t])
  <2>1. accesses'[t] = accesses[t] /\ pc[t] = "write" /\ pc'[t] = "run" /\ n > 0
    BY <1>1, <1>2, <1>8 DEF WriteRow, CountersOK
  <2>2. HeldAccesses(t)' = HeldAccesses(t) /\ n \in HeldAccesses(t) /\ HeldAccesses(t) = 1..n
    BY <1>2, <2>1 DEF HeldAccesses
  <2>3. SUFFICES ASSUME NEW i \in HeldAccesses(t)
                 PROVE  data'[accesses[t][i].row] = Expected(t, i)'
    BY <1>8, <2>1, <2>2 DEF StoredOK
  <2>4. Untouched(t, i)' <=> accesses[t][i].type = "RD"
    BY <2>1 DEF Untouched
  <2>5. CASE i = n
    <3>1. accesses[t][n].type = "WR"
      BY <1>1, <2>1 DEF WriteOK
    <3>2. accesses[t][n].row \in Row /\ data \in [Row -> Nat]
      BY <1>1, <2>2, HeldGiven DEF TypeOK
    <3>3. data' = [data EXCEPT ![accesses[t][n].row] = NewValue(accesses[t][n].orig_data)]
      BY <1>8 DEF WriteRow
    <3>4. data'[accesses[t][n].row] = NewValue(accesses[t][n].orig_data)
      BY <3>2, <3>3
    <3> QED BY <2>1, <2>4, <2>5, <3>1, <3>4 DEF Expected
  <2>6. CASE i # n
    <3>1. Untouched(t, i) <=> accesses[t][i].type = "RD"
      BY <2>1, <2>6 DEF Untouched
    <3>2. data[accesses[t][i].row] = Expected(t, i)
      BY <1>1, <1>8, <2>3 DEF StoredOK
    <3>3. data'[accesses[t][i].row] = data[accesses[t][i].row]
      <4>1. ~ReturnRow(t)
        BY <2>1 DEF ReturnRow
      <4> QED BY <1>3, <1>8, <2>6, <4>1
    <3> QED BY <2>1, <2>4, <3>1, <3>2, <3>3 DEF Expected
  <2> QED BY <2>5, <2>6
<1>9. CASE u = t /\ ReturnRow(t)
  <2> DEFINE n == rid[t]
  <2>1. /\ accesses'[t] = accesses[t] /\ pc[t] = "cleanup" /\ pc'[t] = "release" /\ rid'[t] = n /\ n > 0
        /\ rc'[t] = rc[t]
    BY <1>2, <1>9 DEF ReturnRow
  <2>2. HeldAccesses(t)' = HeldAccesses(t) /\ n \in HeldAccesses(t)
    BY <1>2, <2>1 DEF HeldAccesses
  <2>3. SUFFICES ASSUME NEW i \in HeldAccesses(t)
                 PROVE  data'[accesses[t][i].row] = Expected(t, i)'
    BY <1>9, <2>1, <2>2 DEF StoredOK
  <2>4. Untouched(t, i)' <=> accesses[t][i].type = "RD" \/ (rc[t] = "Abort" /\ i = n)
    BY <2>1 DEF Untouched
  <2>5. Untouched(t, i) <=> accesses[t][i].type = "RD"
    BY <2>1 DEF Untouched
  <2>6. data[accesses[t][i].row] = Expected(t, i)
    BY <1>1, <1>9, <2>3 DEF StoredOK
  <2>7. CASE rc[t] = "Abort" /\ i = n /\ accesses[t][i].type = "WR"
    <3>1. accesses[t][n].row \in Row /\ data \in [Row -> Nat]
      BY <1>1, <2>2, HeldGiven DEF TypeOK
    <3>2. data' = [data EXCEPT ![accesses[t][n].row] = accesses[t][n].orig_data]
      BY <1>9, <2>7 DEF ReturnRow
    <3>3. data'[accesses[t][n].row] = accesses[t][n].orig_data
      BY <3>1, <3>2
    <3> QED BY <2>1, <2>4, <2>7, <3>3 DEF Expected
  <2>8. CASE ~(rc[t] = "Abort" /\ i = n /\ accesses[t][i].type = "WR")
    <3>1. data'[accesses[t][i].row] = data[accesses[t][i].row]
      <4>1. ~WriteRow(t)
        BY <2>1 DEF WriteRow
      <4>2. rc[t] # "Abort" => Committed(t)
        BY <1>2, <2>1 DEF Committed
      <4> QED BY <1>3, <1>9, <2>8, <4>1, <4>2
    <3>2. accesses[t][i].type \in {"RD", "WR"}
      BY <1>1, HeldGiven
    <3>3. Untouched(t, i)' <=> Untouched(t, i)
      BY <2>4, <2>5, <2>8, <3>2
    <3> QED BY <2>1, <2>6, <3>1, <3>3 DEF Expected
  <2> QED BY <2>7, <2>8
<1>10. CASE u = t /\ ReleaseRow(t)
  <2> DEFINE n == rid[t]
  <2>1. /\ accesses'[t] = accesses[t] /\ pc[t] = "release" /\ pc'[t] = "cleanup" /\ rid'[t] = n - 1
        /\ n > 0 /\ rc'[t] = rc[t]
    BY <1>1, <1>2, <1>10 DEF ReleaseRow, CountersOK
  <2>2. \A i \in HeldAccesses(t)' : i \in HeldAccesses(t) /\ i # n
    BY <1>2, <2>1 DEF HeldAccesses
  <2>3. \A i \in HeldAccesses(t)' : Untouched(t, i)' <=> Untouched(t, i)
    BY <2>1, <2>2 DEF Untouched
  <2>4. data' = data
    BY <1>10 DEF ReleaseRow
  <2> QED BY <1>1, <1>10, <2>1, <2>2, <2>3, <2>4, SameStored
<1> QED BY <1>4, <1>5, <1>6, <1>7, <1>8, <1>9, <1>10

\* DataInv is inductive.
LEMMA DataInvStep == DataInv /\ [Next]_vars => DataInv'
<1> SUFFICES ASSUME DataInv, [Next]_vars
             PROVE  DataInv'
  OBVIOUS
<1>1. ListInv' /\ ListInv
  BY ListInvStep DEF DataInv
<1>2. ASSUME NEW t \in Thread, Step(t) PROVE DataInv'
  <2>1. ASSUME NEW u \in Thread PROVE OutcomeOK(u)' /\ WriteOK(u)' /\ StoredOK(u)'
    BY <1>1, <1>2, OutcomeStep, WriteStep, StoredStep DEF DataInv
  <2> QED BY <1>1, <2>1 DEF DataInv
<1>3. CASE UNCHANGED vars
  BY <1>1, <1>3 DEF vars, DataInv, OutcomeOK, WriteOK, StoredOK, Expected, Untouched, HeldAccesses,
     Committed
<1> QED BY <1>2, <1>3 DEF Next, Terminated

\* What is stored follows from who holds the rows.
THEOREM RowsStored == Spec => []DataInv
<1>1. ListInv /\ Init => DataInv
  <2> SUFFICES ASSUME ListInv, Init, NEW t \in Thread PROVE OutcomeOK(t) /\ WriteOK(t) /\ StoredOK(t)
    BY DEF DataInv
  <2>1. pc[t] = "idle" /\ accesses[t] = <<>> /\ Len(<<>>) = 0 /\ 1..0 = {}
    BY DEF Init
  <2>2. HeldAccesses(t) = {}
    BY <2>1 DEF HeldAccesses
  <2> QED BY <2>1, <2>2 DEF OutcomeOK, WriteOK, StoredOK, Committed
<1> QED BY <1>1, ListsConsistent, DataInvStep, PTL DEF Spec

\* What a transaction read is still stored for as long as it holds the lock,
\* whoever writes, undoes or releases meanwhile.
THEOREM ReadsStable == Spec => []StableReads
<1>1. DataInv => StableReads
  BY DEF DataInv, StableReads, StoredOK, Expected, Untouched
<1> QED BY <1>1, RowsStored, PTL

-----------------------------------------------------------------------------
(***************************************************************************)
(* Atomicity: the locking engine implements AtomicStore.  The committed    *)
(* content of a row is its undo copy, if some transaction that may yet     *)
(* roll back holds one, and there is at most one.                          *)
(***************************************************************************)
\* The i-th access of t holds the undo copy of a row.
Undo(t, i, r) ==
    /\ ~Committed(t) /\ i \in HeldAccesses(t)
    /\ accesses[t][i].row = r /\ accesses[t][i].type = "WR"

\* What the committed content is, by the undo copies.
ContentKnown ==
    \A r \in Row :
        /\ \A t \in Thread, i \in Nat : Undo(t, i, r) => CommittedValue(r) = accesses[t][i].orig_data
        /\ (\A t \in Thread, i \in Nat : ~Undo(t, i, r)) => CommittedValue(r) = data[r]

\* Nobody else holds an undo copy of the same row.
LEMMA UndoOnce ==
  ASSUME ListInv, NEW r, NEW t \in Thread, NEW i \in Nat, Undo(t, i, r),
         NEW u \in Thread, NEW j \in HeldAccesses(u), accesses[u][j].row = r
  PROVE  u = t /\ j = i
  BY HeldExclusive DEF Undo

LEMMA UndoCopiesAre ==
  ASSUME ListInv, NEW r \in Row, NEW v
  PROVE  v \in UndoCopies(r) <=> \E t \in Thread, i \in Nat : Undo(t, i, r) /\ v = accesses[t][i].orig_data
<1>1. ASSUME v \in UndoCopies(r)
      PROVE  \E t \in Thread, i \in Nat : Undo(t, i, r) /\ v = accesses[t][i].orig_data
  <2>1. PICK t \in Thread : /\ ~Committed(t)
                            /\ v \in {accesses[t][i].orig_data :
                                 i \in {j \in HeldAccesses(t) :
                                    accesses[t][j].row = r /\ accesses[t][j].type = "WR"}}
    BY <1>1 DEF UndoCopies
  <2>2. PICK i \in HeldAccesses(t) : /\ accesses[t][i].row = r /\ accesses[t][i].type = "WR"
                                     /\ v = accesses[t][i].orig_data
    BY <2>1
  <2>3. i \in Nat
    BY HeldGiven
  <2> QED BY <2>1, <2>2, <2>3 DEF Undo
<1>2. ASSUME NEW t \in Thread, NEW i \in Nat, Undo(t, i, r)
      PROVE  accesses[t][i].orig_data \in UndoCopies(r)
  <2>1. t \in {u \in Thread : ~Committed(u)}
    BY <1>2 DEF Undo
  <2>2. i \in {j \in HeldAccesses(t) : accesses[t][j].row = r /\ accesses[t][j].type = "WR"}
    BY <1>2 DEF Undo
  <2> QED BY <2>1, <2>2 DEF UndoCopies
<1> QED BY <1>1, <1>2

LEMMA Content == ListInv => ContentKnown
<1> SUFFICES ASSUME ListInv, NEW r \in Row
             PROVE  /\ \A t \in Thread, i \in Nat :
                           Undo(t, i, r) => CommittedValue(r) = accesses[t][i].orig_data
                    /\ (\A t \in Thread, i \in Nat : ~Undo(t, i, r)) => CommittedValue(r) = data[r]
  BY DEF ContentKnown
<1>1. ASSUME NEW t \in Thread, NEW i \in Nat, Undo(t, i, r)
      PROVE  CommittedValue(r) = accesses[t][i].orig_data
  <2>1. accesses[t][i].orig_data \in UndoCopies(r)
    BY <1>1, UndoCopiesAre
  <2>2. ASSUME NEW v \in UndoCopies(r) PROVE v = accesses[t][i].orig_data
    <3>1. PICK u \in Thread, j \in Nat : Undo(u, j, r) /\ v = accesses[u][j].orig_data
      BY UndoCopiesAre
    <3>2. j \in HeldAccesses(u) /\ accesses[u][j].row = r
      BY <3>1 DEF Undo
    <3>3. u = t /\ j = i
      BY <1>1, <3>2, UndoOnce
    <3> QED BY <3>1, <3>3
  <2> QED BY <2>1, <2>2 DEF CommittedValue
<1>2. ASSUME \A t \in Thread, i \in Nat : ~Undo(t, i, r)
      PROVE  CommittedValue(r) = data[r]
  <2>1. UndoCopies(r) = {}
    BY <1>2, UndoCopiesAre
  <2> QED BY <2>1 DEF CommittedValue
<1> QED BY <1>1, <1>2

\* A step that keeps the undo copies of a row, and what is stored in a row
\* without one, keeps its committed content.
LEMMA SameContent ==
  ASSUME ContentKnown, ContentKnown', NEW r \in Row,
         \A u \in Thread, i \in Nat : Undo(u, i, r)' <=> Undo(u, i, r),
         \A u \in Thread, i \in Nat : Undo(u, i, r) =>
             accesses'[u][i].orig_data = accesses[u][i].orig_data,
         (\A u \in Thread, i \in Nat : ~Undo(u, i, r)) => data'[r] = data[r]
  PROVE  CommittedValue(r)' = CommittedValue(r)
<1>1. CASE \A u \in Thread, i \in Nat : ~Undo(u, i, r)
  <2>1. CommittedValue(r) = data[r]
    BY <1>1 DEF ContentKnown
  <2>2. CommittedValue(r)' = data'[r]
    BY <1>1 DEF ContentKnown
  <2> QED BY <1>1, <2>1, <2>2
<1>2. CASE ~(\A u \in Thread, i \in Nat : ~Undo(u, i, r))
  <2>1. PICK u \in Thread, i \in Nat : Undo(u, i, r)
    BY <1>2
  <2>2. CommittedValue(r) = accesses[u][i].orig_data
    BY <2>1 DEF ContentKnown
  <2>3. CommittedValue(r)' = accesses'[u][i].orig_data
    BY <2>1 DEF ContentKnown
  <2> QED BY <2>1, <2>2, <2>3
<1> QED BY <1>1, <1>2

\* The other transactions keep their undo copies.
LEMMA OtherUndo ==
  ASSUME TypeOK, NEW t \in Thread, Step(t), NEW u \in Thread, u # t, NEW i \in Nat, NEW r
  PROVE  /\ Undo(u, i, r)' <=> Undo(u, i, r)
         /\ accesses'[u] = accesses[u] /\ query'[u] = query[u]
         /\ Undecided(u)' <=> Undecided(u)
<1>1. /\ pc'[u] = pc[u] /\ accesses'[u] = accesses[u] /\ rid'[u] = rid[u] /\ rc'[u] = rc[u]
      /\ query'[u] = query[u]
  BY OtherTxns, OtherOutcomes
<1> QED BY <1>1 DEF Undo, Committed, HeldAccesses, Undecided

\* Steps that end no transaction and take or return no access for writing leave
\* all committed content as it is, the writes themselves included.
LEMMA QuietContent ==
  ASSUME DataInv, ContentKnown, ContentKnown', NEW t \in Thread, Step(t), NEW r \in Row,
         ~(TakeAccess(t) \/ Finish(t) \/ ReleaseRow(t))
  PROVE  CommittedValue(r)' = CommittedValue(r)
<1>1. /\ ListInv /\ TypeInv /\ TypeOK /\ WriteOK(t) /\ CountersOK(t) /\ AccessesOK(t) /\ OutcomeOK(t)
  BY DEF DataInv, ListInv, LockInv, TypeInv, CounterInv
<1>2. /\ pc \in [Thread -> PC] /\ rc \in [Thread -> {"RCOK", "Abort"}] /\ rid \in [Thread -> Nat]
      /\ accesses \in [Thread -> Seq(Access)] /\ Len(accesses[t]) \in Nat
  BY <1>1, LenProperties DEF TypeOK
<1>3. ASSUME NEW i \in Nat
      PROVE  /\ Undo(t, i, r)' <=> Undo(t, i, r)
             /\ Undo(t, i, r) => accesses'[t][i] = accesses[t][i]
  <2>1. CASE Begin(t) \/ EndTxn(t)
    <3>1. /\ accesses'[t] = <<>> /\ pc'[t] \in {"run", "idle"}
          /\ \/ accesses[t] = <<>> /\ pc[t] = "idle"
             \/ pc[t] = "cleanup" /\ rid[t] = 0
      BY <1>1, <1>2, <2>1 DEF Begin, EndTxn, AccessesOK
    <3>2. Len(<<>>) = 0 /\ 1..0 = {}
      OBVIOUS
    <3>3. HeldAccesses(t)' = {} /\ HeldAccesses(t) = {}
      BY <3>1, <3>2 DEF HeldAccesses
    <3> QED BY <3>3 DEF Undo
  <2>2. CASE ~(Begin(t) \/ EndTxn(t) \/ WriteRow(t) \/ ReturnRow(t))
    <3>1. /\ accesses'[t] = accesses[t] /\ pc[t] \notin {"cleanup", "release"}
          /\ pc'[t] # "release"
          /\ pc'[t] = "cleanup" => rid'[t] = Len(accesses[t]) /\ rc'[t] = "Abort"
      BY <1>1, <1>2, <2>2 DEF Step, HasRequest, LockGranted, LockWait, LockRefused, WaitReady,
         WaitTimeout, WaitAbort, GiveUp, OutcomeOK
    <3>2. HeldAccesses(t)' = HeldAccesses(t) /\ ~Committed(t) /\ ~Committed(t)'
      BY <3>1 DEF HeldAccesses, Committed
    <3> QED BY <3>1, <3>2 DEF Undo
  <2>3. CASE WriteRow(t)
    <3>1. accesses'[t] = accesses[t] /\ pc[t] = "write" /\ pc'[t] = "run"
      BY <1>2, <2>3 DEF WriteRow
    <3>2. HeldAccesses(t)' = HeldAccesses(t) /\ ~Committed(t) /\ ~Committed(t)'
      BY <3>1 DEF HeldAccesses, Committed
    <3> QED BY <3>1, <3>2 DEF Undo
  <2>4. CASE ReturnRow(t)
    <3>1. /\ accesses'[t] = accesses[t] /\ pc[t] = "cleanup" /\ pc'[t] = "release"
          /\ rid'[t] = rid[t] /\ rc'[t] = rc[t]
      BY <1>2, <2>4 DEF ReturnRow
    <3>2. HeldAccesses(t)' = HeldAccesses(t) /\ (Committed(t)' <=> Committed(t))
      BY <3>1 DEF HeldAccesses, Committed
    <3> QED BY <3>1, <3>2 DEF Undo
  <2> QED BY <2>1, <2>2, <2>3, <2>4
<1>4. ASSUME NEW u \in Thread, NEW i \in Nat
      PROVE  /\ Undo(u, i, r)' <=> Undo(u, i, r)
             /\ Undo(u, i, r) => accesses'[u][i].orig_data = accesses[u][i].orig_data
  <2>1. CASE u = t
    BY <1>3, <2>1
  <2>2. CASE u # t
    BY <1>1, <2>2, OtherUndo
  <2> QED BY <2>1, <2>2
<1>5. ASSUME data'[r] # data[r] PROVE \E i \in Nat : Undo(t, i, r)
  <2>1. PICK i \in HeldAccesses(t) : accesses[t][i].row = r /\ accesses[t][i].type = "WR"
    BY <1>1, <1>5, ChangedRows
  <2>2. ~Committed(t)
    BY <1>1, <1>5, ChangedRows
  <2>3. i \in Nat
    BY <1>1, HeldGiven
  <2> QED BY <2>1, <2>2, <2>3 DEF Undo
<1> QED BY <1>4, <1>5, SameContent

\* A new undo copy is what was committed.
LEMMA TakenContent ==
  ASSUME DataInv, ContentKnown, ContentKnown', NEW t \in Thread, TakeAccess(t), NEW r \in Row
  PROVE  CommittedValue(r)' = CommittedValue(r)
<1> DEFINE n == Len(accesses[t])
<1>1. ListInv /\ TypeOK /\ Step(t)
  BY DEF DataInv, ListInv, LockInv, TypeInv, Step
<1>2. /\ Len(accesses'[t]) = n + 1 /\ \A i \in 1..n : accesses'[t][i] = accesses[t][i]
      /\ accesses'[t][n + 1] =
            [row |-> RequestRow(t), type |-> CurrentRequest(t).type, orig_data |-> data[RequestRow(t)]]
      /\ pc[t] = "granted" /\ pc'[t] = IF CurrentRequest(t).type = "WR" THEN "write" ELSE "run"
      /\ CurrentRequest(t).type \in {"RD", "WR"} /\ data' = data /\ n \in Nat
  BY <1>1, Taken DEF TakeAccess
<1>3. /\ HeldAccesses(t) = 1..n /\ HeldAccesses(t)' = 1..(n + 1)
      /\ ~Committed(t) /\ ~Committed(t)'
  BY <1>2 DEF HeldAccesses, Committed
<1>4. ASSUME NEW i \in Nat
      PROVE  /\ Undo(t, i, r)' <=> Undo(t, i, r) \/ (i = n + 1 /\ RequestRow(t) = r
                                                      /\ CurrentRequest(t).type = "WR")
             /\ Undo(t, i, r) => accesses'[t][i] = accesses[t][i]
  <2>1. CASE i \in 1..n
    <3>1. i \in 1..(n + 1) /\ i # n + 1 /\ accesses'[t][i] = accesses[t][i]
      BY <1>2, <2>1
    <3> HIDE DEF n
    <3> QED BY <1>3, <2>1, <3>1 DEF Undo
  <2>2. CASE i = n + 1
    <3>1. i \notin 1..n /\ i \in 1..(n + 1)
      BY <1>2, <2>2
    <3>2. accesses'[t][i].row = RequestRow(t) /\ accesses'[t][i].type = CurrentRequest(t).type
      BY <1>2, <2>2
    <3> HIDE DEF n
    <3> QED BY <1>3, <2>2, <3>1, <3>2 DEF Undo
  <2>3. CASE i \notin 1..n /\ i # n + 1
    <3>1. i \notin 1..(n + 1)
      BY <1>2, <2>3
    <3> HIDE DEF n
    <3> QED BY <1>3, <2>3, <3>1 DEF Undo
  <2> QED BY <2>1, <2>2, <2>3
<1>5. CASE RequestRow(t) = r /\ CurrentRequest(t).type = "WR"
  <2>1. \A u \in Thread, i \in Nat : ~Undo(u, i, r)
    BY <1>1, <1>2, <1>5, GrantedExclusive DEF Undo
  <2>2. CommittedValue(r) = data[r]
    BY <2>1 DEF ContentKnown
  <2>3. PICK m \in Nat : m = n + 1
    BY <1>2
  <2>4. Undo(t, m, r)' /\ accesses'[t][m].orig_data = data[r]
    BY <1>2, <1>4, <1>5, <2>3
  <2>5. CommittedValue(r)' = accesses'[t][m].orig_data
    BY <2>4 DEF ContentKnown
  <2> QED BY <2>2, <2>4, <2>5
<1>6. CASE ~(RequestRow(t) = r /\ CurrentRequest(t).type = "WR")
  <2>1. ASSUME NEW u \in Thread, NEW i \in Nat
        PROVE  /\ Undo(u, i, r)' <=> Undo(u, i, r)
               /\ Undo(u, i, r) => accesses'[u][i].orig_data = accesses[u][i].orig_data
    <3>1. CASE u = t
      BY <1>4, <1>6, <3>1
    <3>2. CASE u # t
      BY <1>1, <3>2, OtherUndo
    <3> QED BY <3>1, <3>2
  <2>2. data'[r] = data[r]
    BY <1>2
  <2> QED BY <2>1, <2>2, SameContent
<1> QED BY <1>5, <1>6

\* When a row is released its undo copy was copied back or the transaction has
\* committed.
LEMMA ReleasedContent ==
  ASSUME DataInv, ContentKnown, ContentKnown', NEW t \in Thread, ReleaseRow(t), NEW r \in Row
  PROVE  CommittedValue(r)' = CommittedValue(r)
<1> DEFINE n == rid[t]
<1>1. ListInv /\ TypeOK /\ Step(t) /\ CountersOK(t) /\ StoredOK(t)
  BY DEF DataInv, ListInv, LockInv, TypeInv, CounterInv, Step
<1>2. /\ accesses'[t] = accesses[t] /\ pc[t] = "release" /\ pc'[t] = "cleanup" /\ rid'[t] = n - 1
      /\ n \in Nat /\ n > 0 /\ rc'[t] = rc[t] /\ rc[t] \in {"RCOK", "Abort"} /\ data' = data
  BY <1>1, LenProperties DEF ReleaseRow, CountersOK, TypeOK
<1>3. /\ HeldAccesses(t) = 1..n /\ HeldAccesses(t)' = 1..(n - 1) /\ n \in HeldAccesses(t)
      /\ (Committed(t)' <=> Committed(t)) /\ (Committed(t) <=> rc[t] = "RCOK")
  BY <1>2 DEF HeldAccesses, Committed
<1>4. ASSUME NEW i \in Nat PROVE Undo(t, i, r)' <=> Undo(t, i, r) /\ i # n
  <2>1. i \in 1..(n - 1) <=> i \in 1..n /\ i # n
    BY <1>2
  <2> HIDE DEF n
  <2> QED BY <1>2, <1>3, <2>1 DEF Undo
<1>5. CASE Undo(t, n, r)
  <2>1. CommittedValue(r) = accesses[t][n].orig_data
    BY <1>2, <1>5 DEF ContentKnown
  <2>2. rc[t] = "Abort" /\ accesses[t][n].row = r
    BY <1>2, <1>3, <1>5 DEF Undo
  <2>3. Untouched(t, n)
    BY <1>2, <2>2 DEF Untouched
  <2>4. data[r] = accesses[t][n].orig_data
    BY <1>1, <1>3, <2>2, <2>3 DEF StoredOK, Expected
  <2>5. ASSUME NEW u \in Thread, NEW i \in Nat, Undo(u, i, r)' PROVE FALSE
    <3>1. Undo(u, i, r) /\ (u = t => i # n)
      BY <1>1, <1>4, <2>5, OtherUndo
    <3>2. i \in HeldAccesses(u) /\ accesses[u][i].row = r
      BY <3>1 DEF Undo
    <3>3. u = t /\ i = n
      BY <1>1, <1>2, <1>5, <3>2, UndoOnce
    <3> QED BY <3>1, <3>3
  <2>6. CommittedValue(r)' = data'[r]
    BY <2>5 DEF ContentKnown
  <2> QED BY <1>2, <2>1, <2>4, <2>6
<1>6. CASE ~Undo(t, n, r)
  <2>1. ASSUME NEW u \in Thread, NEW i \in Nat
        PROVE  /\ Undo(u, i, r)' <=> Undo(u, i, r)
               /\ Undo(u, i, r) => accesses'[u][i].orig_data = accesses[u][i].orig_data
    <3>1. CASE u = t
      BY <1>2, <1>4, <1>6, <3>1
    <3>2. CASE u # t
      BY <1>1, <3>2, OtherUndo
    <3> QED BY <3>1, <3>2
  <2>2. data'[r] = data[r]
    BY <1>2
  <2> QED BY <2>1, <2>2, SameContent
<1> QED BY <1>5, <1>6

\* finish(RCOK) makes all the writes of the query committed content, and no others.
LEMMA FinishContent ==
  ASSUME DataInv, ContentKnown, ContentKnown', NEW t \in Thread, Finish(t), NEW r \in Row
  PROVE  CommittedValue(r)' = IF r \in WriteSetOf(query[t]) THEN CommittedValue(r) + 1
                              ELSE CommittedValue(r)
<1> DEFINE n == Len(accesses[t])
<1>1. ListInv /\ TypeOK /\ Step(t) /\ StoredOK(t) /\ OutcomeOK(t) /\ AccessesOK(t)
  BY DEF DataInv, ListInv, LockInv, TypeInv, Step
<1>2. /\ accesses' = accesses /\ pc[t] = "run" /\ pc'[t] = "cleanup" /\ rid'[t] = n
      /\ n \in Nat /\ n = Len(query[t]) /\ rc'[t] = "RCOK" /\ data' = data
  BY <1>1, LenProperties DEF Finish, OutcomeOK, TypeOK
<1>3. HeldAccesses(t) = 1..n /\ ~Committed(t) /\ Committed(t)'
  BY <1>2 DEF HeldAccesses, Committed
<1>4. \A i \in 1..n : accesses[t][i].row = query[t][i].row /\ accesses[t][i].type = query[t][i].type
  BY <1>1 DEF AccessesOK
<1>5. \A i \in Nat : ~Undo(t, i, r)'
  BY <1>3 DEF Undo
<1>6. CASE r \in WriteSetOf(query[t])
  <2>1. PICK i \in 1..n : query[t][i].row = r /\ query[t][i].type = "WR"
    BY <1>2, <1>6 DEF WriteSetOf
  <2>2. i \in Nat /\ Undo(t, i, r)
    BY <1>2, <1>3, <1>4, <2>1 DEF Undo
  <2>3. CommittedValue(r) = accesses[t][i].orig_data
    BY <2>2 DEF ContentKnown
  <2>4. ~Untouched(t, i)
    BY <1>2, <1>4, <2>1 DEF Untouched
  <2>5. data[r] = accesses[t][i].orig_data + 1
    BY <1>1, <1>3, <1>4, <2>1, <2>4 DEF StoredOK, Expected, NewValue
  <2>6. ASSUME NEW u \in Thread, NEW j \in Nat, Undo(u, j, r)' PROVE FALSE
    <3>1. u # t /\ Undo(u, j, r)
      BY <1>1, <1>5, <2>6, OtherUndo
    <3>2. j \in HeldAccesses(u) /\ accesses[u][j].row = r
      BY <3>1 DEF Undo
    <3> QED BY <1>1, <2>2, <3>1, <3>2, UndoOnce
  <2>7. CommittedValue(r)' = data'[r]
    BY <2>6 DEF ContentKnown
  <2> QED BY <1>2, <1>6, <2>3, <2>5, <2>7
<1>7. CASE r \notin WriteSetOf(query[t])
  <2>1. ASSUME NEW i \in Nat PROVE ~Undo(t, i, r)
    <3>1. SUFFICES ASSUME Undo(t, i, r) PROVE FALSE
      OBVIOUS
    <3>2. i \in 1..Len(query[t]) /\ query[t][i].row = r /\ query[t][i].type = "WR"
      BY <1>2, <1>3, <1>4, <3>1 DEF Undo
    <3> QED BY <1>7, <3>2 DEF WriteSetOf
  <2>2. ASSUME NEW u \in Thread, NEW i \in Nat
        PROVE  /\ Undo(u, i, r)' <=> Undo(u, i, r)
               /\ Undo(u, i, r) => accesses'[u][i].orig_data = accesses[u][i].orig_data
    <3>1. CASE u = t
      BY <1>5, <2>1, <3>1
    <3>2. CASE u # t
      BY <1>1, <3>2, OtherUndo
    <3> QED BY <3>1, <3>2
  <2>3. data'[r] = data[r]
    BY <1>2
  <2>4. CommittedValue(r)' = CommittedValue(r)
    BY <2>2, <2>3, SameContent
  <2> QED BY <1>7, <2>4
<1> QED BY <1>6, <1>7

\* The state of the store that the engine stands for, in AtomicStore's terms.
Db == [r \in Row |-> CommittedValue(r)]
Pending == [t \in Thread |-> IF Undecided(t) THEN {WriteSetOf(query[t])} ELSE {}]

\* Steps that decide nothing.
LEMMA PendingSame ==
  ASSUME TypeOK, NEW t \in Thread, Step(t), Undecided(t)' <=> Undecided(t), query'[t] = query[t]
  PROVE  Pending' = Pending
<1>1. ASSUME NEW u \in Thread PROVE (Undecided(u)' <=> Undecided(u)) /\ query'[u] = query[u]
  <2>1. CASE u = t
    BY <2>1
  <2>2. CASE u # t
    BY <2>2, OtherUndo
  <2> QED BY <2>1, <2>2
<1>2. \A u \in Thread : (IF Undecided(u)' THEN {WriteSetOf(query'[u])} ELSE {})
                        = (IF Undecided(u) THEN {WriteSetOf(query[u])} ELSE {})
  BY <1>1
<1>3. Pending' = [u \in Thread |-> IF Undecided(u)' THEN {WriteSetOf(query'[u])} ELSE {}]
  BY DEF Pending, WriteSetOf
<1> QED BY <1>2, <1>3 DEF Pending

\* Steps that begin or decide an attempt change the pending writes of its
\* thread.
LEMMA PendingChanges ==
  ASSUME TypeOK, NEW t \in Thread, Step(t)
  PROVE  Pending' = [Pending EXCEPT ![t] = IF Undecided(t)' THEN {WriteSetOf(query'[t])} ELSE {}]
<1>1. ASSUME NEW u \in Thread, u # t PROVE (Undecided(u)' <=> Undecided(u)) /\ query'[u] = query[u]
  BY <1>1, OtherUndo
<1> DEFINE new == IF Undecided(t)' THEN {WriteSetOf(query'[t])} ELSE {}
<1>2. Pending' = [u \in Thread |-> IF Undecided(u)' THEN {WriteSetOf(query'[u])} ELSE {}]
  BY DEF Pending, WriteSetOf
<1>3. \A u \in Thread : Pending'[u] = IF u = t THEN new ELSE Pending[u]
  <2>1. SUFFICES ASSUME NEW u \in Thread PROVE Pending'[u] = IF u = t THEN new ELSE Pending[u]
    OBVIOUS
  <2>2. CASE u = t
    BY <1>2, <2>2
  <2>3. CASE u # t
    BY <1>1, <1>2, <2>3 DEF Pending
  <2> QED BY <2>2, <2>3
<1>4. Pending' = [u \in Thread |-> IF u = t THEN new ELSE Pending[u]]
  <2> HIDE DEF new
  <2>1. Pending' = [u \in Thread |-> Pending'[u]]
    BY <1>2
  <2> QED BY <1>3, <2>1
<1>5. Pending = [u \in Thread |-> Pending[u]]
  BY DEF Pending
<1> HIDE DEF new
<1>6. Pending' = [Pending EXCEPT ![t] = new]
  BY <1>4, <1>5
<1> QED BY <1>6 DEF new

\* Every step begins an attempt, commits it, aborts it, or changes neither the
\* committed content nor which attempts are undecided.
LEMMA StoreStep ==
  ASSUME DataInv, ContentKnown, ContentKnown', NEW t \in Thread, Step(t)
  PROVE  \/ Atomic!Begin(t) \/ Atomic!Commit(t) \/ Atomic!Abort(t)
         \/ UNCHANGED <<Db, Pending>>
<1>1. TypeOK /\ OutcomeOK(t)
  BY DEF DataInv, ListInv, LockInv, TypeInv
<1>2. pc \in [Thread -> PC] /\ rc \in [Thread -> {"RCOK", "Abort"}] /\ query \in [Thread -> Query \cup {<<>>}]
  BY <1>1 DEF TypeOK
<1>3. Pending[t] = IF Undecided(t) THEN {WriteSetOf(query[t])} ELSE {}
  BY DEF Pending
<1>4. Pending' = [Pending EXCEPT ![t] = IF Undecided(t)' THEN {WriteSetOf(query'[t])} ELSE {}]
  BY <1>1, PendingChanges
<1>5. ASSUME ~Finish(t) PROVE Db' = Db
  <2>1. \A r \in Row : CommittedValue(r)' = CommittedValue(r)
    BY <1>5, QuietContent, TakenContent, ReleasedContent
  <2>2. Db' = [r \in Row |-> CommittedValue(r)']
    BY DEF Db
  <2> QED BY <2>1, <2>2 DEF Db
<1>6. CASE Begin(t)
  <2>1. ~Undecided(t) /\ Undecided(t)'
    BY <1>2, <1>6 DEF Begin, Undecided, Committed
  <2>2. PICK q \in Query : query'[t] = q
    BY <1>2, <1>6 DEF Begin
  <2>3. WriteSetOf(q) \in {WriteSetOf(p) : p \in Query}
    OBVIOUS
  <2>4. ~Finish(t)
    BY <1>6 DEF Begin, Finish
  <2>5. Pending[t] = {} /\ Pending' = [Pending EXCEPT ![t] = {WriteSetOf(q)}] /\ Db' = Db
    BY <1>3, <1>4, <1>5, <2>1, <2>2, <2>4
  <2>6. Atomic!Begin(t) <=>
           /\ Pending[t] = {}
           /\ \E S \in {WriteSetOf(p) : p \in Query} : Pending' = [Pending EXCEPT ![t] = {S}]
           /\ UNCHANGED Db
    BY DEF Atomic!Begin, Pending, Db
  <2> QED BY <2>3, <2>5, <2>6
<1>7. CASE Finish(t)
  <2>1. Undecided(t) /\ ~Undecided(t)'
    BY <1>1, <1>2, <1>7 DEF Finish, Undecided, Committed, OutcomeOK
  <2>2. Pending[t] = {WriteSetOf(query[t])} /\ Pending' = [Pending EXCEPT ![t] = {}]
    BY <1>3, <1>4, <2>1
  <2> DEFINE W == WriteSetOf(query[t])
  <2>3. \A r \in Row : CommittedValue(r)' = IF r \in W THEN CommittedValue(r) + 1 ELSE CommittedValue(r)
    BY <1>7, FinishContent
  <2>4. Db' = [r \in Row |-> CommittedValue(r)'] /\ \A r \in Row : Db[r] = CommittedValue(r)
    BY DEF Db
  <2> HIDE DEF W
  <2>5. Db' = [r \in Row |-> IF r \in W THEN Db[r] + 1 ELSE Db[r]]
    BY <2>3, <2>4
  <2>6. Atomic!Commit(t) <=>
           /\ \E S \in Pending[t] : Db' = [r \in Row |-> IF r \in S THEN Db[r] + 1 ELSE Db[r]]
           /\ Pending' = [Pending EXCEPT ![t] = {}]
    BY DEF Atomic!Commit, Pending, Db
  <2>7. W \in Pending[t]
    BY <2>2 DEF W
  <2> QED BY <2>2, <2>5, <2>6, <2>7
<1>8. CASE LockRefused(t) \/ WaitAbort(t)
  <2>1. Undecided(t) /\ ~Undecided(t)'
    BY <1>1, <1>2, <1>8 DEF LockRefused, WaitAbort, HasRequest, Undecided, Committed, OutcomeOK
  <2>2. ~Finish(t)
    BY <1>8 DEF LockRefused, WaitAbort, Finish, HasRequest
  <2>3. Pending[t] # {} /\ Pending' = [Pending EXCEPT ![t] = {}] /\ Db' = Db
    BY <1>3, <1>4, <1>5, <2>1, <2>2
  <2>4. Atomic!Abort(t) <=> /\ Pending[t] # {} /\ Pending' = [Pending EXCEPT ![t] = {}]
                            /\ UNCHANGED Db
    BY DEF Atomic!Abort, Pending, Db
  <2> QED BY <2>3, <2>4
<1>9. CASE ~(Begin(t) \/ Finish(t) \/ LockRefused(t) \/ WaitAbort(t))
  <2>1. query'[t] = query[t]
    BY <1>2, <1>9 DEF Step, LockGranted, LockWait, WaitReady, WaitTimeout, GiveUp, TakeAccess,
       WriteRow, ReturnRow, ReleaseRow, EndTxn
  <2>2. Undecided(t)' <=> Undecided(t)
    <3> USE DEF Undecided, Committed
    <3>1. CASE GiveUp(t)
      BY <1>1, <1>2, <3>1 DEF GiveUp, OutcomeOK
    <3>2. CASE LockGranted(t) \/ LockWait(t) \/ WaitReady(t) \/ WaitTimeout(t)
      BY <1>2, <3>2 DEF LockGranted, LockWait, WaitReady, WaitTimeout, HasRequest
    <3>3. CASE TakeAccess(t) \/ WriteRow(t)
      BY <1>2, <3>3 DEF TakeAccess, WriteRow
    <3>4. CASE ReturnRow(t) \/ ReleaseRow(t)
      BY <1>2, <3>4 DEF ReturnRow, ReleaseRow
    <3>5. CASE EndTxn(t)
      BY <1>2, <3>5 DEF EndTxn
    <3> QED BY <1>9, <3>1, <3>2, <3>3, <3>4, <3>5 DEF Step
  <2>3. Pending' = Pending
    BY <1>1, <2>1, <2>2, PendingSame
  <2> QED BY <1>5, <1>9, <2>3
<1> QED BY <1>6, <1>7, <1>8, <1>9

\* The locking engine implements AtomicStore: an attempt takes effect once, on
\* all the rows it writes, when it commits, or not at all, and the undo of
\* cleanup changes no committed content.
THEOREM Atomicity == Spec => AtomicCommits
<1>1. Init => Atomic!Init
  <2> SUFFICES ASSUME Init PROVE Atomic!Init
    OBVIOUS
  <2>1. ASSUME NEW r \in Row PROVE CommittedValue(r) = InitValue
    <3>1. ASSUME NEW t \in Thread PROVE HeldAccesses(t) = {}
      BY DEF Init, HeldAccesses
    <3>2. UndoCopies(r) = {}
      BY <3>1 DEF UndoCopies
    <3> QED BY <3>2 DEF CommittedValue, Init
  <2>2. \A t \in Thread : ~Undecided(t)
    BY DEF Init, Undecided
  <2> QED BY <2>1, <2>2 DEF Atomic!Init
<1>2. DataInv /\ ContentKnown /\ ContentKnown' /\ [Next]_vars => [Atomic!Next]_<<Db, Pending>>
  <2> SUFFICES ASSUME DataInv, ContentKnown, ContentKnown', [Next]_vars
               PROVE  Atomic!Next \/ UNCHANGED <<Db, Pending>>
    OBVIOUS
  <2>1. ASSUME NEW t \in Thread, Step(t) PROVE Atomic!Next \/ UNCHANGED <<Db, Pending>>
    <3>1. \/ Atomic!Begin(t) \/ Atomic!Commit(t) \/ Atomic!Abort(t)
          \/ UNCHANGED <<Db, Pending>>
      BY <2>1, StoreStep
    <3> QED BY <3>1 DEF Atomic!Next
  <2>2. CASE UNCHANGED vars
    BY <2>2 DEF vars, Db, Pending, CommittedValue, UndoCopies, HeldAccesses, Committed, Undecided,
       WriteSetOf
  <2> QED BY <2>1, <2>2 DEF Next, Terminated
<1>3. DataInv => ContentKnown
  BY Content DEF DataInv
<1>4. Init /\ [][Next]_vars => Atomic!Init /\ [][Atomic!Next]_<<Db, Pending>>
  BY <1>1, <1>2, <1>3, RowsStored, PTL DEF Spec
<1>5. AtomicCommits <=> Atomic!Init /\ [][Atomic!Next]_<<Db, Pending>>
  BY DEF AtomicCommits, Atomic!Spec, Db, Pending
<1> QED BY <1>4, <1>5, PTL DEF Spec

=============================================================================
