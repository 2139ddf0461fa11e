---------------------------- MODULE OccTxnProofs ----------------------------
(***************************************************************************)
(* Proofs about OccTxn for any finite set of threads, any rows, any        *)
(* queries and any bound on the attempts.                                  *)
(***************************************************************************)
EXTENDS OccTxn, FiniteSetTheorems, TLAPS

\* Where the loop counters of a transaction may stand.
CountersOK(t) ==
    /\ lock_cnt[t] <= Len(accesses[t])
    /\ pc[t] \in {"idle", "run", "compute", "finish", "stuck"} => lock_cnt[t] = 0
    /\ pc[t] \in {"run", "compute"} => next[t] <= Len(query[t])
    /\ pc[t] = "compute" => next[t] < Len(query[t])
    /\ pc[t] = "return" => rid[t] <= Len(accesses[t])
    /\ pc[t] = "release" => rid[t] <= lock_cnt[t]

CounterInv == \A t \in Thread : CountersOK(t)

TypeInv == TypeOK /\ CounterInv

\* The initial state satisfies TypeInv.
LEMMA InitTypeInv == Init => TypeInv
  BY ThreadAssumption
  DEF Init, TypeInv, TypeOK, CounterInv, CountersOK, PC, LogRecord, Access, InitValue

\* A request of a thread's query is a well-formed request.
LEMMA RequestType ==
  ASSUME TypeOK, NEW t \in Thread, NEW k \in 1..Len(query[t])
  PROVE  query[t][k] \in Request
  BY QueryAssumption DEF TypeOK

\* Rearranging a sequence of accesses gives one of the same length.
LEMMA RearrangeType ==
  ASSUME NEW s \in Seq(Access), NEW p \in Sortings(s)
  PROVE  Rearrange(s, p) \in Seq(Access) /\ Len(Rearrange(s, p)) = Len(s)
  BY DEF Sortings, Rearrange

\* The request a thread is serving is well formed.
LEMMA CurrentRequestType ==
  ASSUME TypeOK, NEW t \in Thread, next[t] < Len(query[t])
  PROVE  CurrentRequest(t) \in Request /\ CurrentRequest(t).row \in Row
<1>1. next[t] + 1 \in 1..Len(query[t])
  BY QueryAssumption DEF TypeOK
<1>2. CurrentRequest(t) \in Request
  BY <1>1, RequestType DEF CurrentRequest
<1> QED BY <1>2 DEF Request

\* What get_row stores in accesses is an access.
LEMMA LocalCopyType ==
  ASSUME TypeOK, NEW req \in Request, req.type # "INS"
  PROVE  LocalCopy(req) \in Access
  BY DEF TypeOK, Request, LocalCopy, Access, NewValue

\* The accesses of a transaction are accesses.
LEMMA AccessType ==
  ASSUME TypeOK, NEW t \in Thread, NEW i \in 1..Len(accesses[t])
  PROVE  accesses[t][i] \in Access /\ accesses[t][i].row \in Row
<1>1. accesses[t] \in Seq(Access)
  BY DEF TypeOK
<1>2. accesses[t][i] \in Access
  BY <1>1
<1> QED BY <1>2 DEF Access

\* A write set is a set of rows.
LEMMA WriteSetType ==
  ASSUME TypeOK, NEW t \in Thread
  PROVE  WriteSet(t) \subseteq Row
  BY AccessType DEF WriteSet

\* The length of a query is a number.
LEMMA QueryLenType ==
  ASSUME TypeOK, NEW t \in Thread
  PROVE  Len(query[t]) \in Nat
  BY QueryAssumption DEF TypeOK

\* get_row appends one access and leaves the other threads' accesses alone.
LEMMA GetRowAccesses ==
  ASSUME TypeOK, NEW t \in Thread, GetRow(t)
  PROVE  /\ LocalCopy(CurrentRequest(t)) \in Access
         /\ accesses'[t] = Append(accesses[t], LocalCopy(CurrentRequest(t)))
         /\ Len(accesses'[t]) = Len(accesses[t]) + 1
         /\ \A v \in Thread \ {t} : accesses'[v] = accesses[v]
<1>1. LocalCopy(CurrentRequest(t)) \in Access
  BY CurrentRequestType, LocalCopyType DEF GetRow, HasRequest
<1>2. accesses[t] \in Seq(Access) /\ accesses \in [Thread -> Seq(Access)]
  BY DEF TypeOK
<1>3. accesses' = [accesses EXCEPT ![t] = Append(accesses[t], LocalCopy(CurrentRequest(t)))]
  BY DEF GetRow
<1> QED BY <1>1, <1>2, <1>3

\* The return loop counts down to zero.
LEMMA ReturnRowCounter ==
  ASSUME TypeOK, NEW t \in Thread, ReturnRow(t)
  PROVE  rid[t] - 1 \in Nat /\ rid' = [rid EXCEPT ![t] = rid[t] - 1]
<1>1. rid[t] \in Nat
  BY DEF TypeOK
<1>2. rid[t] > 0 /\ rid' = [rid EXCEPT ![t] = rid[t] - 1]
  BY DEF ReturnRow
<1> QED BY <1>1, <1>2

\* A transaction starts with no access.
LEMMA EmptySeqType == <<>> \in Seq(Access) /\ Len(<<>>) = 0
  OBVIOUS

\* Every step of a thread keeps the types, given that the loop counters index
\* the sequences they run over.
LEMMA StepTypeOK ==
  ASSUME TypeOK, CounterInv, NEW t \in Thread, Step(t)
  PROVE  TypeOK'
<1> USE DEF TypeOK, PC
<1>1. CASE Begin(t)
  <2>1. timestamp' \in Nat /\ start_ts' \in [Thread -> Nat]
    BY <1>1 DEF Begin
  <2>2. attempts' \in [Thread -> Nat] /\ next' \in [Thread -> Nat]
    BY <1>1 DEF Begin
  <2>3. query' \in [Thread -> Query \cup {<<>>}]
    BY <1>1 DEF Begin
  <2>4. accesses' \in [Thread -> Seq(Access)] /\ lock_cnt' \in [Thread -> Nat]
    BY <1>1, EmptySeqType DEF Begin
  <2>5. pc' \in [Thread -> PC] /\ rc' \in [Thread -> {"RCOK", "Abort"}]
    BY <1>1 DEF Begin
  <2> QED BY <1>1, <2>1, <2>2, <2>3, <2>4, <2>5 DEF Begin
<1>2. CASE GetRow(t)
  <2>1. /\ CurrentRequest(t) \in Request
        /\ CurrentRequest(t).type # "INS"
    BY <1>2, CurrentRequestType DEF GetRow, HasRequest
  <2>2. LocalCopy(CurrentRequest(t)) \in Access
    BY <2>1, LocalCopyType
  <2>3. accesses' \in [Thread -> Seq(Access)]
    BY <1>2, <2>2 DEF GetRow
  <2>4. CASE CurrentRequest(t).type = "WR_SHARED"
    BY <1>2, <2>3, <2>4 DEF GetRow
  <2>5. CASE CurrentRequest(t).type # "WR_SHARED"
    <3>1. next' = [next EXCEPT ![t] = next[t] + 1] /\ pc' = pc
      BY <1>2, <2>5 DEF GetRow
    <3>2. next' \in [Thread -> Nat]
      BY <3>1
    <3> QED BY <1>2, <2>3, <3>1, <3>2 DEF GetRow
  <2> QED BY <2>4, <2>5
<1>3. CASE GetRowAbort(t)
  BY <1>3 DEF GetRowAbort
<1>4. CASE WriteRowInPlace(t)
  <2>1. CurrentRequest(t).row \in Row
    BY <1>4, CurrentRequestType DEF WriteRowInPlace, CounterInv, CountersOK
  <2>2. data' \in [Row -> Nat]
    BY <1>4, <2>1, SMTT(30) DEF WriteRowInPlace, NewValue
  <2>3. next' \in [Thread -> Nat] /\ pc' \in [Thread -> PC]
    BY <1>4 DEF WriteRowInPlace
  <2> QED BY <1>4, <2>2, <2>3 DEF WriteRowInPlace
<1>5. CASE InsertRow(t)
  <2>1. CurrentRequest(t).row \in Row
    BY <1>5, CurrentRequestType DEF InsertRow, HasRequest
  <2>2. version' \in [Row -> Nat]
    BY <1>5, <2>1, SMTT(30) DEF InsertRow
  <2>3. next' \in [Thread -> Nat]
    BY <1>5 DEF InsertRow
  <2> QED BY <1>5, <2>2, <2>3 DEF InsertRow
<1>6. CASE EndOfQuery(t)
  BY <1>6 DEF EndOfQuery, txnVars
<1>7. CASE FinishAbort(t)
  BY <1>7 DEF FinishAbort, txnVars
<1>8. CASE FinishValidate(t)
  <2>1. accesses' \in [Thread -> Seq(Access)]
    BY <1>8, RearrangeType DEF FinishValidate
  <2>2. pc' \in [Thread -> PC]
    BY <1>8 DEF FinishValidate
  <2> QED BY <1>8, <2>1, <2>2 DEF FinishValidate
<1>9. CASE FinishPageChanged(t)
  BY <1>9 DEF FinishPageChanged, txnVars
<1>10. CASE LatchAndValidate(t)
  <2>1. latch' \in [Row -> Thread \cup {NoThread}]
    BY <1>10 DEF LatchAndValidate
  <2>2. rc' \in [Thread -> {"RCOK", "Abort"}] /\ pc' \in [Thread -> PC]
    BY <1>10 DEF LatchAndValidate
  <2>3. lock_cnt' \in [Thread -> Nat]
    BY <1>10 DEF LatchAndValidate
  <2> QED BY <1>10, <2>1, <2>2, <2>3 DEF LatchAndValidate
<1>11. CASE GetEndTs(t)
  BY <1>11, SMTT(30) DEF GetEndTs
<1>12. CASE WriteLog(t)
  <2>1. WriteSet(t) \subseteq Row
    BY WriteSetType
  <2>2. [rc |-> rc[t], ts |-> end_ts[t], rows |-> WriteSet(t)] \in LogRecord
    BY <2>1 DEF LogRecord
  <2>3. log' \in Seq(LogRecord)
    BY <1>12, <2>2 DEF WriteLog
  <2>4. rid' \in [Thread -> Nat] /\ pc' \in [Thread -> PC]
    BY <1>12 DEF WriteLog
  <2> QED BY <1>12, <2>3, <2>4 DEF WriteLog
<1>13. CASE ReturnRow(t)
  <2>1. accesses[t][rid[t]] \in Access
    BY <1>13, AccessType DEF ReturnRow, CounterInv, CountersOK
  <2>2. data' \in [Row -> Nat] /\ wts' \in [Row -> Nat]
    BY <1>13, <2>1 DEF ReturnRow, Access
  <2>3. rid[t] - 1 \in Nat /\ rid' = [rid EXCEPT ![t] = rid[t] - 1]
    BY <1>13, ReturnRowCounter
  <2>4. rid' \in [Thread -> Nat]
    BY <2>3
  <2> QED BY <1>13, <2>2, <2>4 DEF ReturnRow
<1>14. CASE EndCleanup(t)
  BY <1>14 DEF EndCleanup, txnVars
<1>15. CASE ReleaseLatch(t)
  <2>1. latch' \in [Row -> Thread \cup {NoThread}]
    BY <1>15 DEF ReleaseLatch
  <2>2. rid' \in [Thread -> Nat]
    BY <1>15 DEF ReleaseLatch
  <2> QED BY <1>15, <2>1, <2>2 DEF ReleaseLatch
<1>16. CASE EndTxn(t)
  BY <1>16, EmptySeqType DEF EndTxn
<1> QED
  BY <1>1, <1>2, <1>3, <1>4, <1>5, <1>6, <1>7, <1>8, <1>9, <1>10, <1>11,
     <1>12, <1>13, <1>14, <1>15, <1>16 DEF Step

\* Every step of a thread keeps every thread's loop counters in place.
LEMMA StepCounterInv ==
  ASSUME TypeOK, CounterInv, NEW t \in Thread, Step(t)
  PROVE  CounterInv'
<1> SUFFICES ASSUME NEW u \in Thread PROVE CountersOK(u)'
  BY DEF CounterInv
<1> USE DEF TypeOK, CounterInv, CountersOK
<1>1. CASE Begin(t)
  BY <1>1, EmptySeqType, QueryAssumption DEF Begin
<1>2. CASE GetRow(t)
  <2>1. Len(accesses'[t]) = Len(accesses[t]) + 1
        /\ \A v \in Thread \ {t} : accesses'[v] = accesses[v]
    BY <1>2, GetRowAccesses
  <2>2. pc[t] = "run" /\ next[t] < Len(query[t]) /\ Len(query[t]) \in Nat
    BY <1>2, QueryLenType DEF GetRow, HasRequest
  <2>3. lock_cnt[t] = 0 /\ UNCHANGED <<query, lock_cnt, rid>>
    BY <1>2, <2>2 DEF GetRow
  <2>4. \/ pc' = [pc EXCEPT ![t] = "compute"] /\ next' = next
        \/ pc' = pc /\ next' = [next EXCEPT ![t] = next[t] + 1]
    BY <1>2 DEF GetRow
  <2>5. CASE u = t
    <3>1. next'[t] \in Nat /\ next'[t] <= Len(query[t])
      BY <2>2, <2>4, SMTT(30)
    <3>2. \/ pc'[t] = "compute" /\ next'[t] = next[t]
          \/ pc'[t] = "run"
      BY <2>2, <2>4
    <3>3. lock_cnt'[t] = 0 /\ 0 <= Len(accesses'[t])
      BY <2>1, <2>3
    <3> QED BY <2>2, <2>3, <2>5, <3>1, <3>2, <3>3
  <2>6. CASE u # t
    <3>1. pc'[u] = pc[u] /\ next'[u] = next[u] /\ accesses'[u] = accesses[u]
      BY <2>1, <2>4, <2>6
    <3> QED BY <2>3, <3>1
  <2> QED BY <2>5, <2>6
<1>3. CASE GetRowAbort(t)
  BY <1>3 DEF GetRowAbort, HasRequest
<1>4. CASE WriteRowInPlace(t)
  BY <1>4, QueryAssumption DEF WriteRowInPlace
<1>5. CASE InsertRow(t)
  BY <1>5, QueryAssumption, SMTT(30) DEF InsertRow, HasRequest
<1>6. CASE EndOfQuery(t)
  BY <1>6, QueryAssumption DEF EndOfQuery, txnVars
<1>7. CASE FinishAbort(t)
  BY <1>7 DEF FinishAbort, txnVars
<1>8. CASE FinishValidate(t)
  BY <1>8, RearrangeType DEF FinishValidate
<1>9. CASE FinishPageChanged(t)
  BY <1>9 DEF FinishPageChanged, txnVars
<1>10. CASE LatchAndValidate(t)
  <2>1. /\ lock_cnt[t] < Len(accesses[t]) /\ pc[t] = "validate"
        /\ lock_cnt' = [lock_cnt EXCEPT ![t] = lock_cnt[t] + 1]
        /\ UNCHANGED <<accesses, next, query, rid>>
    BY <1>10 DEF LatchAndValidate
  <2>2. pc' = [pc EXCEPT ![t] = "log"] \/ pc' = pc
    BY <1>10 DEF LatchAndValidate
  <2>3. CASE u = t
    BY <2>1, <2>2, <2>3
  <2>4. CASE u # t
    BY <2>1, <2>2, <2>4
  <2> QED BY <2>3, <2>4
<1>11. CASE GetEndTs(t)
  BY <1>11 DEF GetEndTs
<1>12. CASE WriteLog(t)
  BY <1>12 DEF WriteLog
<1>13. CASE ReturnRow(t)
  <2>1. rid[t] - 1 \in Nat /\ rid' = [rid EXCEPT ![t] = rid[t] - 1]
    BY <1>13, ReturnRowCounter
  <2>2. rid'[t] <= rid[t] /\ \A v \in Thread \ {t} : rid'[v] = rid[v]
    BY <2>1
  <2>3. UNCHANGED <<lock_cnt, accesses, pc, next, query>>
    BY <1>13 DEF ReturnRow
  <2>4. CASE u = t
    BY <1>13, <2>1, <2>2, <2>3, <2>4 DEF ReturnRow
  <2>5. CASE u # t
    BY <2>2, <2>3, <2>5
  <2> QED BY <2>4, <2>5
<1>14. CASE EndCleanup(t)
  BY <1>14 DEF EndCleanup, txnVars
<1>15. CASE ReleaseLatch(t)
  <2>1. /\ rid[t] < lock_cnt[t] /\ pc[t] = "release"
        /\ rid' = [rid EXCEPT ![t] = rid[t] + 1]
        /\ UNCHANGED <<accesses, next, query, lock_cnt, pc>>
    BY <1>15 DEF ReleaseLatch
  <2>2. CASE u = t
    BY <2>1, <2>2
  <2>3. CASE u # t
    BY <2>1, <2>3
  <2> QED BY <2>2, <2>3
<1>16. CASE EndTxn(t)
  BY <1>16, EmptySeqType DEF EndTxn
<1> QED
  BY <1>1, <1>2, <1>3, <1>4, <1>5, <1>6, <1>7, <1>8, <1>9, <1>10, <1>11,
     <1>12, <1>13, <1>14, <1>15, <1>16 DEF Step

\* The engine's state keeps its types.
THEOREM Typing == Spec => []TypeOK
<1>1. TypeInv /\ [Next]_vars => TypeInv'
  <2> SUFFICES ASSUME TypeInv, [Next]_vars PROVE TypeInv'
    OBVIOUS
  <2>1. CASE UNCHANGED vars
    BY <2>1 DEF vars, TypeInv, TypeOK, CounterInv, CountersOK
  <2>2. CASE Terminated
    BY <2>2 DEF Terminated, vars, TypeInv, TypeOK, CounterInv, CountersOK
  <2> QED BY <2>1, <2>2, StepTypeOK, StepCounterInv DEF Next, TypeInv
<1> QED BY <1>1, InitTypeInv, PTL DEF Spec, TypeInv

-----------------------------------------------------------------------------
(***************************************************************************)
(* The latches.  The prefix invariant needs the accesses of a transaction  *)
(* to be on distinct rows (otherwise releasing one access would release    *)
(* another's latch), which rests on the query asking for each row once and *)
(* on the accesses of a running transaction coming from served requests.   *)
(***************************************************************************)

\* Requests of its query a running transaction has made an access for.
Served(t) == IF pc[t] = "compute" THEN next[t] + 1 ELSE next[t]

DistinctRows(t) ==
    \A i, j \in 1..Len(accesses[t]) : i # j => RowOf(t, i) # RowOf(t, j)

FromQuery(t) ==
    pc[t] \in {"run", "compute"} =>
        \A i \in 1..Len(accesses[t]) : \E k \in 1..Served(t) :
            query[t][k].type # "INS" /\ query[t][k].row = RowOf(t, i)

Sorted(t) ==
    pc[t] = "validate" =>
        \A i, j \in 1..Len(accesses[t]) : i < j => RowOf(t, i) <= RowOf(t, j)

AccessesOK(t) == DistinctRows(t) /\ FromQuery(t) /\ Sorted(t)
AccessInv == \A t \in Thread : AccessesOK(t)

\* A thread's step leaves the other threads' transactions alone.
LEMMA OtherThreads ==
  ASSUME TypeOK, NEW t \in Thread, Step(t), NEW u \in Thread, u # t
  PROVE  /\ pc'[u] = pc[u] /\ query'[u] = query[u] /\ next'[u] = next[u]
         /\ accesses'[u] = accesses[u] /\ lock_cnt'[u] = lock_cnt[u]
         /\ rid'[u] = rid[u] /\ rc'[u] = rc[u]
         /\ start_ts'[u] = start_ts[u] /\ end_ts'[u] = end_ts[u]
<1> USE DEF TypeOK
<1>1. CASE Begin(t)
  BY <1>1 DEF Begin
<1>2. CASE GetRow(t)
  <2>1. /\ pc'[u] = pc[u] /\ next'[u] = next[u] /\ accesses'[u] = accesses[u]
    BY <1>2 DEF GetRow
  <2> QED BY <1>2, <2>1 DEF GetRow
<1>3. CASE GetRowAbort(t)
  BY <1>3 DEF GetRowAbort
<1>4. CASE WriteRowInPlace(t)
  BY <1>4 DEF WriteRowInPlace
<1>5. CASE InsertRow(t)
  BY <1>5 DEF InsertRow
<1>6. CASE EndOfQuery(t)
  BY <1>6 DEF EndOfQuery, txnVars
<1>7. CASE FinishAbort(t)
  BY <1>7 DEF FinishAbort, txnVars
<1>8. CASE FinishValidate(t)
  BY <1>8 DEF FinishValidate
<1>9. CASE FinishPageChanged(t)
  BY <1>9 DEF FinishPageChanged, txnVars
<1>10. CASE LatchAndValidate(t)
  <2>1. pc'[u] = pc[u] /\ rc'[u] = rc[u] /\ lock_cnt'[u] = lock_cnt[u]
    BY <1>10, SMTT(30) DEF LatchAndValidate
  <2> QED BY <1>10, <2>1 DEF LatchAndValidate
<1>11. CASE GetEndTs(t)
  BY <1>11 DEF GetEndTs
<1>12. CASE WriteLog(t)
  BY <1>12 DEF WriteLog
<1>13. CASE ReturnRow(t)
  <2>1. rid'[u] = rid[u]
    BY <1>13, ReturnRowCounter
  <2> QED BY <1>13, <2>1 DEF ReturnRow
<1>14. CASE EndCleanup(t)
  BY <1>14 DEF EndCleanup, txnVars
<1>15. CASE ReleaseLatch(t)
  BY <1>15 DEF ReleaseLatch
<1>16. CASE EndTxn(t)
  BY <1>16 DEF EndTxn
<1> QED
  BY <1>1, <1>2, <1>3, <1>4, <1>5, <1>6, <1>7, <1>8, <1>9, <1>10, <1>11,
     <1>12, <1>13, <1>14, <1>15, <1>16 DEF Step

\* Sorting keeps the rows distinct and puts them in order.
LEMMA RearrangeSorts ==
  ASSUME NEW s \in Seq(Access), NEW p \in Sortings(s),
         \A i, j \in 1..Len(s) : i # j => s[i].row # s[j].row
  PROVE  /\ \A i, j \in 1..Len(s) :
                i # j => Rearrange(s, p)[i].row # Rearrange(s, p)[j].row
         /\ \A i, j \in 1..Len(s) :
                i < j => Rearrange(s, p)[i].row <= Rearrange(s, p)[j].row
<1>1. \A i \in 1..Len(s) : Rearrange(s, p)[i] = s[p[i]] /\ p[i] \in 1..Len(s)
  BY DEF Sortings, Rearrange
<1>2. \A i, j \in 1..Len(s) : i # j => p[i] # p[j]
  BY DEF Sortings
<1>3. \A i, j \in 1..Len(s) : i < j => s[p[i]].row <= s[p[j]].row
  BY DEF Sortings
<1>4. \A i, j \in 1..Len(s) : i # j => s[p[i]].row # s[p[j]].row
  BY <1>1, <1>2
<1>5. \A i \in 1..Len(s) : Rearrange(s, p)[i].row = s[p[i]].row
  BY <1>1
<1> QED BY <1>3, <1>4, <1>5, SMTT(30)

\* A thread's step keeps its own accesses distinct, drawn from its query and,
\* while it validates, sorted.
LEMMA StepAccessesOK ==
  ASSUME TypeInv, NEW t \in Thread, Step(t), AccessesOK(t)
  PROVE  AccessesOK(t)'
<1> USE DEF AccessesOK, TypeInv
<1>1. accesses[t] \in Seq(Access) /\ Len(accesses[t]) \in Nat
  BY DEF TypeOK
<1>2. Len(query[t]) \in Nat /\ next[t] \in Nat /\ pc \in [Thread -> PC]
  BY QueryLenType DEF TypeOK
<1>3. CASE accesses'[t] = <<>>
  BY <1>3, EmptySeqType DEF DistinctRows, FromQuery, Sorted
<1>4. CASE GetRow(t)
  <2> DEFINE k == next[t] + 1
             n == Len(accesses[t])
  <2>1. /\ pc[t] = "run" /\ next[t] < Len(query[t])
        /\ query[t][k].type # "INS" /\ query'[t] = query[t]
    BY <1>4 DEF GetRow, HasRequest, CurrentRequest
  <2>2. k \in 1..Len(query[t])
    BY <1>2, <2>1
  <2>3. /\ accesses'[t] = Append(accesses[t], LocalCopy(query[t][k]))
        /\ Len(accesses'[t]) = n + 1
        /\ LocalCopy(query[t][k]) \in Access
    BY <1>4, GetRowAccesses DEF CurrentRequest
  <2>4. accesses'[t][n + 1].row = query[t][k].row
    <3>1. accesses'[t][n + 1] = LocalCopy(query[t][k])
      BY <1>1, <2>3
    <3> QED BY <3>1 DEF LocalCopy
  <2>5. \A i \in 1..n : accesses'[t][i].row = RowOf(t, i)
    BY <1>1, <2>3 DEF RowOf
  <2>6. Served(t) = next[t] /\ Served(t)' = k
    <3>1. \/ pc' = [pc EXCEPT ![t] = "compute"] /\ next' = next
          \/ pc' = pc /\ next' = [next EXCEPT ![t] = next[t] + 1]
      BY <1>4 DEF GetRow
    <3> QED BY <1>2, <2>1, <3>1 DEF Served, TypeOK
  <2>7. \A i \in 1..n : \E m \in 1..next[t] :
            query[t][m].type # "INS" /\ query[t][m].row = RowOf(t, i)
    BY <2>1, <2>6 DEF FromQuery
  <2>8. AccessedOnce(query[t])
    BY <2>2, QueryAssumption DEF TypeOK
  <2>9. \A i \in 1..n : RowOf(t, i) # query[t][k].row
    <3> SUFFICES ASSUME NEW i \in 1..n PROVE RowOf(t, i) # query[t][k].row
      OBVIOUS
    <3>1. PICK m \in 1..next[t] : query[t][m].type # "INS" /\ query[t][m].row = RowOf(t, i)
      BY <2>7
    <3>2. m \in 1..Len(query[t]) /\ m < k
      BY <1>2, <2>2
    <3> QED BY <2>1, <2>2, <2>8, <3>1, <3>2 DEF AccessedOnce
  <2>10. DistinctRows(t)'
    <3> SUFFICES ASSUME NEW i \in 1..(n + 1), NEW j \in 1..(n + 1), i # j
                 PROVE  accesses'[t][i].row # accesses'[t][j].row
      BY <2>3 DEF DistinctRows, RowOf
    <3>1. CASE i \in 1..n /\ j \in 1..n
      BY <2>5, <3>1 DEF DistinctRows
    <3>2. CASE i = n + 1 /\ j \in 1..n
      BY <2>4, <2>5, <2>9, <3>2
    <3>3. CASE j = n + 1 /\ i \in 1..n
      BY <2>4, <2>5, <2>9, <3>3
    <3> QED BY <1>1, <3>1, <3>2, <3>3
  <2>11. FromQuery(t)'
    <3> SUFFICES ASSUME NEW i \in 1..(n + 1)
                 PROVE  \E m \in 1..k : query[t][m].type # "INS"
                                        /\ query[t][m].row = accesses'[t][i].row
      BY <2>1, <2>3, <2>6 DEF FromQuery, RowOf
    <3>1. CASE i = n + 1
      BY <1>2, <2>1, <2>4, <3>1
    <3>2. CASE i # n + 1
      <4>1. i \in 1..n
        BY <1>1, <3>2
      <4>2. PICK m \in 1..next[t] : query[t][m].type # "INS" /\ query[t][m].row = RowOf(t, i)
        BY <2>7, <4>1
      <4>3. m \in 1..k
        BY <1>2
      <4> QED BY <2>5, <4>1, <4>2, <4>3
    <3> QED BY <3>1, <3>2
  <2>12. pc'[t] # "validate"
    BY <1>4, <2>1 DEF GetRow, TypeOK
  <2> QED BY <2>10, <2>11, <2>12 DEF Sorted
<1>5. CASE FinishValidate(t)
  <2>1. PICK p \in Sortings(accesses[t]) :
            accesses' = [accesses EXCEPT ![t] = Rearrange(accesses[t], p)]
    BY <1>5 DEF FinishValidate
  <2>2. accesses'[t] = Rearrange(accesses[t], p)
    BY <2>1 DEF TypeOK
  <2>3. Len(accesses'[t]) = Len(accesses[t])
    BY <1>1, <2>2, RearrangeType
  <2>4. /\ \A i, j \in 1..Len(accesses[t]) : i # j => RowOf(t, i)' # RowOf(t, j)'
        /\ \A i, j \in 1..Len(accesses[t]) : i < j => RowOf(t, i)' <= RowOf(t, j)'
    BY <1>1, <2>2, RearrangeSorts DEF RowOf, DistinctRows
  <2>5. pc'[t] = "validate"
    BY <1>5 DEF FinishValidate, TypeOK
  <2> QED BY <2>3, <2>4, <2>5 DEF DistinctRows, FromQuery, Sorted
<1>6. CASE /\ accesses'[t] = accesses[t] /\ query'[t] = query[t]
           /\ pc'[t] = "validate" => pc[t] = "validate"
           /\ pc'[t] \in {"run", "compute"} =>
                  pc[t] \in {"run", "compute"} /\ Served(t)' \in Nat /\ Served(t) <= Served(t)'
  <2>1. DistinctRows(t)' /\ Sorted(t)'
    BY <1>6 DEF DistinctRows, Sorted, RowOf
  <2>2. FromQuery(t)'
    <3> SUFFICES ASSUME pc'[t] \in {"run", "compute"}, NEW i \in 1..Len(accesses[t])
                 PROVE  \E m \in 1..Served(t)' : query[t][m].type # "INS"
                                        /\ query[t][m].row = RowOf(t, i)
      BY <1>6 DEF FromQuery, RowOf
    <3>1. PICK m \in 1..Served(t) : query[t][m].type # "INS" /\ query[t][m].row = RowOf(t, i)
      BY <1>6 DEF FromQuery
    <3>2. Served(t) \in Nat
      BY <1>2 DEF Served
    <3>3. m \in 1..Served(t)'
      BY <1>6, <3>2
    <3> QED BY <3>1, <3>3
  <2> QED BY <2>1, <2>2
<1>7. CASE Begin(t)
  BY <1>3, <1>7 DEF Begin, TypeOK
<1>8. CASE GetRowAbort(t)
  BY <1>6, <1>8 DEF GetRowAbort, TypeOK
<1>9. CASE WriteRowInPlace(t)
  BY <1>2, <1>6, <1>9 DEF WriteRowInPlace, TypeOK, Served
<1>10. CASE InsertRow(t)
  BY <1>2, <1>6, <1>10 DEF InsertRow, HasRequest, TypeOK, Served
<1>11. CASE EndOfQuery(t)
  BY <1>6, <1>11 DEF EndOfQuery, txnVars, TypeOK
<1>12. CASE FinishAbort(t) \/ FinishPageChanged(t)
  BY <1>6, <1>12 DEF FinishAbort, FinishPageChanged, txnVars, TypeOK
<1>13. CASE LatchAndValidate(t)
  <2>1. pc'[t] \in {"validate", "log"} /\ pc[t] = "validate"
    BY <1>13 DEF LatchAndValidate, TypeOK
  <2> QED BY <1>6, <1>13, <2>1 DEF LatchAndValidate
<1>14. CASE GetEndTs(t)
  BY <1>6, <1>14 DEF GetEndTs, TypeOK
<1>15. CASE WriteLog(t)
  BY <1>6, <1>15 DEF WriteLog, TypeOK
<1>16. CASE ReturnRow(t)
  BY <1>6, <1>16 DEF ReturnRow, TypeOK
<1>17. CASE EndCleanup(t)
  BY <1>6, <1>17 DEF EndCleanup, txnVars, TypeOK
<1>18. CASE ReleaseLatch(t)
  BY <1>6, <1>18 DEF ReleaseLatch, TypeOK
<1>19. CASE EndTxn(t)
  BY <1>3, <1>19 DEF EndTxn, TypeOK
<1> QED
  BY <1>4, <1>5, <1>7, <1>8, <1>9, <1>10, <1>11, <1>12, <1>13, <1>14, <1>15,
     <1>16, <1>17, <1>18, <1>19 DEF Step

\* Every step keeps every thread's accesses in order.
LEMMA StepAccessInv ==
  ASSUME TypeInv, AccessInv, NEW t \in Thread, Step(t)
  PROVE  AccessInv'
<1> SUFFICES ASSUME NEW u \in Thread PROVE AccessesOK(u)'
  BY DEF AccessInv
<1>1. CASE u = t
  BY <1>1, StepAccessesOK DEF AccessInv
<1>2. CASE u # t
  <2>1. /\ pc'[u] = pc[u] /\ query'[u] = query[u] /\ next'[u] = next[u]
        /\ accesses'[u] = accesses[u]
    BY <1>2, OtherThreads DEF TypeInv
  <2> QED
    BY <2>1 DEF AccessInv, AccessesOK, DistinctRows, FromQuery, Sorted, Served, RowOf
<1> QED BY <1>1, <1>2

\* The latch words agree with the threads' own view of what they hold.
LatchOK(t) ==
    \A r \in Row : latch[r] = t <=> \E i \in LatchedAccesses(t) : RowOf(t, i) = r
LatchInv == \A t \in Thread : LatchOK(t)

\* Latched accesses are accesses.
LEMMA LatchedAccessesType ==
  ASSUME TypeInv, NEW t \in Thread
  PROVE  LatchedAccesses(t) \subseteq 1..Len(accesses[t])
  BY DEF TypeInv, TypeOK, CounterInv, CountersOK, LatchedAccesses

\* A step that touches neither a latch nor what the thread believes to hold.
LEMMA QuietLatchOK ==
  ASSUME NEW t \in Thread, LatchOK(t), UNCHANGED latch,
         LatchedAccesses(t)' = LatchedAccesses(t),
         LatchedAccesses(t) = {} \/ accesses'[t] = accesses[t]
  PROVE  LatchOK(t)'
<1>1. CASE LatchedAccesses(t) = {}
  BY <1>1 DEF LatchOK
<1>2. CASE accesses'[t] = accesses[t]
  BY <1>2 DEF LatchOK, RowOf
<1> QED BY <1>1, <1>2

\* One more latch: the validated prefix and the held rows grow together.
LEMMA TakeLatchOK ==
  ASSUME TypeInv, NEW t \in Thread, LatchOK(t), LatchAndValidate(t)
  PROVE  LatchOK(t)'
<1> DEFINE n == lock_cnt[t]
           q == accesses[t][n + 1].row
<1>1. n \in Nat /\ n + 1 \in 1..Len(accesses[t])
  BY DEF LatchAndValidate, TypeInv, TypeOK
<1>2. q \in Row /\ latch \in [Row -> Thread \cup {NoThread}]
  BY <1>1, AccessType DEF TypeInv, TypeOK
<1>3. latch' = [latch EXCEPT ![q] = t] /\ accesses' = accesses
  BY DEF LatchAndValidate
<1>4. LatchedAccesses(t) = 1..n
  BY DEF LatchAndValidate, LatchedAccesses
<1>5. pc'[t] \in {"validate", "log"} /\ lock_cnt'[t] = n + 1
  BY DEF LatchAndValidate, TypeInv, TypeOK
<1>6. LatchedAccesses(t)' = 1..(n + 1)
  BY <1>5 DEF LatchedAccesses
<1> SUFFICES ASSUME NEW r \in Row
             PROVE  latch'[r] = t <=> \E i \in 1..(n + 1) : accesses[t][i].row = r
  BY <1>3, <1>6 DEF LatchOK, RowOf
<1>7. CASE r = q
  BY <1>1, <1>2, <1>3, <1>7
<1>8. CASE r # q
  <2>1. latch'[r] = latch[r]
    BY <1>2, <1>3, <1>8
  <2>2. latch[r] = t <=> \E i \in 1..n : accesses[t][i].row = r
    BY <1>4 DEF LatchOK, RowOf
  <2>3. (\E i \in 1..n : accesses[t][i].row = r)
          <=> \E i \in 1..(n + 1) : accesses[t][i].row = r
    <3>1. 1..(n + 1) = (1..n) \cup {n + 1}
      BY <1>1
    <3> QED BY <1>8, <3>1
  <2> QED BY <2>1, <2>2, <2>3
<1> QED BY <1>7, <1>8

\* One latch given back: it was held, and no other access needs it.
LEMMA GiveLatchOK ==
  ASSUME TypeInv, AccessInv, NEW t \in Thread, LatchOK(t), ReleaseLatch(t)
  PROVE  LatchOK(t)' /\ latch[accesses[t][rid[t] + 1].row] = t
<1> DEFINE k == rid[t] + 1
           n == lock_cnt[t]
           q == accesses[t][k].row
<1>1. /\ rid[t] \in Nat /\ n \in Nat /\ k \in 1..n /\ k \in 1..Len(accesses[t])
      /\ n <= Len(accesses[t]) /\ Len(accesses[t]) \in Nat
  BY DEF ReleaseLatch, TypeInv, TypeOK, CounterInv, CountersOK
<1>2. q \in Row /\ latch \in [Row -> Thread \cup {NoThread}] /\ t # NoThread
  BY <1>1, AccessType, ThreadAssumption DEF TypeInv, TypeOK
<1>3. latch' = [latch EXCEPT ![q] = NoThread] /\ accesses' = accesses
  BY DEF ReleaseLatch
<1>4. LatchedAccesses(t) = k..n
  BY DEF ReleaseLatch, LatchedAccesses
<1>5. pc'[t] = "release" /\ rid'[t] = k /\ lock_cnt'[t] = n
  BY DEF ReleaseLatch, TypeInv, TypeOK
<1>6. LatchedAccesses(t)' = (k + 1)..n
  BY <1>5 DEF LatchedAccesses
<1>7. k..n = {k} \cup ((k + 1)..n)
  BY <1>1
<1>8. latch[q] = t
  BY <1>2, <1>4, <1>7 DEF LatchOK, RowOf
<1>9. \A i \in (k + 1)..n : accesses[t][i].row # q
  <2> SUFFICES ASSUME NEW i \in (k + 1)..n PROVE accesses[t][i].row # q
    OBVIOUS
  <2>1. i \in 1..Len(accesses[t]) /\ i # k
    BY <1>1
  <2> QED BY <1>1, <2>1 DEF AccessInv, AccessesOK, DistinctRows, RowOf
<1>10. ASSUME NEW r \in Row
       PROVE  latch'[r] = t <=> \E i \in (k + 1)..n : accesses[t][i].row = r
  <2>1. CASE r = q
    BY <1>2, <1>3, <1>9, <2>1
  <2>2. CASE r # q
    <3>1. latch'[r] = latch[r]
      BY <1>2, <1>3, <2>2
    <3>2. latch[r] = t <=> \E i \in k..n : accesses[t][i].row = r
      BY <1>4 DEF LatchOK, RowOf
    <3> QED BY <1>7, <2>2, <3>1, <3>2
  <2> QED BY <2>1, <2>2
<1>11. LatchOK(t)'
  BY <1>3, <1>6, <1>10 DEF LatchOK, RowOf
<1> QED BY <1>8, <1>11

\* The empty prefix.
LEMMA NoLatched == 1..0 = {}
  OBVIOUS

\* A step keeps the stepping thread's latches and its prefix in agreement.
LEMMA StepLatchOK ==
  ASSUME TypeInv, AccessInv, NEW t \in Thread, Step(t), LatchOK(t)
  PROVE  LatchOK(t)'
<1> USE DEF LatchedAccesses, TypeInv, TypeOK, CounterInv, CountersOK
<1>1. CASE Begin(t)
  BY <1>1, QuietLatchOK DEF Begin
<1>2. CASE GetRow(t)
  <2>1. pc[t] = "run" /\ pc'[t] \in {"run", "compute"} /\ UNCHANGED latch
    BY <1>2 DEF GetRow, HasRequest
  <2> QED BY <2>1, QuietLatchOK
<1>3. CASE GetRowAbort(t)
  BY <1>3, QuietLatchOK DEF GetRowAbort, HasRequest
<1>4. CASE WriteRowInPlace(t)
  BY <1>4, QuietLatchOK DEF WriteRowInPlace
<1>5. CASE InsertRow(t)
  BY <1>5, QuietLatchOK DEF InsertRow, HasRequest
<1>6. CASE EndOfQuery(t)
  BY <1>6, QuietLatchOK DEF EndOfQuery, txnVars
<1>7. CASE FinishAbort(t)
  <2>1. pc[t] = "finish" /\ pc'[t] = "log" /\ lock_cnt'[t] = 0 /\ UNCHANGED latch
    BY <1>7 DEF FinishAbort, txnVars
  <2> QED BY <2>1, NoLatched, QuietLatchOK
<1>8. CASE FinishValidate(t)
  <2>1. pc[t] = "finish" /\ pc'[t] = "validate" /\ lock_cnt'[t] = 0 /\ UNCHANGED latch
    BY <1>8 DEF FinishValidate
  <2> QED BY <2>1, NoLatched, QuietLatchOK
<1>9. CASE FinishPageChanged(t)
  BY <1>9, QuietLatchOK DEF FinishPageChanged, txnVars
<1>10. CASE LatchAndValidate(t)
  BY <1>10, TakeLatchOK
<1>11. CASE GetEndTs(t)
  BY <1>11, QuietLatchOK DEF GetEndTs
<1>12. CASE WriteLog(t)
  BY <1>12, QuietLatchOK DEF WriteLog
<1>13. CASE ReturnRow(t)
  BY <1>13, QuietLatchOK DEF ReturnRow
<1>14. CASE EndCleanup(t)
  BY <1>14, QuietLatchOK DEF EndCleanup, txnVars
<1>15. CASE ReleaseLatch(t)
  BY <1>15, GiveLatchOK
<1>16. CASE EndTxn(t)
  <2>1. /\ pc[t] = "release" /\ pc'[t] = "idle" /\ UNCHANGED latch
        /\ rid[t] = lock_cnt[t] /\ lock_cnt[t] \in Nat
    BY <1>16 DEF EndTxn
  <2>2. LatchedAccesses(t) = {}
    BY <2>1
  <2> QED BY <2>1, <2>2, QuietLatchOK
<1> QED
  BY <1>1, <1>2, <1>3, <1>4, <1>5, <1>6, <1>7, <1>8, <1>9, <1>10, <1>11,
     <1>12, <1>13, <1>14, <1>15, <1>16 DEF Step

\* A step never takes a latch from another thread, nor gives it one.
LEMMA OthersLatches ==
  ASSUME TypeInv, AccessInv, LatchInv, NEW t \in Thread, Step(t),
         NEW u \in Thread, u # t, NEW r \in Row
  PROVE  latch'[r] = u <=> latch[r] = u
<1>1. CASE UNCHANGED latch
  BY <1>1
<1>2. CASE LatchAndValidate(t)
  BY <1>2, ThreadAssumption DEF LatchAndValidate, TypeInv, TypeOK
<1>3. CASE ReleaseLatch(t)
  <2>1. latch[accesses[t][rid[t] + 1].row] = t
    BY <1>3, GiveLatchOK DEF LatchInv
  <2> QED BY <1>3, <2>1, ThreadAssumption DEF ReleaseLatch, TypeInv, TypeOK
<1> QED
  BY <1>1, <1>2, <1>3
  DEF Step, Begin, GetRow, GetRowAbort, WriteRowInPlace, InsertRow, EndOfQuery,
      FinishAbort, FinishValidate, FinishPageChanged, GetEndTs, WriteLog,
      ReturnRow, EndCleanup, EndTxn

\* Every step keeps every thread's latches and prefix in agreement.
LEMMA StepLatchInv ==
  ASSUME TypeInv, AccessInv, LatchInv, NEW t \in Thread, Step(t)
  PROVE  LatchInv'
<1> SUFFICES ASSUME NEW u \in Thread PROVE LatchOK(u)'
  BY DEF LatchInv
<1>1. CASE u = t
  BY <1>1, StepLatchOK DEF LatchInv
<1>2. CASE u # t
  <2>1. /\ pc'[u] = pc[u] /\ accesses'[u] = accesses[u]
        /\ lock_cnt'[u] = lock_cnt[u] /\ rid'[u] = rid[u]
    BY <1>2, OtherThreads DEF TypeInv
  <2>2. LatchedAccesses(u)' = LatchedAccesses(u)
    BY <2>1 DEF LatchedAccesses
  <2>3. LatchOK(u)
    BY DEF LatchInv
  <2> QED BY <1>2, <2>1, <2>2, <2>3, OthersLatches DEF LatchOK, RowOf
<1> QED BY <1>1, <1>2

\* The invariant of the latching protocol.
LatchingInv == TypeInv /\ AccessInv /\ LatchInv

\* The latching invariant is inductive and holds initially.
THEOREM Latching == Spec => []LatchingInv
<1>1. Init => LatchingInv
  <2> SUFFICES ASSUME Init PROVE LatchingInv
    OBVIOUS
  <2>1. AccessInv
    BY EmptySeqType
    DEF Init, AccessInv, AccessesOK, DistinctRows, FromQuery, Sorted
  <2>2. LatchInv
    BY ThreadAssumption DEF Init, LatchInv, LatchOK, LatchedAccesses
  <2> QED BY <2>1, <2>2, InitTypeInv DEF LatchingInv
<1>2. LatchingInv /\ [Next]_vars => LatchingInv'
  <2> SUFFICES ASSUME LatchingInv, [Next]_vars PROVE LatchingInv'
    OBVIOUS
  <2>1. CASE UNCHANGED vars
    BY <2>1 DEF vars, LatchingInv, TypeInv, TypeOK, CounterInv, CountersOK,
       AccessInv, AccessesOK, DistinctRows, FromQuery, Sorted, Served, RowOf,
       LatchInv, LatchOK, LatchedAccesses
  <2>2. CASE \E t \in Thread : Step(t)
    BY <2>2, StepTypeOK, StepCounterInv, StepAccessInv, StepLatchInv
    DEF LatchingInv, TypeInv
  <2> QED BY <2>1, <2>2 DEF Next, Terminated
<1> QED BY <1>1, <1>2, PTL DEF Spec

\* per_row_validate holds exactly the latches of the prefix it has visited.
THEOREM LatchPrefix == Spec => []LatchesMatchPrefix
<1>1. LatchingInv => LatchesMatchPrefix
  <2> SUFFICES ASSUME LatchingInv, NEW t \in Thread
               PROVE  Held(t) = {RowOf(t, i) : i \in LatchedAccesses(t)}
    BY DEF LatchesMatchPrefix
  <2>1. \A i \in LatchedAccesses(t) : RowOf(t, i) \in Row
    BY LatchedAccessesType, AccessType DEF LatchingInv, TypeInv, RowOf
  <2> QED BY <2>1 DEF LatchingInv, LatchInv, LatchOK, Held
<1> QED BY <1>1, Latching, PTL

\* A validating thread waits only for a row above every row it has latched.
THEOREM OrderedLatching == Spec => []LatchOrder
<1>1. LatchingInv => LatchOrder
  <2> SUFFICES ASSUME LatchingInv, NEW t \in Thread, pc[t] = "validate",
                      lock_cnt[t] < Len(accesses[t]), NEW r \in Held(t)
               PROVE  r < RowOf(t, lock_cnt[t] + 1)
    BY DEF LatchOrder
  <2> DEFINE n == lock_cnt[t]
  <2>1. n \in Nat /\ Len(accesses[t]) \in Nat /\ n + 1 \in 1..Len(accesses[t])
    BY DEF LatchingInv, TypeInv, TypeOK
  <2>2. PICK i \in 1..n : RowOf(t, i) = r
    BY DEF LatchingInv, LatchInv, LatchOK, LatchedAccesses, Held
  <2>3. i \in 1..Len(accesses[t]) /\ i < n + 1
    BY <2>1
  <2>4. RowOf(t, i) <= RowOf(t, n + 1) /\ RowOf(t, i) # RowOf(t, n + 1)
    BY <2>1, <2>3 DEF LatchingInv, AccessInv, AccessesOK, DistinctRows, Sorted
  <2>5. RowOf(t, i) \in Nat /\ RowOf(t, n + 1) \in Nat
    BY <2>1, <2>3, AccessType, RowAssumption DEF LatchingInv, TypeInv, RowOf
  <2> QED BY <2>2, <2>4, <2>5
<1> QED BY <1>1, Latching, PTL

-----------------------------------------------------------------------------
(* The commits: the timestamps, the rows that are written back and the     *)
(* log.  A row a committing transaction has not written yet is latched by  *)
(* it, so no other commit can move the row's wts meanwhile.                *)

\* A transaction that has its end_ts and has not finished writing back.
Committing(t) == pc[t] \in {"log", "return"} /\ rc[t] = "RCOK"

\* Accesses of a committing transaction not written back yet.
Unwritten(t) == IF pc[t] = "log" THEN 1..Len(accesses[t]) ELSE 1..rid[t]

\* Every timestamp in use was drawn from the enclave's counter.
DrawnOK ==
    /\ \A r \in Row : wts[r] < timestampEnc
    /\ \A t \in Thread : end_ts[t] < timestampEnc

\* A committing transaction holds all its latches, and its end_ts exceeds the
\* wts of every row it still has to write.
CommitOK(t) ==
    Committing(t) =>
        /\ lock_cnt[t] = Len(accesses[t])
        /\ \A i \in Unwritten(t) : wts[RowOf(t, i)] < end_ts[t]

CommitInv == DrawnOK /\ \A t \in Thread : CommitOK(t)

\* The actions that leave wts alone.
LEMMA WtsUnchanged ==
  ASSUME NEW t \in Thread, Step(t), ~ReturnRow(t)
  PROVE  wts' = wts
  BY DEF Step, Begin, GetRow, GetRowAbort, WriteRowInPlace, InsertRow, EndOfQuery,
      FinishAbort, FinishValidate, FinishPageChanged, LatchAndValidate, GetEndTs,
      WriteLog, EndCleanup, ReleaseLatch, EndTxn, txnVars

\* The actions that draw no end_ts.
LEMMA EncUnchanged ==
  ASSUME NEW t \in Thread, Step(t), ~GetEndTs(t)
  PROVE  timestampEnc' = timestampEnc /\ end_ts' = end_ts
  BY DEF Step, Begin, GetRow, GetRowAbort, WriteRowInPlace, InsertRow, EndOfQuery,
      FinishAbort, FinishValidate, FinishPageChanged, LatchAndValidate,
      WriteLog, ReturnRow, EndCleanup, ReleaseLatch, EndTxn, txnVars

\* What return_row does to wts: nothing, or the next row of a commit gets the
\* transaction's end_ts.
LEMMA ReturnRowWts ==
  ASSUME TypeInv, NEW t \in Thread, ReturnRow(t)
  PROVE  /\ rid[t] \in 1..Len(accesses[t]) /\ RowOf(t, rid[t]) \in Row
         /\ \/ wts' = wts
            \/ /\ Committing(t)
               /\ accesses[t][rid[t]].type = "WR"
               /\ wts' = [wts EXCEPT ![RowOf(t, rid[t])] = end_ts[t]]
<1>1. rid[t] \in 1..Len(accesses[t])
  BY DEF ReturnRow, TypeInv, TypeOK, CounterInv, CountersOK
<1>2. RowOf(t, rid[t]) \in Row
  BY <1>1, AccessType DEF TypeInv, RowOf
<1> QED BY <1>1, <1>2 DEF ReturnRow, Committing, RowOf

\* The row about to be written back is latched by the writer.
LEMMA UnwrittenLatched ==
  ASSUME LatchingInv, NEW t \in Thread, Committing(t), CommitOK(t),
         NEW i \in Unwritten(t)
  PROVE  i \in 1..Len(accesses[t]) /\ RowOf(t, i) \in Row /\ latch[RowOf(t, i)] = t
<1>1. i \in 1..Len(accesses[t])
  BY DEF Unwritten, Committing, LatchingInv, TypeInv, TypeOK, CounterInv, CountersOK
<1>2. RowOf(t, i) \in Row
  BY <1>1, AccessType DEF LatchingInv, TypeInv, RowOf
<1>3. i \in LatchedAccesses(t)
  BY <1>1 DEF CommitOK, Committing, LatchedAccesses
<1> QED BY <1>1, <1>2, <1>3 DEF LatchingInv, LatchInv, LatchOK

\* Every timestamp in use stays below the enclave's counter.
LEMMA StepDrawnOK ==
  ASSUME TypeInv, DrawnOK, NEW t \in Thread, Step(t)
  PROVE  DrawnOK'
<1> USE DEF DrawnOK
<1>1. CASE GetEndTs(t)
  <2>1. /\ timestampEnc \in Nat /\ wts \in [Row -> Nat] /\ end_ts \in [Thread -> Nat]
    BY DEF TypeInv, TypeOK
  <2>2. /\ timestampEnc' = timestampEnc + 1 /\ wts' = wts
        /\ end_ts' = [end_ts EXCEPT ![t] = timestampEnc]
    BY <1>1 DEF GetEndTs
  <2>3. \A r \in Row : wts'[r] < timestampEnc'
    BY <2>1, <2>2
  <2>4. \A u \in Thread : end_ts'[u] < timestampEnc'
    BY <2>1, <2>2
  <2> QED BY <2>3, <2>4
<1>2. CASE ReturnRow(t)
  <2>1. timestampEnc' = timestampEnc /\ end_ts' = end_ts
    BY <1>2 DEF ReturnRow
  <2>2. \A r \in Row : wts'[r] = wts[r] \/ wts'[r] = end_ts[t]
    BY <1>2, ReturnRowWts DEF TypeInv, TypeOK
  <2> QED BY <2>1, <2>2
<1>3. CASE ~GetEndTs(t) /\ ~ReturnRow(t)
  BY <1>3, WtsUnchanged, EncUnchanged
<1> QED BY <1>1, <1>2, <1>3

\* Another thread's step leaves alone the rows a commit still has to write.
LEMMA OthersCommitOK ==
  ASSUME LatchingInv, CommitInv, NEW t \in Thread, Step(t), NEW u \in Thread, u # t
  PROVE  CommitOK(u)'
<1>1. /\ pc'[u] = pc[u] /\ accesses'[u] = accesses[u] /\ rc'[u] = rc[u]
      /\ lock_cnt'[u] = lock_cnt[u] /\ rid'[u] = rid[u] /\ end_ts'[u] = end_ts[u]
  BY OtherThreads DEF LatchingInv, TypeInv
<1> SUFFICES ASSUME Committing(u)
             PROVE  \A i \in Unwritten(u) : wts'[RowOf(u, i)] < end_ts[u]
  BY <1>1 DEF CommitInv, CommitOK, Committing, Unwritten, RowOf
<1> SUFFICES ASSUME NEW i \in Unwritten(u)
             PROVE  wts'[RowOf(u, i)] = wts[RowOf(u, i)]
  BY DEF CommitInv, CommitOK
<1>2. RowOf(u, i) \in Row /\ latch[RowOf(u, i)] = u
  BY UnwrittenLatched DEF CommitInv
<1>3. CASE ~ReturnRow(t)
  BY <1>3, WtsUnchanged
<1>4. CASE ReturnRow(t)
  <2>1. CASE wts' = wts
    BY <2>1
  <2>2. CASE wts' # wts
    <3>1. /\ Committing(t) /\ rid[t] > 0 /\ pc[t] = "return"
          /\ wts' = [wts EXCEPT ![RowOf(t, rid[t])] = end_ts[t]]
      BY <1>4, <2>2, ReturnRowWts DEF LatchingInv, ReturnRow
    <3>2. rid[t] \in Unwritten(t)
      BY <3>1, SMTT(30) DEF Unwritten, LatchingInv, TypeInv, TypeOK
    <3>3. latch[RowOf(t, rid[t])] = t
      BY <3>1, <3>2, UnwrittenLatched DEF CommitInv
    <3> QED BY <1>2, <3>1, <3>3 DEF LatchingInv, TypeInv, TypeOK
  <2> QED BY <2>1, <2>2
<1> QED BY <1>3, <1>4

\* A thread's own step keeps its end_ts above the rows it still has to write.
LEMMA OwnCommitOK ==
  ASSUME LatchingInv, CommitInv, NEW t \in Thread, Step(t)
  PROVE  CommitOK(t)'
<1> USE DEF LatchingInv, TypeInv
<1>1. CASE GetEndTs(t)
  <2>1. /\ end_ts'[t] = timestampEnc /\ wts' = wts /\ accesses' = accesses
        /\ lock_cnt'[t] = Len(accesses[t]) /\ pc'[t] = "log"
    BY <1>1 DEF GetEndTs, TypeOK
  <2>2. \A i \in 1..Len(accesses[t]) : wts[RowOf(t, i)] < timestampEnc
    BY AccessType DEF CommitInv, DrawnOK, RowOf
  <2> QED BY <2>1, <2>2 DEF CommitOK, Unwritten, RowOf
<1>2. CASE WriteLog(t)
  <2>1. /\ rid'[t] = Len(accesses[t]) /\ pc'[t] = "return" /\ pc[t] = "log"
        /\ UNCHANGED <<wts, accesses, lock_cnt, end_ts, rc>>
    BY <1>2 DEF WriteLog, TypeOK
  <2> QED BY <2>1 DEF CommitInv, CommitOK, Committing, Unwritten, RowOf
<1>3. CASE ReturnRow(t)
  <2> DEFINE k == rid[t]
  <2>1. /\ UNCHANGED <<accesses, lock_cnt, end_ts, rc, pc>>
        /\ pc[t] = "return"
    BY <1>3 DEF ReturnRow
  <2>2. /\ k \in 1..Len(accesses[t]) /\ RowOf(t, k) \in Row
        /\ wts' = wts \/ wts' = [wts EXCEPT ![RowOf(t, k)] = end_ts[t]]
    BY <1>3, ReturnRowWts
  <2>3. rid'[t] = k - 1 /\ k \in Nat /\ k - 1 \in Nat
    BY <1>3, ReturnRowCounter DEF TypeOK
  <2> SUFFICES ASSUME Committing(t), NEW i \in 1..(k - 1)
               PROVE  wts'[RowOf(t, i)] < end_ts[t]
    BY <2>1, <2>3 DEF CommitInv, CommitOK, Committing, Unwritten, RowOf
  <2>4. i \in 1..k /\ i \in 1..Len(accesses[t]) /\ i # k
    BY <2>2, <2>3
  <2>5. wts[RowOf(t, i)] < end_ts[t]
    BY <2>1, <2>4 DEF CommitInv, CommitOK, Unwritten
  <2>6. RowOf(t, i) # RowOf(t, k)
    BY <2>2, <2>4 DEF AccessInv, AccessesOK, DistinctRows
  <2> QED BY <2>2, <2>5, <2>6, <2>4, AccessType DEF TypeOK, RowOf
<1>4. CASE ~Committing(t)'
  BY <1>4 DEF CommitOK
<1>5. CASE Begin(t) \/ GetRow(t) \/ GetRowAbort(t) \/ WriteRowInPlace(t)
           \/ InsertRow(t) \/ EndOfQuery(t) \/ FinishValidate(t)
           \/ FinishPageChanged(t) \/ EndCleanup(t) \/ EndTxn(t)
  <2>1. pc'[t] \notin {"log", "return"}
    BY <1>5 DEF Begin, GetRow, HasRequest, GetRowAbort, WriteRowInPlace, InsertRow,
       EndOfQuery, FinishValidate, FinishPageChanged, EndCleanup, EndTxn, TypeOK
  <2> QED BY <1>4, <2>1 DEF Committing
<1>6. CASE FinishAbort(t)
  BY <1>4, <1>6 DEF FinishAbort, txnVars, Committing
<1>7. CASE LatchAndValidate(t)
  <2>1. pc'[t] = "validate" \/ rc'[t] = "Abort"
    BY <1>7 DEF LatchAndValidate, TypeOK
  <2> QED BY <1>4, <2>1 DEF Committing
<1>8. CASE ReleaseLatch(t)
  BY <1>4, <1>8 DEF ReleaseLatch, Committing
<1> QED BY <1>1, <1>2, <1>3, <1>5, <1>6, <1>7, <1>8 DEF Step

\* Every step keeps CommitInv.
LEMMA StepCommitInv ==
  ASSUME LatchingInv, CommitInv, NEW t \in Thread, Step(t)
  PROVE  CommitInv'
  BY StepDrawnOK, OthersCommitOK, OwnCommitOK DEF CommitInv, LatchingInv

\* Commits draw increasing timestamps and hold their latches while they write.
THEOREM Commit == Spec => []CommitInv
<1>1. Init => CommitInv
  BY DEF Init, CommitInv, DrawnOK, CommitOK, Committing
<1>2. LatchingInv /\ CommitInv /\ [Next]_vars => CommitInv'
  <2> SUFFICES ASSUME LatchingInv, CommitInv, [Next]_vars PROVE CommitInv'
    OBVIOUS
  <2>1. CASE UNCHANGED vars
    BY <2>1 DEF vars, CommitInv, DrawnOK, CommitOK, Committing, Unwritten, RowOf
  <2> QED BY <2>1, StepCommitInv DEF Next, Terminated
<1> QED BY <1>1, <1>2, Latching, PTL DEF Spec

\* The assertion of Row_occ::write never fails.
THEOREM WritesAdvance == Spec => []WriteAdvancesWts
<1>1. LatchingInv /\ CommitInv => WriteAdvancesWts
  <2> SUFFICES ASSUME LatchingInv, CommitInv, NEW t \in Thread, Installing(t)
               PROVE  end_ts[t] > wts[RowOf(t, rid[t])]
    BY DEF WriteAdvancesWts
  <2>1. Committing(t) /\ rid[t] \in Unwritten(t) /\ CommitOK(t)
    BY DEF Installing, Committing, Unwritten, LatchingInv, TypeInv, TypeOK, CommitInv
  <2>2. RowOf(t, rid[t]) \in Row
    BY <2>1, UnwrittenLatched
  <2> QED BY <2>1, <2>2 DEF CommitOK, LatchingInv, TypeInv, TypeOK
<1> QED BY <1>1, Latching, Commit, PTL

\* A step writes a row's wts forward or not at all.
LEMMA StepWtsGrows ==
  ASSUME LatchingInv, CommitInv, NEW t \in Thread, Step(t), NEW r \in Row
  PROVE  wts'[r] \in Nat /\ wts'[r] >= wts[r]
<1>1. CASE wts' = wts
  BY <1>1 DEF LatchingInv, TypeInv, TypeOK
<1>2. CASE wts' # wts
  <2>1. ReturnRow(t)
    BY <1>2, WtsUnchanged
  <2>2. /\ Committing(t) /\ pc[t] = "return" /\ RowOf(t, rid[t]) \in Row
        /\ wts' = [wts EXCEPT ![RowOf(t, rid[t])] = end_ts[t]]
    BY <1>2, <2>1, ReturnRowWts DEF LatchingInv, ReturnRow
  <2>3. rid[t] \in Unwritten(t)
    <3>1. rid[t] \in 1..Len(accesses[t])
      BY <2>1, ReturnRowWts DEF LatchingInv
    <3> QED BY <2>2, <3>1 DEF Unwritten
  <2>4. wts[RowOf(t, rid[t])] < end_ts[t]
    BY <2>2, <2>3 DEF CommitInv, CommitOK
  <2> QED BY <2>2, <2>4 DEF LatchingInv, TypeInv, TypeOK
<1> QED BY <1>1, <1>2

\* No step moves a row's wts back.
THEOREM WtsAdvances == Spec => WtsMonotonic
<1>1. LatchingInv /\ CommitInv /\ [Next]_vars => [\A r \in Row : wts'[r] >= wts[r]]_wts
  <2> SUFFICES ASSUME LatchingInv, CommitInv, [Next]_vars, wts' # wts, NEW r \in Row
               PROVE  wts'[r] >= wts[r]
    OBVIOUS
  <2>1. PICK t \in Thread : Step(t)
    BY DEF Next, Terminated, vars
  <2> QED BY <2>1, StepWtsGrows
<1> QED BY <1>1, Latching, Commit, PTL DEF Spec, WtsMonotonic

-----------------------------------------------------------------------------
(***************************************************************************)
(* The two counters.  Each attempt draws one start timestamp and at most   *)
(* one end timestamp, later: the attempts that may still draw one make up  *)
(* the distance the untrusted counter is ahead by.                         *)
(***************************************************************************)

\* Attempts that have not drawn an end_ts and still may.
Undrawn == {t \in Thread : pc[t] \in {"run", "compute", "finish", "validate"}}

CounterGap == timestampEnc + Cardinality(Undrawn) <= timestamp

\* A set of threads is finite.
LEMMA UndrawnFinite ==
  IsFiniteSet(Undrawn) /\ Cardinality(Undrawn) \in Nat
  BY ThreadAssumption, FS_Subset, FS_CardinalityType DEF Undrawn

\* Every step keeps the untrusted counter ahead.
LEMMA StepCounterGap ==
  ASSUME TypeInv, CounterGap, NEW t \in Thread, Step(t)
  PROVE  CounterGap'
<1> USE UndrawnFinite DEF TypeInv, TypeOK
<1>1. IsFiniteSet(Undrawn') /\ Cardinality(Undrawn') \in Nat
  BY ThreadAssumption, FS_Subset, FS_CardinalityType DEF Undrawn
<1>2. \A u \in Thread \ {t} : u \in Undrawn' <=> u \in Undrawn
  BY OtherThreads DEF Undrawn
<1>3. CASE Begin(t)
  <2>1. t \notin Undrawn /\ t \in Undrawn'
    BY <1>3 DEF Begin, Undrawn
  <2>2. Undrawn' = Undrawn \cup {t}
    BY <1>2, <2>1 DEF Undrawn
  <2>3. Cardinality(Undrawn') = Cardinality(Undrawn) + 1
    BY <2>1, <2>2, FS_AddElement
  <2>4. timestamp' = timestamp + 1 /\ timestampEnc' = timestampEnc
    BY <1>3 DEF Begin
  <2> QED BY <2>3, <2>4 DEF CounterGap
<1>4. CASE GetEndTs(t)
  <2>1. t \in Undrawn /\ t \notin Undrawn'
    BY <1>4 DEF GetEndTs, Undrawn
  <2>2. Undrawn' = Undrawn \ {t}
    BY <1>2, <2>1 DEF Undrawn
  <2>3. Cardinality(Undrawn') = Cardinality(Undrawn) - 1
    BY <2>1, <2>2, FS_RemoveElement
  <2>4. timestamp' = timestamp /\ timestampEnc' = timestampEnc + 1
    BY <1>4 DEF GetEndTs
  <2> QED BY <2>3, <2>4 DEF CounterGap
<1>5. CASE ~Begin(t) /\ ~GetEndTs(t)
  <2>1. t \in Undrawn' => t \in Undrawn
    BY <1>5
    DEF Step, GetRow, HasRequest, GetRowAbort, WriteRowInPlace, InsertRow, EndOfQuery,
        FinishAbort, FinishValidate, FinishPageChanged, LatchAndValidate,
        WriteLog, ReturnRow, EndCleanup, ReleaseLatch, EndTxn, Undrawn
  <2>2. Undrawn' \subseteq Undrawn
    BY <1>2, <2>1 DEF Undrawn
  <2>3. Cardinality(Undrawn') <= Cardinality(Undrawn)
    BY <2>2, FS_Subset
  <2>4. timestamp' = timestamp /\ timestampEnc' = timestampEnc
    BY <1>5
    DEF Step, GetRow, GetRowAbort, WriteRowInPlace, InsertRow, EndOfQuery,
        FinishAbort, FinishValidate, FinishPageChanged, LatchAndValidate,
        WriteLog, ReturnRow, EndCleanup, ReleaseLatch, EndTxn
  <2> QED BY <1>1, <2>3, <2>4 DEF CounterGap
<1> QED BY <1>3, <1>4, <1>5

\* No stored row refuses an attempt that starts now.
THEOREM RetriesNotDoomed == Spec => []RetryNotDoomed
<1>1. Init => CounterGap
  <2> SUFFICES ASSUME Init PROVE CounterGap
    OBVIOUS
  <2>1. Undrawn = {}
    BY DEF Init, Undrawn
  <2> QED BY <2>1, FS_EmptySet DEF Init, CounterGap
<1>2. LatchingInv /\ CounterGap /\ [Next]_vars => CounterGap'
  <2> SUFFICES ASSUME LatchingInv, CounterGap, [Next]_vars PROVE CounterGap'
    OBVIOUS
  <2>1. CASE UNCHANGED vars
    BY <2>1 DEF vars, CounterGap, Undrawn
  <2> QED BY <2>1, StepCounterGap DEF Next, Terminated, LatchingInv
<1>3. LatchingInv /\ CommitInv /\ CounterGap => RetryNotDoomed
  BY UndrawnFinite
  DEF LatchingInv, TypeInv, TypeOK, CommitInv, DrawnOK, CounterGap, RetryNotDoomed
<1> QED BY <1>1, <1>2, <1>3, Latching, Commit, PTL DEF Spec

-----------------------------------------------------------------------------
(***************************************************************************)
(* Reads.  A commit's end_ts is new when it is drawn, and while the commit *)
(* writes back, only rows it has latched carry it.                         *)
(***************************************************************************)

\* Copies of other transactions carry older timestamps than the counter.
CopiesOld ==
    \A t \in Thread : \A i \in 1..Len(accesses[t]) : accesses[t][i].wts < timestampEnc

\* The end_ts of a commit in progress is its own, and is hidden by its latches.
EndTsHidden(c) ==
    Committing(c) =>
        /\ \A r \in Row : wts[r] = end_ts[c] => latch[r] = c
        /\ \A d \in Thread \ {c} : Committing(d) => end_ts[d] # end_ts[c]
        /\ \A t \in Thread \ {c} : \A i \in 1..Len(accesses[t]) :
               accesses[t][i].wts # end_ts[c]

ReadInv == CopiesOld /\ \A c \in Thread : EndTsHidden(c)

\* The wts of every access after a step is that of an access before it, or,
\* after get_row, of a stored row nobody had latched.
LEMMA CopiesFrom ==
  ASSUME LatchingInv, NEW t \in Thread, Step(t),
         NEW u \in Thread, NEW i \in 1..Len(accesses'[u])
  PROVE  \/ \E j \in 1..Len(accesses[u]) : accesses'[u][i].wts = accesses[u][j].wts
         \/ \E r \in Row : latch[r] = NoThread /\ accesses'[u][i].wts = wts[r]
<1> USE DEF LatchingInv, TypeInv
<1>1. CASE accesses'[u] = accesses[u]
  BY <1>1
<1>2. CASE u # t
  BY <1>1, <1>2, OtherThreads
<1>3. CASE u = t /\ GetRow(t)
  <2> DEFINE n == Len(accesses[t])
             req == CurrentRequest(t)
  <2>0. accesses[t] \in Seq(Access) /\ n \in Nat
    BY DEF TypeOK
  <2>1. /\ accesses'[t] = Append(accesses[t], LocalCopy(req))
        /\ Len(accesses'[t]) = n + 1 /\ LocalCopy(req) \in Access
        /\ accesses[t] \in Seq(Access) /\ n \in Nat
    BY <1>3, <2>0, GetRowAccesses
  <2>2. req.row \in Row /\ latch[req.row] = NoThread
    BY <1>3, CurrentRequestType DEF GetRow, HasRequest
  <2>3. CASE i = n + 1
    <3>1. accesses'[t][n + 1] = LocalCopy(req)
      BY <2>1
    <3>2. accesses'[t][n + 1].wts = wts[req.row]
      BY <3>1 DEF LocalCopy
    <3> QED BY <1>3, <2>2, <2>3, <3>2
  <2>4. CASE i # n + 1
    <3>1. i \in 1..n
      BY <1>3, <2>1, <2>4
    <3>2. accesses'[t][i] = accesses[t][i]
      BY <2>1, <3>1
    <3> QED BY <1>3, <3>1, <3>2
  <2> QED BY <2>3, <2>4
<1>4. CASE u = t /\ FinishValidate(t)
  <2>1. PICK p \in Sortings(accesses[t]) :
            accesses' = [accesses EXCEPT ![t] = Rearrange(accesses[t], p)]
    BY <1>4 DEF FinishValidate
  <2>2. accesses'[t] = Rearrange(accesses[t], p) /\ accesses[t] \in Seq(Access)
    BY <2>1 DEF TypeOK
  <2>3. Len(accesses'[t]) = Len(accesses[t])
    BY <2>2, RearrangeType
  <2>4. i \in 1..Len(accesses[t]) /\ p[i] \in 1..Len(accesses[t])
    BY <1>4, <2>3 DEF Sortings
  <2>5. accesses'[t][i] = accesses[t][p[i]]
    BY <2>2, <2>4 DEF Rearrange
  <2> QED BY <1>4, <2>4, <2>5
<1>5. CASE u = t /\ (Begin(t) \/ EndTxn(t))
  <2>1. accesses'[t] = <<>>
    BY <1>5 DEF Begin, EndTxn, TypeOK
  <2> QED BY <1>5, <2>1, EmptySeqType
<1>6. CASE u = t /\ ~GetRow(t) /\ ~FinishValidate(t) /\ ~Begin(t) /\ ~EndTxn(t)
  <2>1. accesses' = accesses
    BY <1>6
    DEF Step, GetRowAbort, WriteRowInPlace, InsertRow, EndOfQuery, FinishAbort,
        FinishPageChanged, LatchAndValidate, GetEndTs, WriteLog, ReturnRow,
        EndCleanup, ReleaseLatch, txnVars
  <2> QED BY <1>1, <2>1
<1> QED BY <1>2, <1>3, <1>4, <1>5, <1>6

\* The numbers the next proofs compare.
LEMMA CopyTypes ==
  ASSUME TypeInv
  PROVE  /\ timestampEnc \in Nat
         /\ \A r \in Row : wts[r] \in Nat
         /\ \A t \in Thread : end_ts[t] \in Nat
         /\ \A t \in Thread : \A i \in 1..Len(accesses[t]) : accesses[t][i].wts \in Nat
<1>1. \A t \in Thread : \A i \in 1..Len(accesses[t]) : accesses[t][i] \in Access
  BY AccessType DEF TypeInv
<1> QED BY <1>1 DEF TypeInv, TypeOK, Access

\* Every step keeps the copies older than the counter.
LEMMA StepCopiesOld ==
  ASSUME LatchingInv, CommitInv, CopiesOld, NEW t \in Thread, Step(t)
  PROVE  CopiesOld'
<1>1. timestampEnc \in Nat /\ timestampEnc' \in Nat /\ timestampEnc <= timestampEnc'
  BY EncUnchanged DEF LatchingInv, TypeInv, TypeOK, GetEndTs
<1> SUFFICES ASSUME NEW u \in Thread, NEW i \in 1..Len(accesses'[u])
             PROVE  accesses'[u][i].wts < timestampEnc'
  BY DEF CopiesOld
<1>2. accesses'[u][i].wts \in Nat /\ accesses'[u][i].wts < timestampEnc
  BY CopiesFrom, CopyTypes DEF CopiesOld, CommitInv, DrawnOK, LatchingInv
<1> QED BY <1>1, <1>2

\* A thread commits after a step only if it did before or has just drawn end_ts.
LEMMA CommittingFrom ==
  ASSUME LatchingInv, NEW t \in Thread, Step(t), NEW c \in Thread, Committing(c)'
  PROVE  \/ Committing(c) /\ end_ts'[c] = end_ts[c]
         \/ c = t /\ GetEndTs(t)
<1> USE DEF LatchingInv, TypeInv
<1>1. CASE c # t
  BY <1>1, OtherThreads DEF Committing
<1>2. CASE c = t /\ ~GetEndTs(t)
  <2>1. pc[t] \in {"log", "return"} /\ rc[t] = "RCOK"
    BY <1>2
    DEF Committing, TypeOK, Step, Begin, GetRow, HasRequest, GetRowAbort,
        WriteRowInPlace, InsertRow, EndOfQuery, FinishAbort, FinishValidate,
        FinishPageChanged, LatchAndValidate, WriteLog, ReturnRow, EndCleanup,
        ReleaseLatch, EndTxn, txnVars
  <2> QED BY <1>2, <2>1, EncUnchanged DEF Committing
<1> QED BY <1>1, <1>2

\* Every step keeps the end_ts of commits in progress hidden.
LEMMA StepEndTsHidden ==
  ASSUME LatchingInv, CommitInv, ReadInv, NEW t \in Thread, Step(t), NEW c \in Thread
  PROVE  EndTsHidden(c)'
<1> USE DEF ReadInv
<1> SUFFICES ASSUME Committing(c)' PROVE EndTsHidden(c)'
  BY DEF EndTsHidden
<1>1. CASE c = t /\ GetEndTs(t)
  <2>1. /\ end_ts'[t] = timestampEnc /\ UNCHANGED <<wts, accesses>>
        /\ \A d \in Thread \ {t} : end_ts'[d] = end_ts[d]
    BY <1>1 DEF GetEndTs, LatchingInv, TypeInv, TypeOK
  <2>2. /\ \A r \in Row : wts'[r] # timestampEnc
        /\ \A d \in Thread \ {t} : end_ts'[d] # timestampEnc
        /\ \A d \in Thread : \A i \in 1..Len(accesses[d]) : accesses[d][i].wts # timestampEnc
    BY <2>1, CopyTypes DEF CommitInv, DrawnOK, CopiesOld, LatchingInv
  <2> QED BY <1>1, <2>1, <2>2 DEF EndTsHidden
<1>2. CASE Committing(c) /\ end_ts'[c] = end_ts[c]
  <2>1. ASSUME NEW r \in Row, wts'[r] = end_ts[c] PROVE latch'[r] = c
    <3>1. CASE wts'[r] = wts[r]
      <4>1. latch[r] = c
        BY <1>2, <2>1, <3>1 DEF EndTsHidden
      <4>2. CASE c # t
        BY <4>1, <4>2, OthersLatches DEF LatchingInv
      <4>3. CASE c = t
        <5>1. ~ReleaseLatch(t)
          BY <1>2, <4>3 DEF ReleaseLatch, Committing
        <5>2. latch'[r] = latch[r] \/ latch'[r] = t
          BY <5>1
          DEF Step, Begin, GetRow, GetRowAbort, WriteRowInPlace, InsertRow, EndOfQuery,
              FinishAbort, FinishValidate, FinishPageChanged, LatchAndValidate, GetEndTs,
              WriteLog, ReturnRow, EndCleanup, EndTxn, LatchingInv, TypeInv, TypeOK
        <5> QED BY <4>1, <4>3, <5>2
      <4> QED BY <4>2, <4>3
    <3>2. CASE wts'[r] # wts[r]
      <4>1. ReturnRow(t)
        BY <3>2, WtsUnchanged
      <4>2. /\ Committing(t) /\ pc[t] = "return" /\ rid[t] > 0 /\ latch' = latch
            /\ wts' = [wts EXCEPT ![RowOf(t, rid[t])] = end_ts[t]]
        BY <3>2, <4>1, ReturnRowWts DEF LatchingInv, ReturnRow
      <4>3. r = RowOf(t, rid[t]) /\ wts'[r] = end_ts[t]
        BY <3>2, <4>2 DEF LatchingInv, TypeInv, TypeOK
      <4>4. rid[t] \in Unwritten(t)
        BY <4>2, SMTT(30) DEF Unwritten, LatchingInv, TypeInv, TypeOK
      <4>5. latch[r] = t
        BY <4>2, <4>3, <4>4, UnwrittenLatched DEF CommitInv
      <4>6. c = t
        BY <1>2, <2>1, <4>2, <4>3 DEF EndTsHidden
      <4> QED BY <4>2, <4>5, <4>6
    <3> QED BY <3>1, <3>2
  <2>2. ASSUME NEW d \in Thread \ {c}, Committing(d)' PROVE end_ts'[d] # end_ts[c]
    <3>1. CASE Committing(d) /\ end_ts'[d] = end_ts[d]
      BY <1>2, <3>1 DEF EndTsHidden
    <3>2. CASE d = t /\ GetEndTs(t)
      <4>1. end_ts'[d] = timestampEnc
        BY <3>2 DEF GetEndTs, LatchingInv, TypeInv, TypeOK
      <4> QED BY <4>1, CopyTypes DEF CommitInv, DrawnOK, LatchingInv
    <3> QED BY <2>2, <3>1, <3>2, CommittingFrom
  <2>3. ASSUME NEW u \in Thread \ {c}, NEW i \in 1..Len(accesses'[u])
        PROVE  accesses'[u][i].wts # end_ts[c]
    <3>1. CASE \E j \in 1..Len(accesses[u]) : accesses'[u][i].wts = accesses[u][j].wts
      BY <1>2, <3>1 DEF EndTsHidden
    <3>2. CASE \E r \in Row : latch[r] = NoThread /\ accesses'[u][i].wts = wts[r]
      BY <1>2, <3>2, ThreadAssumption DEF EndTsHidden
    <3> QED BY <3>1, <3>2, CopiesFrom
  <2> QED BY <1>2, <2>1, <2>2, <2>3 DEF EndTsHidden
<1> QED BY <1>1, <1>2, CommittingFrom

\* No transaction has a copy of a row that a commit in progress wrote.
THEOREM ReadsClean == Spec => []NoDirtyRead
<1>1. Init => ReadInv
  BY EmptySeqType DEF Init, ReadInv, CopiesOld, EndTsHidden, Committing
<1>2. LatchingInv /\ CommitInv /\ ReadInv /\ [Next]_vars => ReadInv'
  <2> SUFFICES ASSUME LatchingInv, CommitInv, ReadInv, [Next]_vars PROVE ReadInv'
    OBVIOUS
  <2>1. CASE UNCHANGED vars
    BY <2>1 DEF vars, ReadInv, CopiesOld, EndTsHidden, Committing
  <2>2. CASE \E t \in Thread : Step(t)
    BY <2>2, StepCopiesOld, StepEndTsHidden DEF ReadInv
  <2> QED BY <2>1, <2>2 DEF Next, Terminated
<1>3. ReadInv => NoDirtyRead
  BY DEF ReadInv, EndTsHidden, Committing, NoDirtyRead
<1> QED BY <1>1, <1>2, <1>3, Latching, Commit, PTL DEF Spec

-----------------------------------------------------------------------------
(***************************************************************************)
(* The log.  A commit's record is sent while its latches are held, so the  *)
(* next record that names one of its rows is sent after that row's write.  *)
(***************************************************************************)

\* A logged write of row r that its transaction still has to install.
InstallPending(c, r, ts) ==
    /\ pc[c] = "return" /\ rc[c] = "RCOK" /\ end_ts[c] = ts
    /\ \E k \in 1..rid[c] : accesses[c][k].type = "WR" /\ RowOf(c, k) = r

\* A logged commit has been installed in a row, or is about to be.
LogInstalled ==
    \A i \in 1..Len(log) : log[i].rc = "RCOK" =>
        \A r \in log[i].rows :
            log[i].ts <= wts[r] \/ \E c \in Thread : InstallPending(c, r, log[i].ts)

LogInv == LogInstalled /\ LogInCommitOrder

\* The records of the log are records.
LEMMA RecordType ==
  ASSUME TypeOK, NEW i \in 1..Len(log)
  PROVE  log[i] \in LogRecord /\ log[i].ts \in Nat /\ log[i].rows \subseteq Row
<1>1. log[i] \in LogRecord
  BY DEF TypeOK
<1> QED BY <1>1 DEF LogRecord

\* A pending install stays pending, or its row now carries its timestamp.
LEMMA StepInstallPending ==
  ASSUME LatchingInv, CommitInv, NEW t \in Thread, Step(t),
         NEW c \in Thread, NEW r \in Row, NEW ts \in Nat, InstallPending(c, r, ts)
  PROVE  InstallPending(c, r, ts)' \/ wts'[r] = ts
<1>1. PICK k \in 1..rid[c] : accesses[c][k].type = "WR" /\ RowOf(c, k) = r
  BY DEF InstallPending
<1>2. CASE c # t
  BY <1>1, <1>2, OtherThreads DEF InstallPending, RowOf, LatchingInv, TypeInv
<1>3. CASE c = t
  <2>1. ReturnRow(t) \/ EndCleanup(t)
    BY <1>3
    DEF InstallPending, Step, Begin, GetRow, HasRequest, GetRowAbort, WriteRowInPlace,
        InsertRow, EndOfQuery, FinishAbort, FinishValidate, FinishPageChanged,
        LatchAndValidate, GetEndTs, WriteLog, ReleaseLatch, EndTxn
  <2>2. rid[t] \in Nat /\ rid[t] > 0
    BY <1>1, <1>3 DEF LatchingInv, TypeInv, TypeOK
  <2>3. ReturnRow(t)
    BY <2>1, <2>2 DEF EndCleanup
  <2>4. UNCHANGED <<pc, rc, end_ts, accesses>>
    BY <2>3 DEF ReturnRow
  <2>5. CASE k = rid[t]
    <3>1. wts' = [wts EXCEPT ![r] = end_ts[t]]
      BY <1>1, <1>3, <2>3, <2>5 DEF ReturnRow, InstallPending, RowOf
    <3> QED BY <1>3, <3>1 DEF InstallPending, LatchingInv, TypeInv, TypeOK
  <2>6. CASE k # rid[t]
    <3>1. rid'[t] = rid[t] - 1
      BY <2>3, ReturnRowCounter DEF LatchingInv, TypeInv, TypeOK
    <3>2. k \in 1..rid'[t]
      BY <1>3, <2>2, <2>6, <3>1
    <3> QED BY <1>1, <1>3, <2>4, <3>2 DEF InstallPending, RowOf
  <2> QED BY <2>5, <2>6
<1> QED BY <1>2, <1>3

\* A logged commit stays installed or pending over a step.
LEMMA StepInstalled ==
  ASSUME LatchingInv, CommitInv, LogInv, NEW t \in Thread, Step(t),
         NEW i \in 1..Len(log), log[i].rc = "RCOK", NEW r \in log[i].rows,
         NEW ts, ts = log[i].ts
  PROVE  ts <= wts'[r] \/ \E c \in Thread : InstallPending(c, r, ts)'
<1>1. r \in Row /\ ts \in Nat /\ wts[r] \in Nat
  BY RecordType DEF LatchingInv, TypeInv, TypeOK
<1>2. wts'[r] \in Nat /\ wts'[r] >= wts[r]
  BY <1>1, StepWtsGrows
<1>3. CASE ts <= wts[r]
  BY <1>1, <1>2, <1>3
<1>4. CASE \E c \in Thread : InstallPending(c, r, ts)
  BY <1>1, <1>4, StepInstallPending
<1> QED BY <1>3, <1>4 DEF LogInv, LogInstalled

\* Every step keeps the log in commit order.
LEMMA StepLogInv ==
  ASSUME LatchingInv, CommitInv, LogInv, NEW t \in Thread, Step(t)
  PROVE  LogInv'
<1>1. CASE log' = log
  <2>1. LogInCommitOrder'
    BY <1>1 DEF LogInv, LogInCommitOrder
  <2>2. LogInstalled'
    <3> SUFFICES ASSUME NEW i \in 1..Len(log), log[i].rc = "RCOK",
                        NEW r \in log[i].rows, NEW ts, ts = log[i].ts
                 PROVE  ts <= wts'[r] \/ \E c \in Thread : InstallPending(c, r, ts)'
      BY <1>1 DEF LogInstalled, InstallPending
    <3> QED BY StepInstalled
  <2> QED BY <2>1, <2>2 DEF LogInv
<1>2. CASE WriteLog(t)
  <2> DEFINE n == Len(log)
             rec == [rc |-> rc[t], ts |-> end_ts[t], rows |-> WriteSet(t)]
  <2>1. log \in Seq(LogRecord) /\ n \in Nat
    BY DEF LatchingInv, TypeInv, TypeOK
  <2>2. rec \in LogRecord
    BY WriteSetType DEF LogRecord, LatchingInv, TypeInv, TypeOK
  <2>3. /\ log' = Append(log, rec) /\ wts' = wts /\ pc[t] = "log"
        /\ UNCHANGED <<accesses, end_ts, rc>>
    BY <1>2 DEF WriteLog
  <2>4. /\ Len(log') = n + 1 /\ log'[n + 1] = rec
        /\ \A i \in 1..n : log'[i] = log[i]
    BY <2>1, <2>2, <2>3
  <2>5. pc'[t] = "return" /\ rid'[t] = Len(accesses[t])
    BY <1>2 DEF WriteLog, LatchingInv, TypeInv, TypeOK
  <2>6. ASSUME rc[t] = "RCOK", NEW r \in WriteSet(t)
        PROVE  /\ r \in Row /\ latch[r] = t /\ wts[r] < end_ts[t]
               /\ InstallPending(t, r, end_ts[t])'
    <3>1. PICK k \in 1..Len(accesses[t]) : accesses[t][k].type = "WR" /\ RowOf(t, k) = r
      BY DEF WriteSet, RowOf
    <3>2. Committing(t) /\ k \in Unwritten(t) /\ CommitOK(t)
      BY <2>3, <2>6, <3>1 DEF Committing, Unwritten, CommitInv
    <3>3. r \in Row /\ latch[r] = t
      BY <3>1, <3>2, UnwrittenLatched
    <3>4. wts[r] < end_ts[t]
      BY <3>1, <3>2 DEF CommitOK
    <3> QED BY <2>3, <2>5, <2>6, <3>1, <3>3, <3>4 DEF InstallPending, RowOf
  <2>7. LogInstalled'
    <3> SUFFICES ASSUME NEW i \in 1..(n + 1), log'[i].rc = "RCOK",
                        NEW r \in log'[i].rows, NEW ts, ts = log'[i].ts
                 PROVE  ts <= wts'[r] \/ \E c \in Thread : InstallPending(c, r, ts)'
      BY <2>4 DEF LogInstalled, InstallPending
    <3>1. CASE i = n + 1
      <4>1. log'[i].rc = rc[t] /\ log'[i].ts = end_ts[t] /\ log'[i].rows = WriteSet(t)
        BY <2>4, <3>1
      <4>2. InstallPending(t, r, end_ts[t])'
        BY <2>6, <4>1
      <4> QED BY <2>3, <4>1, <4>2 DEF InstallPending
    <3>2. CASE i # n + 1
      <4>1. i \in 1..n /\ log'[i] = log[i]
        BY <2>1, <2>4, <3>2
      <4> QED BY <4>1, StepInstalled
    <3> QED BY <3>1, <3>2
  <2>8. LogInCommitOrder'
    <3> SUFFICES ASSUME NEW i \in 1..(n + 1), NEW j \in 1..(n + 1), i < j,
                        log'[i].rc = "RCOK", log'[j].rc = "RCOK",
                        NEW r \in log'[i].rows, r \in log'[j].rows
                 PROVE  log'[i].ts < log'[j].ts
      BY <2>4 DEF LogInCommitOrder
    <3>1. i \in 1..n /\ log'[i] = log[i]
      BY <2>1, <2>4
    <3>2. CASE j = n + 1
      <4>1. rc[t] = "RCOK" /\ log'[j].ts = end_ts[t] /\ r \in WriteSet(t)
        BY <2>4, <3>2
      <4>2. r \in Row /\ latch[r] = t /\ wts[r] < end_ts[t]
        BY <2>6, <4>1
      <4>3. \A c \in Thread : ~InstallPending(c, r, log[i].ts)
        <5> SUFFICES ASSUME NEW c \in Thread, InstallPending(c, r, log[i].ts) PROVE FALSE
          OBVIOUS
        <5>1. PICK k \in 1..rid[c] : RowOf(c, k) = r
          BY DEF InstallPending
        <5>2. Committing(c) /\ k \in Unwritten(c) /\ CommitOK(c) /\ c # t
          BY <2>3 DEF InstallPending, Committing, Unwritten, CommitInv
        <5>3. latch[r] = c
          BY <5>1, <5>2, UnwrittenLatched
        <5> QED BY <4>2, <5>2, <5>3
      <4>4. log[i].ts <= wts[r]
        BY <3>1, <4>3 DEF LogInv, LogInstalled
      <4>5. log[i].ts \in Nat /\ wts[r] \in Nat /\ end_ts[t] \in Nat
        BY <3>1, <4>2, RecordType DEF LatchingInv, TypeInv, TypeOK
      <4> QED BY <3>1, <4>1, <4>2, <4>4, <4>5
    <3>3. CASE j # n + 1
      <4>1. j \in 1..n /\ log'[j] = log[j]
        BY <2>1, <2>4, <3>3
      <4> QED BY <3>1, <4>1 DEF LogInv, LogInCommitOrder
    <3> QED BY <3>2, <3>3
  <2> QED BY <2>7, <2>8 DEF LogInv
<1> QED
  BY <1>1, <1>2
  DEF Step, Begin, GetRow, GetRowAbort, WriteRowInPlace, InsertRow, EndOfQuery,
      FinishAbort, FinishValidate, FinishPageChanged, LatchAndValidate, GetEndTs,
      ReturnRow, EndCleanup, ReleaseLatch, EndTxn

\* Conflicting commits are logged in the order of their end timestamps.
THEOREM LogOrdered == Spec => []LogInCommitOrder
<1>1. Init => LogInv
  BY EmptySeqType DEF Init, LogInv, LogInstalled, LogInCommitOrder
<1>2. LatchingInv /\ CommitInv /\ LogInv /\ [Next]_vars => LogInv'
  <2> SUFFICES ASSUME LatchingInv, CommitInv, LogInv, [Next]_vars PROVE LogInv'
    OBVIOUS
  <2>1. CASE UNCHANGED vars
    BY <2>1 DEF vars, LogInv, LogInstalled, LogInCommitOrder, InstallPending, RowOf
  <2>2. CASE \E t \in Thread : Step(t)
    BY <2>2, StepLogInv
  <2> QED BY <2>1, <2>2 DEF Next, Terminated
<1>3. LogInv => LogInCommitOrder
  BY DEF LogInv
<1> QED BY <1>1, <1>2, <1>3, Latching, Commit, PTL DEF Spec

=============================================================================
