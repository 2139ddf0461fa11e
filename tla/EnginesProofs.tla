---------------------------- MODULE EnginesProofs ----------------------------
(***************************************************************************)
(* Proofs about Engines: TicToc installs over the version it copied, under *)
(* central validation a row has one writer, and the theorems about the     *)
(* engines together.  SiloProofs has Silo's part.                          *)
(***************************************************************************)
EXTENDS SiloProofs

-----------------------------------------------------------------------------
(* TicToc.  A row's number is the wts of its word; a renewal may raise it  *)
(* without a new version, so it does not name a version, but it never      *)
(* stays when the version changes.                                         *)

TicCopying == {"copy1", "copy2", "check"}
TicLocking == {"pre", "lock", "backoff", "abort", "reads", "cas"}
TicInstalling == {"word", "install1", "install2", "release"}

TicWord == [lock : BOOLEAN, wts : Nat, delta : Nat]
TicPcs == {"idle", "run"} \cup TicCopying \cup TicLocking \cup TicInstalling
TicRowType == [word : TicWord, data : Copies]
TicAccessType == [row : Row, type : {"RD", "WR"}, data : Copies, wts : Nat, rts : Nat]
TicLocalType ==
    [v : TicWord, copy : Copies, num_locks : Nat, i : Nat, commit_wts : Nat, v2 : TicWord,
     rebase : BOOLEAN]

TicTypes ==
    /\ FrameTypes
    /\ row \in [Row -> TicRowType]
    /\ pc \in [Thread -> TicPcs]
    /\ accesses \in [Thread -> Seq(TicAccessType)]
    /\ local \in [Thread -> TicLocalType]

\* Where the loops of access and validate_tictoc are.
TicLoop(t) ==
    /\ pc[t] \in TicCopying => HasRequest(t)
    /\ pc[t] \in TicLocking => local[t].num_locks <= WN(t)
    /\ pc[t] = "pre" => local[t].num_locks = 0
    /\ pc[t] \in {"reads", "cas"} => local[t].num_locks = WN(t) /\ local[t].i <= RN(t)
    /\ pc[t] = "cas" => local[t].i < RN(t)
    /\ pc[t] \in TicInstalling => local[t].i <= WN(t)
    /\ pc[t] \in TicInstalling \ {"word"} => local[t].i < WN(t)

\* The rows whose lock bit a thread has set.
TicHeld(t) ==
    IF pc[t] \in TicLocking THEN WRows(t, 1, local[t].num_locks)
    ELSE IF pc[t] \in TicInstalling THEN WRows(t, local[t].i + 1, WN(t)) ELSE {}

TicLocks ==
    /\ \A r \in Row : row[r].word.lock <=> \E t \in Thread : r \in TicHeld(t)
    /\ \A t, u \in Thread : \A r \in TicHeld(t) : r \in TicHeld(u) => t = u

\* How many words are stored, and the row whose data is behind its word.
TicDone(t) ==
    IF pc[t] \in {"install1", "install2", "release"} THEN local[t].i + 1
    ELSE IF pc[t] = "word" THEN local[t].i ELSE 0
TicDirty(t, r) == pc[t] \in {"install1", "install2"} /\ r = WRow(t, local[t].i + 1)
TicClean(r) == \A t \in Thread : ~TicDirty(t, r)

\* A row that nobody is writing holds its latest version; the version of one
\* that is written is the writer's.
TicRows ==
    /\ \A r \in Row : TicClean(r) => \A h \in 1..2 : row[r].data[h] = Latest(r)
    /\ \A t \in Thread, r \in Row : TicDirty(t, r) =>
          /\ Latest(r) = Attempt(t)
          /\ pc[t] = "install2" => row[r].data[1] = Attempt(t)

\* While the row keeps its number it is not written, and the copy is current.
TicCopy(t) ==
    pc[t] \in TicCopying =>
        LET r == Request(t).row IN
        /\ ~local[t].v.lock
        /\ local[t].v.wts <= row[r].word.wts
        /\ row[r].word.wts = local[t].v.wts =>
              TicClean(r) /\ \A h \in 1..2 : Copied(t, h) => local[t].copy[h] = Latest(r)

\* An access has a version of its row, the latest while the row keeps its number.
TicAccess(t) ==
    \A i \in 1..Len(accesses[t]) :
        LET a == accesses[t][i] IN
        /\ a.wts <= a.rts
        /\ a.wts <= row[a.row].word.wts
        /\ HasVersion(a.row, a.data[1])
        /\ a.wts = row[a.row].word.wts => a.data[1] = Latest(a.row)

\* A row locked for a commit keeps the number its copy has, the commit time is
\* above it once all are locked, and a row that was installed had the version
\* that was copied.
TicCurrent(t) ==
    /\ pc[t] \in {"lock", "reads", "cas"} =>
          \A k \in 1..local[t].num_locks :
             accesses[t][WriteSet(t)[k]].wts = row[WRow(t, k)].word.wts
    /\ pc[t] \in {"reads", "cas"} =>
          \A k \in 1..WN(t) : local[t].commit_wts > row[WRow(t, k)].word.wts
    /\ pc[t] \in TicInstalling =>
          \A k \in (TicDone(t) + 1)..WN(t) :
             /\ accesses[t][WriteSet(t)[k]].wts = row[WRow(t, k)].word.wts
             /\ local[t].commit_wts > row[WRow(t, k)].word.wts
    /\ pc[t] \in TicInstalling =>
          \A k \in 1..TicDone(t) :
             Replaced(WRow(t, k), accesses[t][WriteSet(t)[k]].data[1], Attempt(t))

\* The word a renewal is about to swap in does not lower the number.
TicSwap(t) ==
    pc[t] = "cas" => ~local[t].v.lock /\ ~local[t].v2.lock /\ local[t].v.wts <= local[t].v2.wts

\* A version with the identity of a running attempt was installed by it.
TicFresh(t) ==
    \A r \in Row : pc[t] # "idle" /\ HasVersion(r, Attempt(t)) => pc[t] \in TicInstalling

TicThread(t) ==
    /\ Follows(t) /\ TicLoop(t) /\ TicCopy(t) /\ TicAccess(t) /\ TicCurrent(t) /\ TicSwap(t) /\ TicFresh(t)

TicInv ==
    /\ TicTypes /\ HistoryKept /\ IdsUsed /\ TicLocks /\ TicRows
    /\ \A t \in Thread : TicThread(t)

-----------------------------------------------------------------------------
(* TicToc: the steps in general.                                           *)

LEMMA TicRowsOK ==
  ASSUME TicTypes, NEW t \in Thread, Follows(t)
  PROVE  RowsOK(t)
<1>1. query[t] \in Seq(Requests) /\ Len(accesses[t]) \in Nat
  BY DEF TicTypes, FrameTypes
<1> QED BY <1>1, FollowsRowsOK

\* The types of one thread's state.
LEMMA TicTyped ==
  ASSUME TicTypes, NEW t \in Thread
  PROVE  /\ query[t] \in Seq(Requests) /\ Len(query[t]) \in Nat
         /\ \A i \in 1..Len(query[t]) : query[t][i] \in Requests
         /\ accesses[t] \in Seq(TicAccessType) /\ Len(accesses[t]) \in Nat
         /\ \A i \in 1..Len(accesses[t]) :
               /\ accesses[t][i] \in TicAccessType
               /\ accesses[t][i].row \in Row /\ accesses[t][i].wts \in Nat /\ accesses[t][i].rts \in Nat
               /\ accesses[t][i].data[1] \in Ids
         /\ local[t] \in TicLocalType
         /\ local[t].v \in TicWord /\ local[t].v.wts \in Nat /\ local[t].v2 \in TicWord
         /\ local[t].num_locks \in Nat /\ local[t].i \in Nat
         /\ local[t].commit_wts \in Nat /\ local[t].copy \in Copies
         /\ \A r \in Row : /\ row[r] \in TicRowType /\ row[r].word \in TicWord
                           /\ row[r].word.wts \in Nat /\ row[r].word.delta \in Nat
                           /\ row[r].data \in Copies
         /\ tries[t] \in Nat
         /\ Attempt(t) \in Ids
<1>1. query[t] \in Seq(Requests) /\ tries[t] \in Nat
  BY DEF TicTypes, FrameTypes
<1>2. Len(query[t]) \in Nat /\ \A i \in 1..Len(query[t]) : query[t][i] \in Requests
  BY <1>1
<1>3. accesses[t] \in Seq(TicAccessType)
  BY DEF TicTypes
<1>4. Len(accesses[t]) \in Nat /\ \A i \in 1..Len(accesses[t]) : accesses[t][i] \in TicAccessType
  BY <1>3
<1>5. \A a \in TicAccessType : a.row \in Row /\ a.wts \in Nat /\ a.rts \in Nat /\ a.data[1] \in Ids
  BY DEF TicAccessType, Copies
<1>6. local[t] \in TicLocalType
  BY DEF TicTypes
<1>7. /\ local[t].v \in TicWord /\ local[t].v2 \in TicWord
      /\ local[t].num_locks \in Nat /\ local[t].i \in Nat
      /\ local[t].commit_wts \in Nat /\ local[t].copy \in Copies
  BY <1>6 DEF TicLocalType
<1>9. local[t].v.wts \in Nat
  BY <1>7 DEF TicWord
<1>10. ASSUME NEW r \in Row
       PROVE  /\ row[r] \in TicRowType /\ row[r].word \in TicWord
              /\ row[r].word.wts \in Nat /\ row[r].word.delta \in Nat /\ row[r].data \in Copies
  <2>1. row[r] \in TicRowType
    BY DEF TicTypes
  <2>2. row[r].word \in TicWord /\ row[r].data \in Copies
    BY <2>1 DEF TicRowType
  <2> QED BY <2>1, <2>2 DEF TicWord
<1>8. Attempt(t) \in Ids
  BY <1>1 DEF Attempt, Ids
<1> QED BY <1>1, <1>2, <1>3, <1>4, <1>5, <1>6, <1>7, <1>8, <1>9, <1>10

LEMMA TicTypedNext ==
  TicTypes' => \A r \in Row : /\ row'[r] \in TicRowType /\ row'[r].word \in TicWord
                              /\ row'[r].word.wts \in Nat /\ row'[r].data \in Copies
<1> SUFFICES ASSUME TicTypes', NEW r \in Row
             PROVE  /\ row'[r] \in TicRowType /\ row'[r].word \in TicWord
                    /\ row'[r].word.wts \in Nat /\ row'[r].data \in Copies
  OBVIOUS
<1>1. row'[r] \in TicRowType
  BY DEF TicTypes
<1>2. row'[r].word \in TicWord /\ row'[r].data \in Copies
  BY <1>1 DEF TicRowType
<1> QED BY <1>1, <1>2 DEF TicWord

\* The row of the request that is being served.
LEMMA TicRequest ==
  ASSUME TicTypes, NEW t \in Thread, HasRequest(t)
  PROVE  /\ Len(accesses[t]) + 1 \in 1..Len(query[t])
         /\ Request(t) \in Requests /\ Request(t).row \in Row /\ Request(t).type \in {"RD", "WR"}
<1>1. /\ Len(accesses[t]) \in Nat /\ Len(query[t]) \in Nat
      /\ \A i \in 1..Len(query[t]) : query[t][i] \in Requests
  BY TicTyped
<1>2. Len(accesses[t]) + 1 \in 1..Len(query[t])
  BY <1>1 DEF HasRequest
<1>3. Request(t) \in Requests
  BY <1>1, <1>2 DEF Request
<1> QED BY <1>2, <1>3 DEF Requests

\* The names of TxnFrame mean the same in the instance.
LEMMA TicNames ==
  /\ TT!Loaded = Loaded /\ TT!Half = 1..2
  /\ \A t : /\ TT!Attempt(t) = Attempt(t) /\ TT!Request(t) = Request(t)
            /\ TT!HasRequest(t) <=> HasRequest(t)
            /\ TT!WriteSet(t) = WriteSet(t) /\ TT!ReadSet(t) = ReadSet(t)
            /\ TT!Of(t, "WR") = Of(t, "WR") /\ TT!Of(t, "RD") = Of(t, "RD")
            /\ \A i : TT!TheWord(t, i) = row[accesses[t][i].row].word
            /\ \A n : TT!Locked(t, n) = WRows(t, 1, n)
            /\ TT!Installing(t) = WRow(t, local[t].i + 1)
<1>1. TT!Loaded = Loaded /\ TT!Half = 1..2
  BY DEF TT!Loaded, Loaded, TT!Half
<1>2. ASSUME NEW t
      PROVE  /\ TT!Attempt(t) = Attempt(t) /\ TT!Request(t) = Request(t)
             /\ TT!HasRequest(t) <=> HasRequest(t)
             /\ TT!WriteSet(t) = WriteSet(t) /\ TT!ReadSet(t) = ReadSet(t)
             /\ TT!Of(t, "WR") = Of(t, "WR") /\ TT!Of(t, "RD") = Of(t, "RD")
             /\ \A i : TT!TheWord(t, i) = row[accesses[t][i].row].word
             /\ \A n : TT!Locked(t, n) = WRows(t, 1, n)
             /\ TT!Installing(t) = WRow(t, local[t].i + 1)
  <2>1. TT!Of(t, "WR") = Of(t, "WR") /\ TT!Of(t, "RD") = Of(t, "RD")
    BY DEF TT!Of, Of
  <2>2. TT!WriteSet(t) = WriteSet(t) /\ TT!ReadSet(t) = ReadSet(t)
    <3>1. \A S, key : TT!InOrder(S, key) = InOrder(S, key)
      BY Zenon DEF TT!InOrder, InOrder, TT!Cardinality, Cardinality, TT!IsFiniteSet, IsFiniteSet
    <3>2. [i \in TT!Of(t, "WR") |-> accesses[t][i].row] = [i \in Of(t, "WR") |-> accesses[t][i].row]
      BY <2>1
    <3>3. [i \in TT!Of(t, "RD") |-> i] = [i \in Of(t, "RD") |-> i]
      BY <2>1
    <3> QED BY <2>1, <3>1, <3>2, <3>3, Zenon DEF TT!WriteSet, WriteSet, TT!ReadSet, ReadSet
  <2>3. TT!Attempt(t) = Attempt(t) /\ TT!Request(t) = Request(t)
    BY DEF TT!Attempt, Attempt, TT!Request, Request
  <2>4. TT!HasRequest(t) <=> HasRequest(t)
    BY DEF TT!HasRequest, HasRequest
  <2>5. \A n : TT!Locked(t, n) = WRows(t, 1, n)
    BY <2>2 DEF TT!Locked, WRows, WRow
  <2>6. TT!Installing(t) = WRow(t, local[t].i + 1)
    BY <2>2 DEF TT!Installing, WRow
  <2>7. \A i : TT!TheWord(t, i) = row[accesses[t][i].row].word
    BY DEF TT!TheWord
  <2> QED BY <2>1, <2>2, <2>3, <2>4, <2>5, <2>6, <2>7
<1> QED BY <1>1, <1>2

\* What a thread holds and is writing depends on its own state.
LEMMA TicOwn ==
  ASSUME NEW u \in Thread, pc'[u] = pc[u], tries'[u] = tries[u], query'[u] = query[u],
         accesses'[u] = accesses[u], local'[u] = local[u]
  PROVE  /\ TicHeld(u)' = TicHeld(u) /\ TicDone(u)' = TicDone(u)
         /\ Attempt(u)' = Attempt(u) /\ Request(u)' = Request(u)
         /\ \A r : TicDirty(u, r)' <=> TicDirty(u, r)
<1>1. /\ WriteSet(u)' = WriteSet(u) /\ ReadSet(u)' = ReadSet(u)
      /\ WN(u)' = WN(u) /\ RN(u)' = RN(u)
      /\ \A k : WRow(u, k)' = WRow(u, k)
      /\ \A a, b : WRows(u, a, b)' = WRows(u, a, b)
  BY SetsKept
<1>2. TicDone(u)' = TicDone(u)
  BY DEF TicDone
<1>3. TicHeld(u)' = TicHeld(u)
  BY <1>1 DEF TicHeld
<1>4. Attempt(u)' = Attempt(u) /\ Request(u)' = Request(u)
  BY DEF Attempt, Request
<1>5. \A r : TicDirty(u, r)' <=> TicDirty(u, r)
  BY <1>1 DEF TicDirty
<1> QED BY <1>2, <1>3, <1>4, <1>5

\* What every step of thread t leaves to the others: numbers grow, and with a
\* number the versions and the cleanness of the row are kept; a row another
\* thread holds is not touched; the versions that are new are those of t.
TicEffect(t) ==
    /\ OnlyThread(t) /\ VersionsGrow
    /\ \A r \in Row :
          /\ row'[r].word.wts >= row[r].word.wts
          /\ row'[r].word.wts = row[r].word.wts => vers'[r] = vers[r]
          /\ row'[r].word.wts = row[r].word.wts /\ TicDirty(t, r)' => TicDirty(t, r)
          /\ \A m \in 1..Len(vers'[r]) : m \in 1..Len(vers[r]) \/ vers'[r][m] = Attempt(t)
    /\ \A u \in Thread \ {t} : \A r \in TicHeld(u) : row'[r].word.wts = row[r].word.wts

LEMMA TicOthers ==
  ASSUME TicInv, TicTypes', NEW t \in Thread, TicEffect(t),
         NEW u \in Thread, u # t
  PROVE  TicThread(u)'
<1>1. /\ pc'[u] = pc[u] /\ tries'[u] = tries[u] /\ query'[u] = query[u]
      /\ accesses'[u] = accesses[u] /\ local'[u] = local[u]
  BY DEF TicEffect, OnlyThread
<1>2. /\ WriteSet(u)' = WriteSet(u) /\ ReadSet(u)' = ReadSet(u)
      /\ WN(u)' = WN(u) /\ RN(u)' = RN(u)
      /\ \A k : WRow(u, k)' = WRow(u, k)
      /\ \A a, b : WRows(u, a, b)' = WRows(u, a, b)
  BY <1>1, SetsKept
<1>3. /\ TicHeld(u)' = TicHeld(u) /\ TicDone(u)' = TicDone(u)
      /\ Attempt(u)' = Attempt(u) /\ Request(u)' = Request(u)
  BY <1>1, TicOwn
<1>4. FrameTypes /\ FrameTypes' /\ VersionsGrow
  BY DEF TicInv, TicTypes, TicEffect
<1>5. /\ Follows(u) /\ TicLoop(u) /\ TicCopy(u) /\ TicAccess(u) /\ TicCurrent(u) /\ TicFresh(u) /\ TicSwap(u)
  BY DEF TicInv, TicThread
<1>6. RowsOK(u)
  BY <1>5, TicRowsOK DEF TicInv
<1>7. /\ WN(u) \in Nat
      /\ \A a \in 1..WN(u) : WriteSet(u)[a] \in 1..Len(accesses[u]) /\ WRow(u, a) \in Row
  BY <1>6, WriteSetProps
<1>8. /\ local[u].v.wts \in Nat /\ local[u].num_locks \in Nat /\ local[u].i \in Nat
      /\ local[u].commit_wts \in Nat
      /\ \A r \in Row : row[r].word.wts \in Nat /\ row'[r].word.wts \in Nat
  BY TicTyped, TicTypedNext DEF TicInv
<1>9. Follows(u)'
  BY <1>1, <1>5 DEF Follows
<1>10. TicLoop(u)'
  BY <1>1, <1>2, <1>5 DEF TicLoop, HasRequest
<1>11. TicCopy(u)'
  <2> SUFFICES ASSUME pc[u] \in TicCopying PROVE TicCopy(u)'
    BY <1>1 DEF TicCopy
  <2>1. PICK r \in Row : r = Request(u).row /\ r = Request(u)'.row
    BY <1>3, <1>5, TicRequest DEF TicLoop, TicInv
  <2>2. /\ ~local[u].v.lock /\ local[u].v.wts <= row[r].word.wts
        /\ row[r].word.wts = local[u].v.wts =>
              TicClean(r) /\ \A h \in 1..2 : Copied(u, h) => local[u].copy[h] = Latest(r)
    BY <1>5, <2>1 DEF TicCopy
  <2>3. local[u].v.wts \in Nat /\ row[r].word.wts \in Nat /\ row'[r].word.wts \in Nat
    BY <1>8
  <2>4. row'[r].word.wts >= row[r].word.wts
    BY DEF TicEffect
  <2>5. local[u].v.wts <= row'[r].word.wts
    BY <2>2, <2>3, <2>4
  <2>6. ASSUME row'[r].word.wts = local[u].v.wts
        PROVE  TicClean(r)' /\ \A h \in 1..2 : Copied(u, h) => local[u].copy[h] = Latest(r)'
    <3>1. row'[r].word.wts = row[r].word.wts
      BY <2>2, <2>3, <2>4, <2>6
    <3>2. Latest(r)' = Latest(r)
      BY <3>1 DEF TicEffect, Latest
    <3>3. TicClean(r)
      BY <2>2, <2>6, <3>1
    <3>4. ASSUME NEW w \in Thread PROVE ~TicDirty(w, r)'
      <4>1. CASE w = t
        BY <3>1, <3>3, <4>1 DEF TicEffect, TicClean
      <4>2. CASE w # t
        <5>1. TicDirty(w, r)' <=> TicDirty(w, r)
          BY <4>2, TicOwn DEF TicEffect, OnlyThread
        <5> QED BY <3>3, <5>1 DEF TicClean
      <4> QED BY <4>1, <4>2
    <3>5. TicClean(r)'
      BY <3>4 DEF TicClean
    <3> QED BY <2>2, <2>6, <3>1, <3>2, <3>5
  <2> QED BY <1>1, <2>1, <2>2, <2>5, <2>6 DEF TicCopy, Copied
<1>12. TicAccess(u)'
  <2> SUFFICES ASSUME NEW i \in 1..Len(accesses[u])
               PROVE  /\ accesses'[u][i].wts <= accesses'[u][i].rts
                      /\ accesses'[u][i].wts <= row'[accesses'[u][i].row].word.wts
                      /\ HasVersion(accesses[u][i].row, accesses[u][i].data[1])'
                      /\ accesses'[u][i].wts = row'[accesses'[u][i].row].word.wts =>
                            accesses'[u][i].data[1] = Latest(accesses[u][i].row)'
    BY <1>1 DEF TicAccess
  <2>1. PICK r \in Row, x \in Ids, d \in Nat :
           /\ r = accesses[u][i].row /\ x = accesses[u][i].data[1] /\ d = accesses[u][i].wts
    BY TicTyped DEF TicInv
  <2>2. r = accesses'[u][i].row /\ x = accesses'[u][i].data[1] /\ d = accesses'[u][i].wts
    BY <1>1, <2>1
  <2>3. d <= row[r].word.wts /\ HasVersion(r, x) /\ (d = row[r].word.wts => x = Latest(r))
    BY <1>5, <2>1 DEF TicAccess
  <2>4. row'[r].word.wts >= row[r].word.wts /\ row[r].word.wts \in Nat /\ row'[r].word.wts \in Nat
    BY <1>8 DEF TicEffect
  <2>5. HasVersion(r, x)'
    BY <1>4, <2>3, VersionLemma
  <2>6. ASSUME d = row'[r].word.wts PROVE x = Latest(r)'
    <3>1. row'[r].word.wts = row[r].word.wts
      BY <2>3, <2>4, <2>6
    <3>2. Latest(r)' = Latest(r)
      BY <3>1 DEF TicEffect, Latest
    <3> QED BY <2>3, <2>6, <3>1, <3>2
  <2>7. d <= row'[r].word.wts
    BY <2>3, <2>4
  <2>8. accesses'[u][i].wts <= accesses'[u][i].rts
    BY <1>1, <1>5 DEF TicAccess
  <2> QED BY <2>2, <2>5, <2>6, <2>7, <2>8
<1>13. TicCurrent(u)'
  <2>1. TicDone(u) \in Nat
    BY <1>8 DEF TicDone
  <2>2. ASSUME NEW k \in 1..WN(u), WRow(u, k) \in TicHeld(u)
        PROVE  row'[WRow(u, k)].word.wts = row[WRow(u, k)].word.wts
    BY <2>2 DEF TicEffect
  <2>3. ASSUME pc[u] \in {"lock", "reads", "cas"}, NEW k \in 1..local[u].num_locks
        PROVE  accesses[u][WriteSet(u)[k]].wts = row'[WRow(u, k)].word.wts
    <3>1. k \in 1..WN(u)
      BY <1>5, <1>7, <1>8, <2>3 DEF TicLoop, TicLocking
    <3>2. WRow(u, k) \in TicHeld(u)
      BY <2>3 DEF TicHeld, TicLocking, WRows
    <3> QED BY <1>5, <2>2, <2>3, <3>1, <3>2 DEF TicCurrent
  <2>4. ASSUME pc[u] \in TicInstalling, NEW k \in (TicDone(u) + 1)..WN(u)
        PROVE  /\ accesses[u][WriteSet(u)[k]].wts = row'[WRow(u, k)].word.wts
               /\ local[u].commit_wts > row'[WRow(u, k)].word.wts
    <3>1. k \in 1..WN(u) /\ k \in (local[u].i + 1)..WN(u)
      BY <1>7, <1>8, <2>1, <2>4 DEF TicDone, TicInstalling
    <3>2. WRow(u, k) \in TicHeld(u)
      BY <2>4, <3>1 DEF TicHeld, TicLocking, TicInstalling, WRows
    <3> QED BY <1>5, <2>2, <2>4, <3>1, <3>2 DEF TicCurrent
  <2>5. ASSUME pc[u] \in TicInstalling, NEW k \in 1..TicDone(u)
        PROVE  Replaced(WRow(u, k), accesses[u][WriteSet(u)[k]].data[1], Attempt(u))'
    <3>1. k \in 1..WN(u)
      <4>1. TicDone(u) <= WN(u)
        BY <1>5, <1>7, <1>8, <2>5 DEF TicDone, TicLoop, TicInstalling
      <4> QED BY <1>7, <2>1, <4>1
    <3>2. PICK r \in Row, x \in Ids, id \in Ids :
             /\ r = WRow(u, k) /\ x = accesses[u][WriteSet(u)[k]].data[1] /\ id = Attempt(u)
      BY <1>7, <3>1, TicTyped DEF TicInv
    <3>3. r = WRow(u, k)' /\ x = accesses'[u][WriteSet(u)'[k]].data[1] /\ id = Attempt(u)'
      BY <1>1, <1>2, <1>3, <3>2
    <3>4. Replaced(r, x, id)
      BY <1>5, <2>5, <3>2 DEF TicCurrent
    <3>5. Replaced(r, x, id)'
      BY <1>4, <3>4, VersionLemma
    <3> QED BY <3>3, <3>5
  <2>6. ASSUME pc[u] \in {"reads", "cas"}, NEW k \in 1..WN(u)
        PROVE  local[u].commit_wts > row'[WRow(u, k)].word.wts
    <3>1. WRow(u, k) \in TicHeld(u)
      BY <1>5, <2>6 DEF TicHeld, TicLocking, TicLoop, WRows
    <3> QED BY <1>5, <2>2, <2>6, <3>1 DEF TicCurrent
  <2>7. /\ pc'[u] \in {"lock", "reads", "cas"} =>
              \A k \in 1..local'[u].num_locks :
                 accesses'[u][WriteSet(u)'[k]].wts = row'[WRow(u, k)'].word.wts
        /\ pc'[u] \in {"reads", "cas"} =>
              \A k \in 1..WN(u)' : local'[u].commit_wts > row'[WRow(u, k)'].word.wts
    BY <1>1, <1>2, <2>3, <2>6
  <2>8. pc'[u] \in TicInstalling =>
          \A k \in (TicDone(u)' + 1)..WN(u)' :
             /\ accesses'[u][WriteSet(u)'[k]].wts = row'[WRow(u, k)'].word.wts
             /\ local'[u].commit_wts > row'[WRow(u, k)'].word.wts
    BY <1>1, <1>2, <1>3, <2>4
  <2> QED BY <1>1, <1>2, <1>3, <2>5, <2>7, <2>8 DEF TicCurrent
<1>14. TicFresh(u)'
  <2> SUFFICES ASSUME NEW r \in Row, pc[u] # "idle", HasVersion(r, Attempt(u))'
               PROVE  pc[u] \in TicInstalling
    BY <1>1 DEF TicFresh
  <2>1. PICK m \in 1..Len(vers'[r]) : vers'[r][m] = Attempt(u)
    BY <1>3 DEF HasVersion
  <2>2. Attempt(u) # Attempt(t)
    BY DEF Attempt
  <2>3. m \in 1..Len(vers[r])
    BY <2>1, <2>2 DEF TicEffect
  <2>4. vers[r][m] = Attempt(u)
    BY <1>4, <2>1, <2>3 DEF VersionsGrow
  <2>5. HasVersion(r, Attempt(u))
    BY <2>3, <2>4 DEF HasVersion
  <2> QED BY <1>5, <2>5 DEF TicFresh
<1>15. TicSwap(u)'
  BY <1>1, <1>5 DEF TicSwap
<1> QED BY <1>9, <1>10, <1>11, <1>12, <1>13, <1>14, <1>15 DEF TicThread

\* A thread holds rows only.
LEMMA TicHeldRows ==
  ASSUME TicTypes, NEW t \in Thread, Follows(t), TicLoop(t)
  PROVE  TicHeld(t) \subseteq Row
<1>1. RowsOK(t)
  BY TicRowsOK
<1>2. WN(t) \in Nat /\ \A k \in 1..WN(t) : WRow(t, k) \in Row
  BY <1>1, WriteSetProps
<1>3. local[t].num_locks \in Nat /\ local[t].i \in Nat
  BY TicTyped
<1>4. ASSUME pc[t] \in TicLocking PROVE WRows(t, 1, local[t].num_locks) \subseteq Row
  <2>1. local[t].num_locks <= WN(t)
    BY <1>4 DEF TicLoop
  <2>2. \A k \in 1..local[t].num_locks : k \in 1..WN(t)
    BY <1>2, <1>3, <2>1
  <2> QED BY <1>2, <2>2 DEF WRows
<1>5. WRows(t, local[t].i + 1, WN(t)) \subseteq Row
  <2>1. \A k \in (local[t].i + 1)..WN(t) : k \in 1..WN(t)
    BY <1>2, <1>3
  <2> QED BY <1>2, <2>1 DEF WRows
<1> QED BY <1>4, <1>5 DEF TicHeld

LEMMA TicHeldNext ==
  (\A t \in Thread : TicTypes /\ Follows(t) /\ TicLoop(t) => TicHeld(t) \subseteq Row)'
<1>1. \A t \in Thread : TicTypes /\ Follows(t) /\ TicLoop(t) => TicHeld(t) \subseteq Row
  BY TicHeldRows
<1> QED BY <1>1, PTL

\* The lock bits follow the holders: t may give up rows it holds and take rows
\* whose bit is clear.
LEMMA TicLocksStep ==
  ASSUME TicInv, NEW t \in Thread, OnlyThread(t), TicHeld(t)' \subseteq Row,
         \A r \in Row : r \in TicHeld(t)' => r \in TicHeld(t) \/ ~row[r].word.lock,
         \A r \in Row : row'[r].word.lock <=> (row[r].word.lock /\ r \notin TicHeld(t)) \/ r \in TicHeld(t)'
  PROVE  TicLocks'
<1>1. \A u \in Thread : u # t => TicHeld(u)' = TicHeld(u)
  BY TicOwn DEF OnlyThread
<1>2. \A u \in Thread : TicHeld(u) \subseteq Row
  BY TicHeldRows DEF TicInv, TicThread
<1>3. /\ \A r \in Row : row[r].word.lock <=> \E u \in Thread : r \in TicHeld(u)
      /\ \A w, u \in Thread : \A r \in TicHeld(w) : r \in TicHeld(u) => w = u
  BY DEF TicInv, TicLocks
<1>4. ASSUME NEW r \in Row
      PROVE  row'[r].word.lock <=> \E u \in Thread : r \in TicHeld(u)'
  <2>1. row[r].word.lock /\ r \notin TicHeld(t) <=> \E u \in Thread : u # t /\ r \in TicHeld(u)
    BY <1>3
  <2>2. (\E u \in Thread : r \in TicHeld(u)') <=>
           r \in TicHeld(t)' \/ \E u \in Thread : u # t /\ r \in TicHeld(u)
    BY <1>1
  <2> QED BY <2>1, <2>2
<1>5. ASSUME NEW w \in Thread, NEW u \in Thread, NEW r \in TicHeld(w)', r \in TicHeld(u)'
      PROVE  w = u
  <2> SUFFICES ASSUME w # u PROVE FALSE
    OBVIOUS
  <2>1. ASSUME NEW y \in Thread, y # t, r \in TicHeld(y), r \in TicHeld(t)' PROVE FALSE
    <3>1. r \in Row
      BY <1>2, <2>1
    <3>2. row[r].word.lock
      BY <1>3, <2>1, <3>1
    <3>3. r \in TicHeld(t)
      BY <2>1, <3>1, <3>2
    <3> QED BY <1>3, <2>1, <3>3
  <2>2. CASE w = t
    BY <1>1, <1>5, <2>1, <2>2
  <2>3. CASE u = t
    BY <1>1, <1>5, <2>1, <2>3
  <2>4. CASE w # t /\ u # t
    BY <1>1, <1>3, <1>5, <2>4
  <2> QED BY <2>2, <2>3, <2>4
<1> QED BY <1>4, <1>5 DEF TicLocks

\* The numbers, the data and the versions of the rows are kept.
TicQuiet ==
    /\ vers' = vers
    /\ \A r \in Row : row'[r].word.wts = row[r].word.wts /\ row'[r].data = row[r].data

LEMMA TicQuietEffect ==
  ASSUME TicInv, TicTypes', NEW t \in Thread, OnlyThread(t), TicQuiet,
         pc[t] \notin {"install1", "install2"}, pc'[t] \notin {"install1", "install2"}
  PROVE  TicEffect(t) /\ TicRows'
<1>1. \A r : ~TicDirty(t, r) /\ ~TicDirty(t, r)'
  BY DEF TicDirty
<1>2. \A r \in Row : row[r].word.wts \in Nat /\ row'[r].word.wts \in Nat
  BY TicTyped, TicTypedNext DEF TicInv
<1>3. VersionsGrow
  <2>1. \A r \in Row : Len(vers[r]) \in Nat
    BY DEF TicInv, TicTypes, FrameTypes
  <2> QED BY <2>1 DEF VersionsGrow, TicQuiet
<1>4. \A u \in Thread \ {t} : \A r \in TicHeld(u) : row'[r].word.wts = row[r].word.wts
  BY TicHeldRows DEF TicQuiet, TicInv, TicThread
<1>5. TicEffect(t)
  BY <1>1, <1>2, <1>3, <1>4 DEF TicEffect, TicQuiet
<1>6. \A u \in Thread, r \in Row : TicDirty(u, r)' <=> TicDirty(u, r)
  <2> SUFFICES ASSUME NEW u \in Thread PROVE \A r \in Row : TicDirty(u, r)' <=> TicDirty(u, r)
    OBVIOUS
  <2>1. CASE u = t
    BY <1>1, <2>1
  <2>2. CASE u # t
    BY <2>2, TicOwn DEF OnlyThread
  <2> QED BY <2>1, <2>2
<1>7. \A r \in Row : (TicClean(r)' <=> TicClean(r)) /\ Latest(r)' = Latest(r)
  BY <1>6 DEF TicClean, Latest, TicQuiet
<1>8. TicRows'
  <2>1. TicRows
    BY DEF TicInv
  <2>2. \A r \in Row : TicClean(r)' => \A h \in 1..2 : row'[r].data[h] = Latest(r)'
    BY <1>7, <2>1 DEF TicRows, TicQuiet
  <2>3. ASSUME NEW u \in Thread, NEW r \in Row, TicDirty(u, r)'
        PROVE  Latest(r)' = Attempt(u)' /\ (pc'[u] = "install2" => row'[r].data[1] = Attempt(u)')
    <3>1. u # t /\ TicDirty(u, r)
      BY <1>1, <1>6, <2>3
    <3>2. pc'[u] = pc[u] /\ Attempt(u)' = Attempt(u)
      BY <3>1 DEF OnlyThread, Attempt
    <3> QED BY <1>7, <2>1, <3>1, <3>2 DEF TicRows, TicQuiet
  <2> QED BY <2>2, <2>3 DEF TicRows
<1> QED BY <1>5, <1>8

\* The parts of a thread's invariant that a step keeps with its transaction.
LEMMA TicKeepTxn ==
  ASSUME TicInv, NEW t \in Thread, vers' = vers, \A r \in Row : row'[r].word.wts = row[r].word.wts,
         accesses'[t] = accesses[t],
         query'[t] = query[t], tries'[t] = tries[t], pc[t] # "idle", pc'[t] # "idle",
         pc[t] \in TicInstalling => pc'[t] \in TicInstalling
  PROVE  Follows(t)' /\ TicAccess(t)' /\ TicFresh(t)'
<1>1. Follows(t) /\ TicAccess(t) /\ TicFresh(t)
  BY DEF TicInv, TicThread
<1>2. Follows(t)'
  BY <1>1 DEF Follows
<1>3. TicAccess(t)'
  <2> SUFFICES ASSUME NEW i \in 1..Len(accesses[t])
               PROVE  /\ accesses'[t][i].wts <= accesses'[t][i].rts
                      /\ accesses'[t][i].wts <= row'[accesses'[t][i].row].word.wts
                      /\ HasVersion(accesses[t][i].row, accesses[t][i].data[1])'
                      /\ accesses'[t][i].wts = row'[accesses'[t][i].row].word.wts =>
                            accesses'[t][i].data[1] = Latest(accesses[t][i].row)'
    BY DEF TicAccess
  <2>1. accesses[t][i].row \in Row
    BY TicTyped DEF TicInv
  <2> QED BY <1>1, <2>1 DEF TicAccess, HasVersion, Latest
<1>4. TicFresh(t)'
  BY <1>1 DEF TicFresh, HasVersion, Attempt
<1> QED BY <1>2, <1>3, <1>4

\* What is left to show of a step that changes at most lock bits of the rows.
LEMMA TicQuietStep ==
  ASSUME TicInv, TicTypes', NEW t \in Thread, OnlyThread(t), TicQuiet,
         pc[t] \notin {"install1", "install2"}, pc'[t] \notin {"install1", "install2"},
         TicThread(t)', HistoryKept', IdsUsed',
         \A r \in Row : r \in TicHeld(t)' => r \in TicHeld(t) \/ ~row[r].word.lock,
         \A r \in Row : row'[r].word.lock <=> (row[r].word.lock /\ r \notin TicHeld(t)) \/ r \in TicHeld(t)'
  PROVE  TicInv'
<1>1. TicEffect(t) /\ TicRows'
  BY TicQuietEffect
<1>2. \A u \in Thread : TicThread(u)'
  <2> TAKE u \in Thread
  <2>1. CASE u = t
    BY <2>1
  <2>2. CASE u # t
    BY <1>1, <2>2, TicOthers
  <2> QED BY <2>1, <2>2
<1>3. TicHeld(t)' \subseteq Row
  BY TicHeldNext DEF TicThread
<1>4. TicLocks'
  BY <1>3, TicLocksStep
<1> QED BY <1>1, <1>2, <1>4 DEF TicInv

\* A step of t within its transaction.
LEMMA TicTypesStep ==
  ASSUME TicTypes, NEW t \in Thread, NEW l \in TicPcs, NEW w \in TicLocalType,
         pc' = [pc EXCEPT ![t] = l], local' = [local EXCEPT ![t] = w],
         row' \in [Row -> TicRowType],
         accesses' = accesses, tries' = tries, query' = query, hist' = hist, vers' = vers
  PROVE  TicTypes' /\ OnlyThread(t) /\ pc'[t] = l /\ local'[t] = w
<1>1. pc \in [Thread -> TicPcs] /\ local \in [Thread -> TicLocalType]
  BY DEF TicTypes
<1>2. pc' \in [Thread -> TicPcs] /\ local' \in [Thread -> TicLocalType]
  BY <1>1
<1>3. FrameTypes'
  BY DEF TicTypes, FrameTypes
<1>4. TicTypes'
  BY <1>2, <1>3 DEF TicTypes
<1>5. OnlyThread(t) /\ pc'[t] = l /\ local'[t] = w
  BY <1>1 DEF OnlyThread
<1> QED BY <1>4, <1>5

\* Its history is that of the versions and of the attempts.
LEMMA TicSameHistory ==
  ASSUME TicInv, NEW t \in Thread, OnlyThread(t), vers' = vers, hist' = hist, tries' = tries,
         pc[t] # "idle"
  PROVE  HistoryKept' /\ IdsUsed'
<1>1. HistoryKept /\ IdsUsed
  BY DEF TicInv
<1>2. HistoryKept'
  BY <1>1 DEF HistoryKept, HasVersion, Replaced
<1>3. \A u \in Thread : pc'[u] # "idle" => pc[u] # "idle"
  BY DEF OnlyThread
<1>4. IdsUsed'
  BY <1>1, <1>3 DEF IdsUsed, HasVersion, Attempt
<1> QED BY <1>2, <1>4

\* A row that a thread is writing is held by it.
LEMMA TicDirtyHeld ==
  ASSUME TicInv, NEW u \in Thread, NEW r, TicDirty(u, r)
  PROVE  r \in TicHeld(u)
<1>1. TicLoop(u) /\ Follows(u)
  BY DEF TicInv, TicThread
<1>2. WN(u) \in Nat /\ local[u].i \in Nat
  BY <1>1, TicRowsOK, WriteSetProps, TicTyped DEF TicInv
<1>3. pc[u] \in {"install1", "install2"} /\ r = WRow(u, local[u].i + 1)
  BY DEF TicDirty
<1>4. local[u].i + 1 \in (local[u].i + 1)..WN(u)
  BY <1>1, <1>2, <1>3 DEF TicLoop, TicInstalling
<1> QED BY <1>3, <1>4 DEF TicHeld, TicLocking, TicInstalling, WRows

\* A row whose lock bit is clear is not being written.
LEMMA TicUnlockedClean ==
  ASSUME TicInv, NEW r \in Row, ~row[r].word.lock
  PROVE  TicClean(r)
BY TicDirtyHeld DEF TicClean, TicInv, TicLocks

\* A step that neither starts nor ends a write leaves the clean rows clean.
LEMMA TicCleanKept ==
  ASSUME NEW t \in Thread, OnlyThread(t),
         pc[t] \notin {"install1", "install2"}, pc'[t] \notin {"install1", "install2"}
  PROVE  \A r : TicClean(r)' <=> TicClean(r)
<1>1. \A r : ~TicDirty(t, r)' /\ ~TicDirty(t, r)
  BY DEF TicDirty
<1>2. \A u \in Thread : u # t => \A r : TicDirty(u, r)' <=> TicDirty(u, r)
  BY TicOwn DEF OnlyThread
<1> QED BY <1>1, <1>2 DEF TicClean

LEMMA TicReadWord ==
  ASSUME TicInv, NEW t \in Thread, TT!ReadWord(t)
  PROVE  TicInv'
<1>1. /\ pc[t] = "run" /\ HasRequest(t) /\ pc' = [pc EXCEPT ![t] = "copy1"]
      /\ ~row[Request(t).row].word.lock
      /\ local' = [local EXCEPT ![t] = [local[t] EXCEPT !.v = row[Request(t).row].word]]
      /\ row' = row /\ accesses' = accesses /\ tries' = tries /\ query' = query
      /\ hist' = hist /\ vers' = vers
  BY TicNames DEF TT!ReadWord, TT!Goto, TT!Set
<1>2. PICK r \in Row : r = Request(t).row
  BY <1>1, TicRequest DEF TicInv
<1>3. /\ row[r].word \in TicWord /\ row[r].word.wts \in Nat /\ local[t] \in TicLocalType
      /\ row \in [Row -> TicRowType] /\ TicTypes
  BY TicTyped DEF TicInv, TicTypes
<1> DEFINE w == [local[t] EXCEPT !.v = row[r].word]
<1>4. w \in TicLocalType /\ w.v = row[r].word
  BY <1>3 DEF TicLocalType
<1>41. local' = [local EXCEPT ![t] = w]
  BY <1>1, <1>2
<1> HIDE DEF w
<1>5. TicTypes' /\ OnlyThread(t) /\ pc'[t] = "copy1" /\ local'[t] = w
  <2>1. "copy1" \in TicPcs /\ row' \in [Row -> TicRowType]
    BY <1>1, <1>3 DEF TicPcs, TicCopying
  <2>2. /\ accesses' = accesses /\ tries' = tries /\ query' = query /\ hist' = hist /\ vers' = vers
        /\ pc' = [pc EXCEPT ![t] = "copy1"]
    BY <1>1
  <2> QED BY <1>3, <1>4, <1>41, <2>1, <2>2, TicTypesStep
<1>7. TicQuiet
  BY <1>1 DEF TicQuiet
<1>8. Follows(t)' /\ TicAccess(t)' /\ TicFresh(t)'
  BY <1>1, <1>5, <1>7, TicKeepTxn DEF TicQuiet, TicInstalling
<1>9. TicLoop(t)'
  BY <1>1, <1>5 DEF TicLoop, HasRequest, TicCopying, TicLocking, TicInstalling
<1>10. TicCopy(t)'
  <2>1. Request(t)'.row = r
    BY <1>1, <1>2 DEF Request
  <2>2. \A h \in 1..2 : ~Copied(t, h)'
    BY <1>5 DEF Copied
  <2>3. TicClean(r)
    BY <1>1, <1>2, TicUnlockedClean
  <2>4. TicClean(r)'
    BY <1>1, <1>5, <2>3, TicCleanKept
  <2>5. ~local'[t].v.lock /\ local'[t].v.wts <= row'[r].word.wts
    BY <1>1, <1>2, <1>3, <1>4, <1>5
  <2> QED BY <2>1, <2>2, <2>4, <2>5 DEF TicCopy
<1>11. TicCurrent(t)' /\ TicSwap(t)'
  BY <1>5 DEF TicCurrent, TicInstalling, TicSwap
<1>12. TicHeld(t) = {} /\ TicHeld(t)' = {}
  BY <1>1, <1>5 DEF TicHeld, TicLocking, TicInstalling
<1>13. HistoryKept' /\ IdsUsed'
  BY <1>1, <1>5, TicSameHistory
<1> QED BY <1>1, <1>5, <1>7, <1>8, <1>9, <1>10, <1>11, <1>12, <1>13, TicQuietStep DEF TicThread

LEMMA TicCopyHalf ==
  ASSUME TicInv, NEW t \in Thread, NEW h \in 1..2, TT!CopyHalf(t, h)
  PROVE  TicInv'
<1> DEFINE from == <<"copy1", "copy2">>[h]
           to == <<"copy2", "check">>[h]
<1>1. /\ pc[t] = from /\ pc' = [pc EXCEPT ![t] = to]
      /\ local' = [local EXCEPT ![t] = [local[t] EXCEPT !.copy[h] = row[Request(t).row].data[h]]]
      /\ row' = row /\ accesses' = accesses /\ tries' = tries /\ query' = query
      /\ hist' = hist /\ vers' = vers
  BY TicNames DEF TT!CopyHalf, TT!Goto, TT!Set
<1>2. \/ h = 1 /\ from = "copy1" /\ to = "copy2"
      \/ h = 2 /\ from = "copy2" /\ to = "check"
  OBVIOUS
<1> HIDE DEF from, to
<1>3. from \in TicCopying /\ to \in TicCopying /\ HasRequest(t) /\ TicCopy(t)
  BY <1>1, <1>2 DEF TicCopying, TicInv, TicThread, TicLoop
<1>4. PICK r \in Row : r = Request(t).row
  BY <1>3, TicRequest DEF TicInv
<1>5. row[r].data[h] \in Ids /\ row \in [Row -> TicRowType] /\ row[r].word.wts \in Nat
  <2>1. row[r].data \in Copies /\ row[r].word.wts \in Nat
    BY TicTyped DEF TicInv
  <2> QED BY <2>1 DEF TicInv, TicTypes, Copies
<1> DEFINE w == [local[t] EXCEPT !.copy[h] = row[r].data[h]]
<1>6. local[t] \in TicLocalType /\ local[t].copy \in Copies
  BY TicTyped DEF TicInv
<1>7. /\ w \in TicLocalType /\ w.v = local[t].v
      /\ \A g \in 1..2 : w.copy[g] = IF g = h THEN row[r].data[h] ELSE local[t].copy[g]
  BY <1>5, <1>6 DEF TicLocalType, Copies
<1>8. local' = [local EXCEPT ![t] = w]
  BY <1>1, <1>4
<1> HIDE DEF w
<1>9. to \in TicPcs
  BY <1>3 DEF TicPcs
<1>10. TicTypes' /\ OnlyThread(t) /\ pc'[t] = to /\ local'[t] = w
  <2>1. /\ TicTypes /\ pc' = [pc EXCEPT ![t] = to] /\ row' \in [Row -> TicRowType]
        /\ accesses' = accesses /\ tries' = tries /\ query' = query
        /\ hist' = hist /\ vers' = vers
    BY <1>1, <1>5 DEF TicInv
  <2>2. w \in TicLocalType
    BY <1>7
  <2> QED BY <1>8, <1>9, <2>1, <2>2, TicTypesStep
<1>11. TicQuiet
  BY <1>1 DEF TicQuiet
<1>12. Follows(t)' /\ TicAccess(t)' /\ TicFresh(t)'
  BY <1>1, <1>2, <1>10, <1>11, TicKeepTxn DEF TicQuiet, TicInstalling
<1>13. TicLoop(t)'
  BY <1>1, <1>2, <1>3, <1>10 DEF TicLoop, HasRequest, TicCopying, TicLocking, TicInstalling
<1>14. TicCopy(t)'
  <2>1. Request(t)'.row = r
    BY <1>1, <1>4 DEF Request
  <2>2. /\ ~local[t].v.lock /\ local[t].v.wts <= row[r].word.wts
        /\ row[r].word.wts = local[t].v.wts =>
              TicClean(r) /\ \A g \in 1..2 : Copied(t, g) => local[t].copy[g] = Latest(r)
    BY <1>1, <1>3, <1>4 DEF TicCopy
  <2>3. TicClean(r)' <=> TicClean(r)
    <3>1. pc[t] \notin {"install1", "install2"} /\ pc'[t] \notin {"install1", "install2"}
      BY <1>1, <1>2, <1>10
    <3> QED BY <1>10, <3>1, TicCleanKept
  <2>4. TicClean(r) => row[r].data[h] = Latest(r)
    BY DEF TicInv, TicRows
  <2>5. Latest(r)' = Latest(r)
    BY <1>1 DEF Latest
  <2>6. \A g \in 1..2 : Copied(t, g)' => g = h \/ Copied(t, g)
    BY <1>1, <1>2, <1>10 DEF Copied
  <2>7. row'[r].word.wts = local'[t].v.wts =>
           TicClean(r)' /\ \A g \in 1..2 : Copied(t, g)' => local'[t].copy[g] = Latest(r)'
    BY <1>1, <1>7, <1>10, <2>2, <2>3, <2>4, <2>5, <2>6
  <2>8. ~local'[t].v.lock /\ local'[t].v.wts <= row'[r].word.wts
    BY <1>1, <1>7, <1>10, <2>2
  <2> QED BY <2>1, <2>7, <2>8 DEF TicCopy
<1>15. TicCurrent(t)' /\ TicSwap(t)'
  BY <1>2, <1>10 DEF TicCurrent, TicInstalling, TicSwap
<1>16. TicHeld(t) = {} /\ TicHeld(t)' = {}
  BY <1>1, <1>2, <1>10 DEF TicHeld, TicLocking, TicInstalling
<1>17. HistoryKept' /\ IdsUsed'
  BY <1>1, <1>2, <1>10, TicSameHistory
<1>18. pc[t] \notin {"install1", "install2"} /\ pc'[t] \notin {"install1", "install2"}
  BY <1>1, <1>2, <1>10
<1> QED BY <1>1, <1>10, <1>11, <1>12, <1>13, <1>14, <1>15, <1>16, <1>17, <1>18, TicQuietStep DEF TicThread

LEMMA TicCheckWord ==
  ASSUME TicInv, NEW t \in Thread, TT!CheckWord(t)
  PROVE  TicInv'
<1>0. /\ TicTypes /\ Follows(t) /\ TicLoop(t) /\ TicCopy(t) /\ TicAccess(t) /\ TicFresh(t)
  BY DEF TicInv, TicThread
<1>1. pc[t] = "check"
  BY DEF TT!CheckWord
<1>2. HasRequest(t)
  BY <1>0, <1>1 DEF TicLoop, TicCopying
<1>3. PICK r \in Row, ty \in {"RD", "WR"} : r = Request(t).row /\ ty = Request(t).type
  BY <1>0, <1>2, TicRequest
<1> DEFINE a == [row |-> r, type |-> ty, data |-> local[t].copy, 
                 wts |-> local[t].v.wts, rts |-> local[t].v.wts + local[t].v.delta]
<1>4. /\ pc' = [pc EXCEPT ![t] = "run"]
      /\ \/ /\ row[r].word.wts = local[t].v.wts
            /\ accesses' = [accesses EXCEPT ![t] = Append(accesses[t], a)]
         \/ accesses' = accesses
      /\ row' = row /\ local' = local /\ tries' = tries /\ query' = query
      /\ hist' = hist /\ vers' = vers
  BY <1>3, TicNames DEF TT!CheckWord, TT!Goto, TT!Granted, TT!SameVersion, TT!Rts
<1>5. /\ local[t].v.wts \in Nat /\ local[t].v.delta \in Nat
      /\ local[t].copy \in Copies /\ local[t] \in TicLocalType
  BY <1>0, TicTyped DEF TicWord
<1>6. /\ a \in TicAccessType /\ a.row = r /\ a.type = ty /\ a.wts = local[t].v.wts /\ a.wts <= a.rts
      /\ a.data[1] = local[t].copy[1]
  BY <1>5 DEF TicAccessType
<1> HIDE DEF a
<1>7. /\ accesses[t] \in Seq(TicAccessType) /\ Len(accesses[t]) \in Nat
      /\ accesses \in [Thread -> Seq(TicAccessType)]
      /\ \A i \in 1..Len(accesses[t]) : accesses[t][i] \in TicAccessType
  BY <1>0, TicTyped DEF TicTypes, TicAccessType
<1>8. accesses' \in [Thread -> Seq(TicAccessType)]
  <2>1. Append(accesses[t], a) \in Seq(TicAccessType)
    BY <1>6, <1>7
  <2>2. [accesses EXCEPT ![t] = Append(accesses[t], a)] \in [Thread -> Seq(TicAccessType)]
    BY <1>7, <2>1
  <2> QED BY <1>4, <1>7, <2>2
<1>9. pc' \in [Thread -> TicPcs] /\ pc'[t] = "run"
  BY <1>0, <1>4 DEF TicTypes, TicPcs
<1>10. TicTypes'
  <2>1. FrameTypes'
    BY <1>0, <1>4 DEF TicTypes, FrameTypes
  <2> QED BY <1>0, <1>4, <1>8, <1>9, <2>1 DEF TicTypes, TicPcs, TicAccessType
<1>11. OnlyThread(t)
  BY <1>0, <1>4, <1>7 DEF OnlyThread, TicTypes
<1>12. TicQuiet
  BY <1>4 DEF TicQuiet
<1>13. TicLoop(t)' /\ TicCopy(t)' /\ TicCurrent(t)' /\ TicSwap(t)'
  BY <1>9 DEF TicLoop, TicSwap, TicCopy, TicCurrent, TicCopying, TicLocking, TicInstalling
<1>14. Follows(t)' /\ TicAccess(t)' /\ TicFresh(t)'
  <2>1. CASE accesses' = accesses
    BY <1>1, <1>4, <1>9, <1>12, <2>1, TicKeepTxn DEF TicQuiet, TicInstalling
  <2>2. CASE /\ row[r].word.wts = local[t].v.wts
             /\ accesses' = [accesses EXCEPT ![t] = Append(accesses[t], a)]
    <3> DEFINE n == Len(accesses[t])
    <3>1. /\ accesses'[t] = Append(accesses[t], a) /\ Len(accesses'[t]) = n + 1
          /\ \A i \in 1..n : accesses'[t][i] = accesses[t][i]
          /\ accesses'[t][n + 1] = a
      BY <1>6, <1>7, <2>2
    <3>2. \A i \in 1..(n + 1) : i \in 1..n \/ i = n + 1
      BY <1>7
    <3>3. n + 1 \in 1..Len(query[t]) /\ query[t][n + 1] = Request(t) /\ Len(query[t]) \in Nat
      BY <1>0, <1>2, TicRequest, TicTyped DEF Request
    <3> HIDE DEF n
    <3>4. Follows(t)'
      <4>1. \A i \in 1..(n + 1) :
               accesses'[t][i].row = query[t][i].row /\ accesses'[t][i].type = query[t][i].type
        <5>1. \A i \in 1..n : accesses[t][i].row = query[t][i].row /\ accesses[t][i].type = query[t][i].type
          BY <1>0 DEF Follows, n
        <5> QED BY <1>3, <1>6, <3>1, <3>2, <3>3, <5>1
      <4>2. RowsDiffer(query[t]) /\ query[t] # <<>> /\ tries[t] > 0
        BY <1>0, <1>1 DEF Follows
      <4> QED BY <1>4, <1>9, <3>1, <3>3, <4>1, <4>2 DEF Follows
    <3>6. local[t].copy[1] = Latest(r)
      BY <1>0, <1>1, <1>3, <2>2 DEF TicCopy, TicCopying, Copied
    <3>7. HasVersion(r, Latest(r))
      <4>1. vers[r] # <<>> /\ vers[r] \in Seq(Ids)
        BY <1>0 DEF TicInv, HistoryKept, TicTypes, FrameTypes
      <4>2. Len(vers[r]) \in 1..Len(vers[r])
        BY <4>1
      <4> QED BY <4>2 DEF HasVersion, Latest
    <3>8. \A y, x : /\ HasVersion(y, x)' <=> HasVersion(y, x)
                    /\ Latest(y)' = Latest(y)
      BY <1>4 DEF HasVersion, Latest
    <3>9. TicAccess(t)'
      <4> SUFFICES ASSUME NEW i \in 1..(n + 1)
                   PROVE  LET b == accesses'[t][i] IN
                          /\ b.wts <= b.rts
                          /\ b.wts <= row[b.row].word.wts
                          /\ HasVersion(b.row, b.data[1])
                          /\ b.wts = row[b.row].word.wts => b.data[1] = Latest(b.row)
        BY <1>4, <3>1, <3>8 DEF TicAccess, HasVersion, Latest
      <4>1. CASE i \in 1..n
        <5>1. accesses'[t][i] = accesses[t][i] /\ i \in 1..Len(accesses[t])
          BY <3>1, <4>1 DEF n
        <5> QED BY <1>0, <5>1 DEF TicAccess
      <4>2. CASE i = n + 1
        <5>1. accesses'[t][i] = a
          BY <3>1, <4>2
        <5>2. a.wts <= row[a.row].word.wts
          BY <1>5, <1>6, <2>2
        <5> QED BY <1>6, <3>6, <3>7, <5>1, <5>2
      <4> QED BY <3>2, <4>1, <4>2
    <3>10. TicFresh(t)'
      BY <1>0, <1>1, <1>4, <1>9 DEF TicFresh, HasVersion, Attempt, TicInstalling
    <3> QED BY <3>4, <3>9, <3>10
  <2> QED BY <1>4, <2>1, <2>2
<1>15. TicHeld(t) = {} /\ TicHeld(t)' = {}
  BY <1>1, <1>9 DEF TicHeld, TicLocking, TicInstalling
<1>16. HistoryKept' /\ IdsUsed'
  BY <1>1, <1>4, <1>11, TicSameHistory
<1> QED BY <1>1, <1>4, <1>9, <1>10, <1>11, <1>12, <1>13, <1>14, <1>15, <1>16, TicQuietStep DEF TicThread

LEMMA TicBegin ==
  ASSUME TicInv, NEW t \in Thread, TT!Begin(t)
  PROVE  TicInv'
<1>0. /\ TicTypes /\ Follows(t) /\ HistoryKept /\ IdsUsed /\ tries[t] \in Nat
  BY TicTyped DEF TicInv, TicThread
<1>1. /\ pc[t] = "idle" /\ tries[t] < Len(Script[t])
      /\ tries' = [tries EXCEPT ![t] = tries[t] + 1] /\ pc' = [pc EXCEPT ![t] = "run"]
      /\ row' = row /\ accesses' = accesses /\ local' = local /\ hist' = hist /\ vers' = vers
  BY DEF TT!Begin, TT!Take, TT!Goto
<1>2. PICK q \in Script[t][tries[t] + 1] : query' = [query EXCEPT ![t] = q]
  BY DEF TT!Begin, TT!Take
<1>3. q \in Seq(Requests) /\ q # <<>> /\ RowsDiffer(q)
  <2>1. Script[t] \in Seq(SUBSET Seq(Requests))
    BY FrameAssumption DEF Requests
  <2>2. tries[t] + 1 \in 1..Len(Script[t])
    BY <1>0, <1>1, <2>1
  <2>3. Script[t][tries[t] + 1] \in SUBSET Seq(Requests)
    BY <2>1, <2>2
  <2>4. q # <<>> /\ \A i, j \in 1..Len(q) : q[i].row = q[j].row => i = j
    BY <2>2, FrameAssumption
  <2> QED BY <2>3, <2>4 DEF RowsDiffer
<1>4. /\ pc'[t] = "run" /\ query'[t] = q /\ tries'[t] = tries[t] + 1
      /\ accesses'[t] = <<>>
  BY <1>0, <1>1, <1>2 DEF TicTypes, FrameTypes, Follows
<1>5. TicTypes'
  <2>1. query' \in [Thread -> Seq(Requests)] /\ tries' \in [Thread -> Nat]
    BY <1>0, <1>1, <1>2, <1>3 DEF TicTypes, FrameTypes
  <2>2. FrameTypes'
    BY <1>0, <1>1, <2>1 DEF TicTypes, FrameTypes
  <2>3. pc' \in [Thread -> TicPcs]
    BY <1>0, <1>1 DEF TicTypes, TicPcs
  <2> QED BY <1>0, <1>1, <2>2, <2>3 DEF TicTypes, TicPcs
<1>6. OnlyThread(t)
  BY <1>0, <1>1, <1>2 DEF OnlyThread, TicTypes, FrameTypes
<1>7. TicQuiet
  BY <1>1 DEF TicQuiet
<1>8. Follows(t)'
  <2>1. Len(q) \in Nat /\ Len(accesses'[t]) = 0
    BY <1>3, <1>4
  <2>2. Len(accesses'[t]) <= Len(q) /\ \A i \in 1..Len(accesses'[t]) : FALSE
    BY <2>1
  <2> QED BY <1>0, <1>3, <1>4, <2>2 DEF Follows
<1>9. TicLoop(t)' /\ TicCopy(t)' /\ TicCurrent(t)' /\ TicSwap(t)'
  BY <1>4 DEF TicLoop, TicSwap, TicCopy, TicCurrent, TicCopying, TicLocking, TicInstalling
<1>10. TicAccess(t)'
  <2>1. Len(accesses'[t]) = 0
    BY <1>4
  <2> QED BY <2>1 DEF TicAccess
<1>11. \A r \in Row : ~HasVersion(r, Attempt(t))'
  <2>1. Attempt(t)' = <<t, tries[t] + 1>>
    BY <1>4 DEF Attempt
  <2>2. \A r \in Row : ~HasVersion(r, <<t, tries[t] + 1>>)
    BY <1>0 DEF IdsUsed
  <2> QED BY <1>1, <2>1, <2>2 DEF HasVersion
<1>12. HistoryKept'
  BY <1>0, <1>1 DEF HistoryKept, HasVersion, Replaced
<1>13. IdsUsed'
  <2>1. \A u \in Thread : tries[u] \in Nat /\ tries'[u] \in Nat /\ tries[u] <= tries'[u]
    BY <1>0, <1>1 DEF TicTypes, FrameTypes
  <2>2. \A u \in Thread, n \in Nat : n <= tries[u] => n <= tries'[u]
    BY <2>1
  <2>3. \A u \in Thread, n \in Nat, r \in Row : HasVersion(r, <<u, n>>)' => n <= tries'[u]
    BY <1>0, <1>1, <2>2 DEF IdsUsed, HasVersion
  <2>4. \A h \in hist : \A u \in Thread, n \in Nat : h.id = <<u, n>> => n <= tries'[u]
    BY <1>0, <2>2 DEF IdsUsed
  <2>5. ASSUME NEW h \in hist, NEW u \in Thread, pc'[u] # "idle" PROVE h.id # Attempt(u)'
    <3>1. CASE u = t
      <4>1. Attempt(u)' = <<t, tries[t] + 1>> /\ tries[t] + 1 \in Nat /\ ~(tries[t] + 1 <= tries[t])
        BY <1>0, <1>4, <3>1 DEF Attempt
      <4> QED BY <1>0, <4>1 DEF IdsUsed
    <3>2. CASE u # t
      <4>1. pc[u] # "idle" /\ Attempt(u)' = Attempt(u)
        BY <1>6, <2>5, <3>2 DEF OnlyThread, Attempt
      <4> QED BY <1>0, <4>1 DEF IdsUsed
    <3> QED BY <3>1, <3>2
  <2> QED BY <1>0, <1>1, <2>3, <2>4, <2>5 DEF IdsUsed
<1>14. TicFresh(t)'
  BY <1>11 DEF TicFresh
<1>15. TicHeld(t) = {} /\ TicHeld(t)' = {}
  BY <1>1, <1>4 DEF TicHeld, TicLocking, TicInstalling
<1> QED BY <1>1, <1>4, <1>5, <1>6, <1>7, <1>8, <1>9, <1>10, <1>12, <1>13, <1>14, <1>15, TicQuietStep DEF TicThread

\* A step of the validation that changes neither rows nor what t holds.
LEMMA TicMove ==
  ASSUME TicInv, NEW t \in Thread, NEW l \in TicLocking, NEW w \in TicLocalType,
         pc' = [pc EXCEPT ![t] = l], local' = [local EXCEPT ![t] = w],
         row' = row, accesses' = accesses, tries' = tries, query' = query, hist' = hist, vers' = vers,
         \/ pc[t] = "run" /\ w.num_locks = 0
         \/ pc[t] \in TicLocking /\ w.num_locks = local[t].num_locks,
         l = "pre" => w.num_locks = 0,
         l \in {"reads", "cas"} => w.num_locks = WN(t) /\ w.i <= RN(t),
         l = "cas" => w.i < RN(t) /\ ~w.v.lock /\ ~w.v2.lock /\ w.v.wts <= w.v2.wts,
         l \in {"lock", "reads", "cas"} =>
            \A k \in 1..w.num_locks : accesses[t][WriteSet(t)[k]].wts = row[WRow(t, k)].word.wts,
         l \in {"reads", "cas"} => \A k \in 1..WN(t) : w.commit_wts > row[WRow(t, k)].word.wts
  PROVE  TicInv'
<1>0. TicTypes /\ TicLoop(t) /\ Follows(t) /\ row \in [Row -> TicRowType]
  BY DEF TicInv, TicThread, TicTypes
<1>1. WN(t) \in Nat /\ RN(t) \in Nat
  BY <1>0, TicRowsOK, WriteSetProps, ReadSetProps
<1>2. TicTypes' /\ OnlyThread(t) /\ pc'[t] = l /\ local'[t] = w
  <2>1. l \in TicPcs /\ row' \in [Row -> TicRowType]
    BY <1>0 DEF TicPcs
  <2> QED BY <1>0, <2>1, TicTypesStep
<1>3. TicQuiet
  BY DEF TicQuiet
<1>4. /\ pc[t] \notin {"idle", "install1", "install2"} /\ pc[t] \notin TicInstalling
      /\ pc'[t] \notin {"idle", "install1", "install2"}
      /\ l \notin TicCopying /\ l \notin TicInstalling
  BY <1>2 DEF TicLocking, TicInstalling, TicCopying
<1>5. Follows(t)' /\ TicAccess(t)' /\ TicFresh(t)'
  BY <1>3, <1>4, TicKeepTxn
<1>6. /\ WN(t)' = WN(t) /\ RN(t)' = RN(t) /\ WriteSet(t)' = WriteSet(t)
      /\ \A k : WRow(t, k)' = WRow(t, k)
      /\ \A a, b : WRows(t, a, b)' = WRows(t, a, b)
  BY SetsKept
<1>7. w.num_locks <= WN(t)
  BY <1>0, <1>1 DEF TicLoop
<1>8. TicLoop(t)'
  BY <1>2, <1>4, <1>6, <1>7 DEF TicLoop
<1>9. TicCopy(t)' /\ TicSwap(t)'
  BY <1>2, <1>4 DEF TicCopy, TicSwap
<1>10. TicCurrent(t)'
  BY <1>2, <1>4, <1>6 DEF TicCurrent
<1>11. TicHeld(t)' = TicHeld(t)
  <2>1. TicHeld(t)' = WRows(t, 1, w.num_locks)
    BY <1>2, <1>6 DEF TicHeld
  <2>2. CASE pc[t] = "run" /\ w.num_locks = 0
    <3>1. TicHeld(t) = {}
      BY <2>2 DEF TicHeld, TicLocking, TicInstalling
    <3> QED BY <2>1, <2>2, <3>1, WRowsTo
  <2>3. CASE pc[t] \in TicLocking /\ w.num_locks = local[t].num_locks
    BY <2>1, <2>3 DEF TicHeld
  <2> QED BY <2>2, <2>3
<1>12. HistoryKept' /\ IdsUsed'
  BY <1>2, <1>4, TicSameHistory
<1>13. \A r \in Row : row'[r].word.lock <=> (row[r].word.lock /\ r \notin TicHeld(t)) \/ r \in TicHeld(t)'
  <2>1. \A r \in Row : r \in TicHeld(t) => row[r].word.lock
    BY DEF TicInv, TicLocks
  <2> QED BY <1>11, <2>1
<1> QED BY <1>2, <1>3, <1>4, <1>5, <1>8, <1>9, <1>10, <1>11, <1>12, <1>13, TicQuietStep DEF TicThread

\* MaxOf finds the largest member of a finite set of numbers.
LEMMA TicMaxOf ==
  ASSUME NEW T \in SUBSET Nat, T # {}, IsFiniteSet(T)
  PROVE  TT!MaxOf(T) \in Nat /\ \A y \in T : y <= TT!MaxOf(T)
<1>1. PICK x \in T : \A y \in T : y <= x
  BY FiniteHasMax
<1>2. TT!MaxOf(T) \in T /\ \A y \in T : y <= TT!MaxOf(T)
  BY <1>1 DEF TT!MaxOf
<1> QED BY <1>2

\* The positions of a type are finitely many.
LEMMA TicOfFinite ==
  ASSUME TicTypes, NEW t \in Thread, NEW type, NEW f \in [Of(t, type) -> Nat]
  PROVE  IsFiniteSet({f[i] : i \in Of(t, type)})
<1>1. Len(accesses[t]) \in Nat
  BY TicTyped
<1>2. IsFiniteSet(1..Len(accesses[t]))
  BY <1>1, FS_Interval
<1>3. Of(t, type) \in SUBSET (1..Len(accesses[t]))
  BY DEF Of
<1>4. IsFiniteSet(Of(t, type))
  BY <1>2, <1>3, FS_Subset
<1>5. f \in Surjection(Of(t, type), {f[i] : i \in Of(t, type)})
  BY DEF Surjection
<1> QED BY <1>4, <1>5, FS_Surjection

\* The first choice of a commit time is a number.
LEMMA TicFirst ==
  ASSUME TicTypes, NEW t \in Thread
  PROVE  TT!FirstCommitTs(t) \in Nat
<1> DEFINE R == Of(t, "RD")
           W == Of(t, "WR")
           f == [i \in R |-> accesses[t][i].wts]
           g == [i \in W |-> accesses[t][i].rts + 1]
           A == {f[i] : i \in R}
           B == {g[i] : i \in W}
<1>1. f \in [R -> Nat] /\ g \in [W -> Nat]
  <2>1. \A i \in R : accesses[t][i].wts \in Nat
    BY TicTyped DEF Of
  <2>2. \A i \in W : accesses[t][i].rts \in Nat
    BY TicTyped DEF Of
  <2> HIDE DEF R, W
  <2> QED BY <2>1, <2>2
<1>2. IsFiniteSet(A) /\ IsFiniteSet(B)
  <2> HIDE DEF f, g
  <2> QED BY <1>1, TicOfFinite
<1>3. A \in SUBSET Nat /\ B \in SUBSET Nat
  <2> HIDE DEF R, W, f, g
  <2> QED BY <1>1
<1>4. A = {accesses[t][i].wts : i \in R} /\ B = {accesses[t][i].rts + 1 : i \in W}
  <2> HIDE DEF R, W
  <2> QED OBVIOUS
<1> HIDE DEF A, B
<1>5. IsFiniteSet({0} \cup A)
  BY <1>2, FS_Singleton, FS_Union
<1>6. IsFiniteSet({0} \cup A \cup B)
  BY <1>2, <1>5, FS_Union
<1>7. TT!FirstCommitTs(t) = TT!MaxOf({0} \cup A \cup B)
  BY <1>4, TicNames DEF TT!FirstCommitTs
<1> QED BY <1>3, <1>6, <1>7, TicMaxOf

LEMMA TicValidate ==
  ASSUME TicInv, NEW t \in Thread, TT!Validate(t)
  PROVE  TicInv'
<1>0. TicTypes /\ local[t] \in TicLocalType /\ TT!FirstCommitTs(t) \in Nat
  BY TicTyped, TicFirst DEF TicInv
<1> DEFINE w == [local[t] EXCEPT !.num_locks = 0, !.i = 0, !.commit_wts = TT!FirstCommitTs(t)]
<1>1. /\ pc[t] = "run" /\ pc' = [pc EXCEPT ![t] = "pre"] /\ local' = [local EXCEPT ![t] = w]
      /\ row' = row /\ accesses' = accesses /\ tries' = tries /\ query' = query
      /\ hist' = hist /\ vers' = vers
  BY DEF TT!Validate, TT!Goto, TT!Set
<1>2. w \in TicLocalType /\ w.num_locks = 0
  BY <1>0 DEF TicLocalType
<1> HIDE DEF w
<1>3. "pre" \in TicLocking
  BY DEF TicLocking
<1> QED BY <1>1, <1>2, <1>3, TicMove

LEMMA TicPreCheck ==
  ASSUME TicInv, NEW t \in Thread, TT!PreCheck(t)
  PROVE  TicInv'
<1>0. TicTypes /\ TicLoop(t) /\ local[t] \in TicLocalType
  BY TicTyped DEF TicInv, TicThread
<1> DEFINE w == [local[t] EXCEPT !.i = local[t].i + 1]
<1>1. /\ pc[t] = "pre" /\ local' = [local EXCEPT ![t] = w]
      /\ \E l \in {"abort", "lock", "pre"} : pc' = [pc EXCEPT ![t] = l]
      /\ row' = row /\ accesses' = accesses /\ tries' = tries /\ query' = query
      /\ hist' = hist /\ vers' = vers
  BY DEF TT!PreCheck, TT!Goto, TT!Set
<1>2. PICK l \in {"abort", "lock", "pre"} : pc' = [pc EXCEPT ![t] = l]
  BY <1>1
<1>3. w \in TicLocalType /\ w.num_locks = 0 /\ local[t].num_locks = 0
  BY <1>0, <1>1 DEF TicLocalType, TicLoop
<1> HIDE DEF w
<1>4. l \in TicLocking /\ l \notin {"reads", "cas"} /\ pc[t] \in TicLocking
  BY <1>1, <1>2 DEF TicLocking
<1>5. \A k \in 1..w.num_locks : FALSE
  BY <1>3
<1> QED BY <1>1, <1>2, <1>3, <1>4, <1>5, TicMove

LEMMA TicLockBusy ==
  ASSUME TicInv, NEW t \in Thread, TT!LockBusy(t)
  PROVE  TicInv'
<1>0. TicTypes /\ local[t] \in TicLocalType /\ local \in [Thread -> TicLocalType]
  BY TicTyped DEF TicInv, TicTypes
<1>1. /\ pc[t] = "lock" /\ pc' = [pc EXCEPT ![t] = "backoff"]
      /\ row' = row /\ accesses' = accesses /\ local' = local /\ tries' = tries /\ query' = query
      /\ hist' = hist /\ vers' = vers
  BY DEF TT!LockBusy, TT!Goto
<1>2. local' = [local EXCEPT ![t] = local[t]]
  BY <1>0, <1>1
<1>3. "backoff" \in TicLocking /\ "lock" \in TicLocking
  BY DEF TicLocking
<1> QED BY <1>0, <1>1, <1>2, <1>3, TicMove

LEMMA TicAllLocked ==
  ASSUME TicInv, NEW t \in Thread, TT!AllLocked(t)
  PROVE  TicInv'
<1>0. /\ TicTypes /\ TicLoop(t) /\ Follows(t) /\ TicCurrent(t) /\ local[t] \in TicLocalType
      /\ local[t].commit_wts \in Nat
  BY TicTyped DEF TicInv, TicThread
<1>1. RowsOK(t)
  BY <1>0, TicRowsOK
<1> DEFINE W == Of(t, "WR")
           f == [i \in W |-> row[accesses[t][i].row].word.wts + row[accesses[t][i].row].word.delta + 1]
           B == {f[i] : i \in W}
           c == TT!MaxOf({local[t].commit_wts} \cup B)
           w == [local[t] EXCEPT !.i = 0, !.commit_wts = c]
<1>2. f \in [W -> Nat]
  <2>1. ASSUME NEW i \in W
        PROVE  row[accesses[t][i].row].word.wts + row[accesses[t][i].row].word.delta + 1 \in Nat
    <3>1. PICK r \in Row : r = accesses[t][i].row
      BY <1>0, TicTyped DEF Of
    <3>2. row[r].word.wts \in Nat /\ row[r].word.delta \in Nat
      BY <1>0, TicTyped
    <3> HIDE DEF W
    <3> QED BY <3>1, <3>2
  <2> HIDE DEF W
  <2> QED BY <2>1
<1>3. IsFiniteSet(B)
  <2> HIDE DEF f
  <2> QED BY <1>0, <1>2, TicOfFinite
<1>4. B \in SUBSET Nat
  <2> HIDE DEF f, W
  <2> QED BY <1>2
<1>5. B = {TT!Rts(TT!TheWord(t, i)) + 1 : i \in W}
  <2> HIDE DEF W
  <2> QED BY TicNames DEF TT!Rts
<1>6. /\ pc[t] = "lock" /\ local[t].num_locks = Len(WriteSet(t))
      /\ local' = [local EXCEPT ![t] = w]
      /\ pc' = [pc EXCEPT ![t] = "reads"]
      /\ row' = row /\ accesses' = accesses /\ tries' = tries /\ query' = query
      /\ hist' = hist /\ vers' = vers
  <2> HIDE DEF B
  <2> QED BY <1>5, TicNames DEF TT!AllLocked, TT!Goto, TT!Set
<1>7. c \in Nat /\ \A y \in B : y <= c
  <2> HIDE DEF B
  <2>1. IsFiniteSet({local[t].commit_wts} \cup B)
    BY <1>3, FS_Singleton, FS_Union
  <2> QED BY <1>0, <1>4, <2>1, TicMaxOf
<1>8. w \in TicLocalType /\ w.num_locks = local[t].num_locks /\ w.i = 0 /\ w.commit_wts = c
  <2> HIDE DEF c
  <2> QED BY <1>0, <1>7 DEF TicLocalType
<1>9. local[t].num_locks = WN(t) /\ WN(t) \in Nat /\ RN(t) \in Nat
  BY <1>1, <1>6, WriteSetProps, ReadSetProps
<1>10. ASSUME NEW k \in 1..WN(t) PROVE c > row[WRow(t, k)].word.wts
  <2>1. WriteSet(t)[k] \in W /\ WRow(t, k) \in Row
    BY <1>1, WriteSetProps
  <2>2. PICK i \in W : i = WriteSet(t)[k]
    BY <2>1
  <2>3. f[i] \in B
    <3> HIDE DEF f, W
    <3> QED OBVIOUS
  <2>4. PICK r \in Row : r = WRow(t, k)
    BY <2>1
  <2>5. f[i] = row[r].word.wts + row[r].word.delta + 1
    <3> HIDE DEF W
    <3> QED BY <2>2, <2>4 DEF WRow
  <2>6. row[r].word.wts \in Nat /\ row[r].word.delta \in Nat
    BY <1>0, TicTyped
  <2>7. f[i] <= c
    <3> HIDE DEF f, W, c, B
    <3> QED BY <1>7, <2>3
  <2> HIDE DEF f, W, c
  <2> QED BY <1>7, <2>4, <2>5, <2>6, <2>7
<1> HIDE DEF w, c
<1>11. "lock" \in TicLocking /\ "reads" \in TicLocking
  BY DEF TicLocking
<1>12. \A k \in 1..w.num_locks : accesses[t][WriteSet(t)[k]].wts = row[WRow(t, k)].word.wts
  BY <1>0, <1>6, <1>8 DEF TicCurrent
<1>13. w.num_locks = WN(t) /\ w.i <= RN(t)
  BY <1>8, <1>9
<1> HIDE DEF W, f, B
<1> QED BY <1>6, <1>8, <1>10, <1>11, <1>12, <1>13, TicMove

LEMMA TicTryLock ==
  ASSUME TicInv, NEW t \in Thread, TT!TryLock(t)
  PROVE  TicInv'
<1>0. /\ TicTypes /\ Follows(t) /\ TicLoop(t) /\ TicCurrent(t)
      /\ row \in [Row -> TicRowType] /\ local[t] \in TicLocalType
      /\ accesses[t] \in Seq(TicAccessType)
  BY TicTyped DEF TicInv, TicThread, TicTypes
<1>1. RowsOK(t)
  BY <1>0, TicRowsOK
<1>2. PICK n \in Nat : n = local[t].num_locks
  BY <1>0 DEF TicLocalType
<1>3. pc[t] = "lock" /\ n < WN(t) /\ WN(t) \in Nat
  BY <1>1, <1>2, WriteSetProps, TicNames DEF TT!TryLock
<1>4. n + 1 \in 1..WN(t) /\ n + 1 \in Nat
  BY <1>2, <1>3
<1>5. PICK i \in 1..Len(accesses[t]), r \in Row : i = WriteSet(t)[n + 1] /\ r = WRow(t, n + 1) /\ r = accesses[t][i].row
  BY <1>1, <1>4, WriteSetProps DEF WRow
<1>6. /\ ~row[r].word.lock
      /\ row' = [row EXCEPT ![r].word.lock = TRUE]
      /\ local' = [local EXCEPT ![t] = [local[t] EXCEPT !.num_locks = local[t].num_locks + 1]]
      /\ pc' = [pc EXCEPT ![t] = IF TT!WtsUnchanged(t, i) THEN "lock" ELSE "abort"]
      /\ accesses' = accesses /\ tries' = tries /\ query' = query
      /\ hist' = hist /\ vers' = vers
  BY <1>2, <1>5, TicNames DEF TT!TryLock, TT!Goto, TT!Set
<1>7. PICK l \in {"lock", "abort"} :
         /\ pc' = [pc EXCEPT ![t] = l]
         /\ l = "lock" => accesses[t][i].wts = row[r].word.wts
  <2>1. TT!WtsUnchanged(t, i) <=> row[r].word.wts = accesses[t][i].wts
    BY <1>5, TicNames DEF TT!WtsUnchanged
  <2>2. CASE TT!WtsUnchanged(t, i)
    BY <1>6, <2>1, <2>2
  <2>3. CASE ~TT!WtsUnchanged(t, i)
    BY <1>6, <2>1, <2>3
  <2> QED BY <2>2, <2>3
<1> DEFINE w == [local[t] EXCEPT !.num_locks = local[t].num_locks + 1]
<1>8. w \in TicLocalType /\ w.num_locks = n + 1
  BY <1>0, <1>2, <1>4 DEF TicLocalType
<1>9. local' = [local EXCEPT ![t] = w]
  BY <1>6
<1> HIDE DEF w
<1>10. /\ row' \in [Row -> TicRowType]
       /\ \A y \in Row : row'[y].word.wts = row[y].word.wts /\ row'[y].data = row[y].data
       /\ \A y \in Row : row'[y].word.lock <=> row[y].word.lock \/ y = r
  <2>1. \A y \in Row : row[y] \in TicRowType /\ row[y].word \in TicWord
    BY <1>0, TicTyped
  <2>2. /\ row'[r] = [row[r] EXCEPT !.word = [row[r].word EXCEPT !.lock = TRUE]]
        /\ \A y \in Row : y # r => row'[y] = row[y]
        /\ row' = [y \in Row |-> row'[y]]
    BY <1>0, <1>6
  <2>3. [row[r].word EXCEPT !.lock = TRUE] \in TicWord
    BY <2>1 DEF TicWord
  <2>4. row'[r] \in TicRowType /\ row'[r].data = row[r].data /\ row'[r].word = [row[r].word EXCEPT !.lock = TRUE]
    BY <2>1, <2>2, <2>3 DEF TicRowType
  <2>5. row'[r].word.wts = row[r].word.wts /\ row'[r].word.lock
    BY <2>1, <2>4 DEF TicWord
  <2>6. row' \in [Row -> TicRowType]
    BY <2>1, <2>2, <2>4
  <2> QED BY <2>2, <2>4, <2>5, <2>6
<1>11. TicTypes' /\ OnlyThread(t) /\ pc'[t] = l /\ local'[t] = w
  <2>1. l \in TicPcs
    BY <1>7 DEF TicPcs, TicLocking
  <2>2. /\ accesses' = accesses /\ tries' = tries /\ query' = query
        /\ hist' = hist /\ vers' = vers /\ pc' = [pc EXCEPT ![t] = l]
    BY <1>6, <1>7
  <2> QED BY <1>0, <1>8, <1>9, <1>10, <2>1, <2>2, TicTypesStep
<1>12. TicQuiet
  BY <1>6, <1>10 DEF TicQuiet
<1>13. Follows(t)' /\ TicAccess(t)' /\ TicFresh(t)'
  BY <1>3, <1>6, <1>7, <1>11, <1>12, TicKeepTxn DEF TicQuiet, TicInstalling
<1>14. /\ WN(t)' = WN(t) /\ WriteSet(t)' = WriteSet(t)
       /\ \A k : WRow(t, k)' = WRow(t, k)
       /\ \A a, b : WRows(t, a, b)' = WRows(t, a, b)
  BY <1>6, SetsKept
<1>15. TicLoop(t)'
  <2>1. n + 1 <= WN(t)
    BY <1>3, <1>4
  <2>2. local'[t].num_locks = n + 1 /\ WN(t)' = WN(t) /\ pc'[t] \in {"lock", "abort"}
    BY <1>7, <1>8, <1>11, <1>14
  <2> QED BY <2>1, <2>2 DEF TicLoop, TicCopying, TicLocking, TicInstalling
<1>16. TicCopy(t)' /\ TicSwap(t)'
  BY <1>7, <1>11 DEF TicCopy, TicCopying, TicSwap
<1>17. TicCurrent(t)'
  <2> SUFFICES ASSUME l = "lock", NEW k \in 1..(n + 1)
               PROVE  accesses'[t][WriteSet(t)'[k]].wts = row'[WRow(t, k)'].word.wts
    BY <1>7, <1>8, <1>11 DEF TicCurrent, TicInstalling
  <2>1. k \in 1..WN(t)
    BY <1>3, <1>4
  <2>2. WRow(t, k) \in Row
    BY <1>1, <2>1, WriteSetProps
  <2>3. accesses[t][WriteSet(t)[k]].wts = row[WRow(t, k)].word.wts
    <3>1. CASE k \in 1..n
      BY <1>0, <1>2, <1>3, <3>1 DEF TicCurrent
    <3>2. CASE k = n + 1
      BY <1>5, <1>7, <3>2
    <3> QED BY <1>2, <3>1, <3>2
  <2> QED BY <1>6, <1>10, <1>14, <2>2, <2>3
<1>18. TicHeld(t) = WRows(t, 1, n) /\ TicHeld(t)' = WRows(t, 1, n) \cup {r}
  <2>1. TicHeld(t) = WRows(t, 1, n)
    BY <1>2, <1>3 DEF TicHeld, TicLocking
  <2>2. TicHeld(t)' = WRows(t, 1, n + 1)'
    BY <1>7, <1>8, <1>11 DEF TicHeld, TicLocking
  <2> QED BY <1>5, <1>14, <2>1, <2>2, WRowsTo
<1>19. HistoryKept' /\ IdsUsed'
  BY <1>3, <1>6, <1>11, TicSameHistory
<1>20. \A y \in Row : y \in TicHeld(t)' => y \in TicHeld(t) \/ ~row[y].word.lock
  BY <1>6, <1>18
<1>21. \A y \in Row : row'[y].word.lock <=> (row[y].word.lock /\ y \notin TicHeld(t)) \/ y \in TicHeld(t)'
  <2>1. \A y \in Row : y \in TicHeld(t) => row[y].word.lock
    BY DEF TicInv, TicLocks
  <2> QED BY <1>10, <1>18, <2>1
<1>22. pc[t] \notin {"install1", "install2"} /\ pc'[t] \notin {"install1", "install2"}
  BY <1>3, <1>7, <1>11
<1> QED BY <1>11, <1>12, <1>13, <1>15, <1>16, <1>17, <1>19, <1>20, <1>21, <1>22, TicQuietStep DEF TicThread

\* The rows once the lock bits of S are cleared.
LEMMA TicUnlock ==
  ASSUME TicTypes, NEW S,
         row' = [r \in Row |-> IF r \in S THEN [row[r] EXCEPT !.word.lock = FALSE] ELSE row[r]]
  PROVE  /\ row' \in [Row -> TicRowType]
         /\ \A r \in Row : row'[r].word.wts = row[r].word.wts /\ row'[r].data = row[r].data
         /\ \A r \in Row : row'[r].word.lock <=> row[r].word.lock /\ r \notin S
<1>1. \A r \in Row : row[r] \in TicRowType /\ row[r].word \in TicWord
  BY DEF TicTypes, TicRowType
<1>2. ASSUME NEW r \in Row, r \in S
      PROVE  /\ row'[r] \in TicRowType /\ row'[r].word.wts = row[r].word.wts
             /\ row'[r].data = row[r].data /\ row'[r].word.lock = FALSE
  <2>1. row'[r] = [row[r] EXCEPT !.word = [row[r].word EXCEPT !.lock = FALSE]]
    BY <1>2
  <2>2. [row[r].word EXCEPT !.lock = FALSE] \in TicWord
    BY <1>1 DEF TicWord
  <2>3. /\ row'[r] \in TicRowType /\ row'[r].data = row[r].data
        /\ row'[r].word = [row[r].word EXCEPT !.lock = FALSE]
    BY <1>1, <2>1, <2>2 DEF TicRowType
  <2>4. row'[r].word.wts = row[r].word.wts /\ row'[r].word.lock = FALSE
    BY <1>1, <2>3 DEF TicWord
  <2> QED BY <2>3, <2>4
<1>3. \A r \in Row : r \notin S => row'[r] = row[r]
  OBVIOUS
<1>4. row' \in [Row -> TicRowType]
  <2>1. \A r \in Row : row'[r] \in TicRowType
    BY <1>1, <1>2, <1>3
  <2>2. row' = [r \in Row |-> row'[r]]
    OBVIOUS
  <2> QED BY <2>1, <2>2
<1> QED BY <1>2, <1>3, <1>4

LEMMA TicBackoff ==
  ASSUME TicInv, NEW t \in Thread, TT!Backoff(t)
  PROVE  TicInv'
<1>0. /\ TicTypes /\ TicLoop(t) /\ Follows(t) /\ local[t] \in TicLocalType
  BY TicTyped DEF TicInv, TicThread
<1>1. /\ pc[t] = "backoff" /\ pc' = [pc EXCEPT ![t] = "pre"]
      /\ row' = [r \in Row |-> IF r \in TicHeld(t) THEN [row[r] EXCEPT !.word.lock = FALSE] ELSE row[r]]
      /\ local' = [local EXCEPT ![t] = [local[t] EXCEPT !.num_locks = 0, !.i = 0]]
      /\ accesses' = accesses /\ tries' = tries /\ query' = query
      /\ hist' = hist /\ vers' = vers
  BY TicNames DEF TT!Backoff, TT!Goto, TT!Set, TT!Unlock, TicHeld, TicLocking
<1>3. /\ row' \in [Row -> TicRowType]
      /\ \A r \in Row : row'[r].word.wts = row[r].word.wts /\ row'[r].data = row[r].data
      /\ \A r \in Row : row'[r].word.lock <=> row[r].word.lock /\ r \notin TicHeld(t)
  BY <1>0, <1>1, TicUnlock
<1> DEFINE w == [local[t] EXCEPT !.num_locks = 0, !.i = 0]
<1>4. w \in TicLocalType /\ w.num_locks = 0
  BY <1>0 DEF TicLocalType
<1>5. local' = [local EXCEPT ![t] = w]
  BY <1>1
<1> HIDE DEF w
<1>6. TicTypes' /\ OnlyThread(t) /\ pc'[t] = "pre" /\ local'[t] = w
  <2>1. "pre" \in TicPcs
    BY DEF TicPcs, TicLocking
  <2>2. /\ accesses' = accesses /\ tries' = tries /\ query' = query /\ hist' = hist /\ vers' = vers
        /\ pc' = [pc EXCEPT ![t] = "pre"]
    BY <1>1
  <2> QED BY <1>0, <1>3, <1>4, <1>5, <2>1, <2>2, TicTypesStep
<1>7. TicQuiet
  BY <1>1, <1>3 DEF TicQuiet
<1>8. Follows(t)' /\ TicAccess(t)' /\ TicFresh(t)'
  BY <1>1, <1>6, <1>7, TicKeepTxn DEF TicQuiet, TicInstalling
<1>9. WN(t)' = WN(t) /\ WN(t) \in Nat
  BY <1>0, <1>1, TicRowsOK, SetsKept, WriteSetProps
<1>10. TicLoop(t)'
  <2>1. local'[t].num_locks <= WN(t)' /\ local'[t].num_locks = 0 /\ pc'[t] = "pre"
    BY <1>4, <1>6, <1>9
  <2> QED BY <2>1 DEF TicLoop, TicCopying, TicLocking, TicInstalling
<1>11. TicCopy(t)' /\ TicSwap(t)'
  BY <1>6 DEF TicCopy, TicCopying, TicSwap
<1>12. TicCurrent(t)'
  BY <1>4, <1>6 DEF TicCurrent, TicInstalling
<1>13. TicHeld(t)' = {}
  <2>1. TicHeld(t)' = WRows(t, 1, 0)'
    BY <1>4, <1>6 DEF TicHeld, TicLocking
  <2> QED BY <2>1 DEF WRows
<1>14. HistoryKept' /\ IdsUsed'
  BY <1>1, <1>6, TicSameHistory
<1>15. pc[t] \notin {"install1", "install2"} /\ pc'[t] \notin {"install1", "install2"}
  BY <1>1, <1>6
<1> QED BY <1>3, <1>6, <1>7, <1>8, <1>10, <1>11, <1>12, <1>13, <1>14, <1>15, TicQuietStep DEF TicThread

\* What t knows while it looks at its reads.
LEMMA TicReading ==
  ASSUME TicInv, NEW t \in Thread, pc[t] \in {"reads", "cas"}
  PROVE  /\ TicTypes /\ local[t] \in TicLocalType /\ pc[t] \in TicLocking
         /\ local[t].num_locks = WN(t) /\ local[t].i <= RN(t) /\ local[t].i \in Nat /\ RN(t) \in Nat
         /\ Len(ReadSet(t)) = RN(t) /\ RowsOK(t)
         /\ \A k \in 1..local[t].num_locks :
               accesses[t][WriteSet(t)[k]].wts = row[WRow(t, k)].word.wts
         /\ \A k \in 1..WN(t) : local[t].commit_wts > row[WRow(t, k)].word.wts
<1>0. TicTypes /\ TicLoop(t) /\ Follows(t) /\ TicCurrent(t)
  BY DEF TicInv, TicThread
<1>1. RowsOK(t)
  BY <1>0, TicRowsOK
<1>2. RN(t) \in Nat /\ Len(ReadSet(t)) = RN(t)
  BY <1>1, ReadSetProps
<1>3. local[t] \in TicLocalType /\ local[t].i \in Nat
  BY <1>0, TicTyped
<1>4. pc[t] \in TicLocking
  BY DEF TicLocking
<1>5. local[t].num_locks = WN(t) /\ local[t].i <= RN(t)
  BY <1>0 DEF TicLoop
<1>6. /\ \A k \in 1..local[t].num_locks :
            accesses[t][WriteSet(t)[k]].wts = row[WRow(t, k)].word.wts
      /\ \A k \in 1..WN(t) : local[t].commit_wts > row[WRow(t, k)].word.wts
  BY <1>0 DEF TicCurrent
<1> QED BY <1>0, <1>1, <1>2, <1>3, <1>4, <1>5, <1>6

\* The read that t is at.
LEMMA TicReadingRow ==
  ASSUME TicInv, NEW t \in Thread, pc[t] \in {"reads", "cas"}, local[t].i < RN(t)
  PROVE  /\ TT!Reading(t) \in 1..Len(accesses[t])
         /\ TT!Reading(t) = ReadSet(t)[local[t].i + 1]
         /\ accesses[t][TT!Reading(t)].row \in Row
         /\ TT!TheWord(t, TT!Reading(t)) = row[accesses[t][TT!Reading(t)].row].word
         /\ TT!TheWord(t, TT!Reading(t)) \in TicWord
<1>1. local[t].i \in Nat /\ RN(t) \in Nat /\ RowsOK(t) /\ TicTypes
  BY TicReading
<1>2. local[t].i + 1 \in 1..RN(t)
  BY <1>1
<1>3. TT!Reading(t) = ReadSet(t)[local[t].i + 1]
  BY TicNames DEF TT!Reading
<1>4. TT!Reading(t) \in 1..Len(accesses[t])
  BY <1>1, <1>2, <1>3, ReadSetProps
<1>5. accesses[t][TT!Reading(t)].row \in Row
  BY <1>1, <1>4, TicTyped
<1>6. TT!TheWord(t, TT!Reading(t)) = row[accesses[t][TT!Reading(t)].row].word
  BY TicNames
<1> QED BY <1>1, <1>3, <1>4, <1>5, <1>6, TicTyped

\* On to the next read.
LEMMA TicNextRead ==
  ASSUME TicInv, NEW t \in Thread, pc[t] \in {"reads", "cas"}, local[t].i < RN(t),
         TT!NextRead(t), pc' = [pc EXCEPT ![t] = "reads"],
         row' = row, accesses' = accesses, tries' = tries, query' = query, hist' = hist, vers' = vers
  PROVE  TicInv'
<1> DEFINE w == [local[t] EXCEPT !.i = local[t].i + 1]
<1>0. /\ TicTypes /\ local[t] \in TicLocalType /\ pc[t] \in TicLocking
      /\ local[t].num_locks = WN(t) /\ local[t].i \in Nat /\ RN(t) \in Nat
      /\ \A k \in 1..local[t].num_locks :
            accesses[t][WriteSet(t)[k]].wts = row[WRow(t, k)].word.wts
      /\ \A k \in 1..WN(t) : local[t].commit_wts > row[WRow(t, k)].word.wts
  BY TicReading
<1>1. local' = [local EXCEPT ![t] = w]
  BY DEF TT!NextRead, TT!Set
<1>2. /\ w \in TicLocalType /\ w.num_locks = local[t].num_locks /\ w.i = local[t].i + 1
      /\ w.commit_wts = local[t].commit_wts
  BY <1>0 DEF TicLocalType
<1> HIDE DEF w
<1>3. w.i <= RN(t)
  BY <1>0, <1>2
<1>4. "reads" \in TicLocking
  BY DEF TicLocking
<1>5. /\ \A k \in 1..w.num_locks : accesses[t][WriteSet(t)[k]].wts = row[WRow(t, k)].word.wts
      /\ \A k \in 1..WN(t) : w.commit_wts > row[WRow(t, k)].word.wts
  BY <1>0, <1>2
<1> QED BY <1>0, <1>1, <1>2, <1>3, <1>4, <1>5, TicMove

\* A failed read ends the attempt.
LEMMA TicReadFails ==
  ASSUME TicInv, NEW t \in Thread, pc[t] \in {"reads", "cas"}, local' = local,
         pc' = [pc EXCEPT ![t] = "abort"],
         row' = row, accesses' = accesses, tries' = tries, query' = query, hist' = hist, vers' = vers
  PROVE  TicInv'
<1>0. local[t] \in TicLocalType /\ local \in [Thread -> TicLocalType] /\ pc[t] \in TicLocking
  BY TicReading DEF TicInv, TicTypes
<1>1. local' = [local EXCEPT ![t] = local[t]]
  BY <1>0
<1>2. "abort" \in TicLocking
  BY DEF TicLocking
<1> QED BY <1>0, <1>1, <1>2, TicMove

LEMMA TicLeaseHeld ==
  ASSUME TicInv, NEW t \in Thread, TT!LeaseHeld(t)
  PROVE  TicInv'
<1>1. /\ pc[t] = "reads" /\ local[t].i < Len(ReadSet(t)) /\ TT!NextRead(t) /\ pc' = pc
      /\ row' = row /\ accesses' = accesses /\ tries' = tries /\ query' = query
      /\ hist' = hist /\ vers' = vers
  BY TicNames DEF TT!LeaseHeld
<1>2. local[t].i < RN(t) /\ pc \in [Thread -> TicPcs]
  BY <1>1, TicReading DEF TicTypes
<1>3. pc' = [pc EXCEPT ![t] = "reads"]
  BY <1>1, <1>2
<1> QED BY <1>1, <1>2, <1>3, TicNextRead

\* The word that extends a lease keeps the lock bit clear and does not lower
\* the number.
LEMMA TicRenewed ==
  ASSUME NEW x \in Nat, NEW ts \in Nat, x <= ts
  PROVE  /\ TT!Renewed(x, ts).word \in TicWord /\ TT!Renewed(x, ts).rebase \in BOOLEAN
         /\ ~TT!Renewed(x, ts).word.lock /\ x <= TT!Renewed(x, ts).word.wts
<1> DEFINE p == 2^RTS_LEN
           d == ts - x
<1>1. p \in Nat /\ p > 0
  <2>1. IsFiniteSet(1..RTS_LEN) /\ Cardinality(1..RTS_LEN) = RTS_LEN
    BY EnginesAssumption, FS_Interval
  <2>2. IsFiniteSet(SUBSET (1..RTS_LEN)) /\ Cardinality(SUBSET (1..RTS_LEN)) = p
    BY <2>1, FS_SUBSET
  <2>3. p \in Nat
    <3> HIDE DEF p
    <3> QED BY <2>2, FS_CardinalityType
  <2>4. SUBSET (1..RTS_LEN) # {}
    OBVIOUS
  <2>5. p # 0
    <3> HIDE DEF p
    <3> QED BY <2>2, <2>4, FS_EmptySet
  <2> HIDE DEF p
  <2> QED BY <2>3, <2>5
<1>2. d \in Nat
  OBVIOUS
<1> HIDE DEF p, d
<1>3. d % p \in Nat /\ d % p <= d
  BY <1>1, <1>2
<1>4. x + d - (d % p) \in Nat /\ x <= x + d - (d % p)
  <2> DEFINE m == d % p
  <2>1. m \in Nat /\ m <= d
    BY <1>3
  <2> HIDE DEF m
  <2>2. x + d - m \in Nat /\ x <= x + d - m
    BY <1>2, <2>1
  <2> QED BY <2>2 DEF m
<1>5. /\ TT!Renewed(x, ts).word = [lock |-> FALSE, wts |-> x + d - (d % p), delta |-> d % p]
      /\ TT!Renewed(x, ts).rebase = (d >= p)
  BY DEF TT!Renewed, TT!Word, d, p
<1>6. (d >= p) \in BOOLEAN
  OBVIOUS
<1>7. TT!Renewed(x, ts).word \in TicWord
  BY <1>3, <1>4, <1>5 DEF TicWord
<1> QED BY <1>4, <1>5, <1>6, <1>7

LEMMA TicRenewRead ==
  ASSUME TicInv, NEW t \in Thread, TT!RenewRead(t)
  PROVE  TicInv'
<1>0. pc[t] = "reads" /\ local[t].i < RN(t)
  BY TicNames, TicReading DEF TT!RenewRead
<1>1. PICK i \in 1..Len(accesses[t]), r \in Row :
         /\ i = TT!Reading(t) /\ r = accesses[t][i].row /\ TT!TheWord(t, i) = row[r].word
  BY <1>0, TicReadingRow
<1>2. PICK x \in Nat, e \in Nat, ts \in Nat :
         x = accesses[t][i].wts /\ e = accesses[t][i].rts /\ ts = local[t].commit_wts
  BY TicTyped DEF TicInv
<1>3. x <= e
  BY <1>1, <1>2 DEF TicInv, TicThread, TicAccess
<1> DEFINE n == TT!Renewed(x, ts)
           w == [local[t] EXCEPT !.v = row[r].word, !.v2 = n.word, !.rebase = n.rebase]
<1>4. /\ e < ts
      /\ \/ TT!NextRead(t) /\ pc' = pc
         \/ pc' = [pc EXCEPT ![t] = "abort"] /\ local' = local
         \/ /\ row[r].word.wts = x /\ ~row[r].word.lock
            /\ local' = [local EXCEPT ![t] = w] /\ pc' = [pc EXCEPT ![t] = "cas"]
      /\ row' = row /\ accesses' = accesses /\ tries' = tries /\ query' = query
      /\ hist' = hist /\ vers' = vers
  BY <1>1, <1>2 DEF TT!RenewRead, TT!Goto, TT!Set
<1>5. CASE TT!NextRead(t) /\ pc' = pc
  <2>1. pc' = [pc EXCEPT ![t] = "reads"]
    BY <1>0, <1>5 DEF TicInv, TicTypes
  <2> QED BY <1>0, <1>4, <1>5, <2>1, TicNextRead
<1>6. CASE pc' = [pc EXCEPT ![t] = "abort"] /\ local' = local
  BY <1>0, <1>4, <1>6, TicReadFails
<1>7. CASE /\ row[r].word.wts = x /\ ~row[r].word.lock
           /\ local' = [local EXCEPT ![t] = w] /\ pc' = [pc EXCEPT ![t] = "cas"]
  <2>1. x <= ts
    BY <1>3, <1>4
  <2>2. n.word \in TicWord /\ n.rebase \in BOOLEAN /\ ~n.word.lock /\ x <= n.word.wts
    BY <2>1, TicRenewed
  <2>3. /\ TicTypes /\ local[t] \in TicLocalType /\ pc[t] \in TicLocking
        /\ local[t].num_locks = WN(t) /\ local[t].i <= RN(t)
        /\ \A k \in 1..local[t].num_locks :
              accesses[t][WriteSet(t)[k]].wts = row[WRow(t, k)].word.wts
        /\ \A k \in 1..WN(t) : local[t].commit_wts > row[WRow(t, k)].word.wts
    BY <1>0, TicReading
  <2>4. row[r].word \in TicWord
    BY <2>3, TicTyped
  <2> HIDE DEF n
  <2>5. /\ w \in TicLocalType /\ w.v = row[r].word /\ w.v2 = n.word /\ w.i = local[t].i
        /\ w.num_locks = local[t].num_locks /\ w.commit_wts = local[t].commit_wts
    BY <2>2, <2>3, <2>4 DEF TicLocalType
  <2> HIDE DEF w
  <2>6. ~w.v.lock /\ ~w.v2.lock /\ w.v.wts <= w.v2.wts
    BY <1>7, <2>2, <2>5
  <2>7. "cas" \in TicLocking
    BY DEF TicLocking
  <2>8. /\ \A k \in 1..w.num_locks : accesses[t][WriteSet(t)[k]].wts = row[WRow(t, k)].word.wts
        /\ \A k \in 1..WN(t) : w.commit_wts > row[WRow(t, k)].word.wts
    BY <2>3, <2>5
  <2> QED BY <1>0, <1>4, <1>7, <2>3, <2>5, <2>6, <2>7, <2>8, TicMove
<1> QED BY <1>4, <1>5, <1>6, <1>7

LEMMA TicRenewRetry ==
  ASSUME TicInv, NEW t \in Thread, TT!RenewRetry(t)
  PROVE  TicInv'
<1>0. pc[t] = "cas"
  BY DEF TT!RenewRetry
<1>01. local[t].i < RN(t) /\ ~local[t].v2.lock
  BY <1>0 DEF TicInv, TicThread, TicLoop, TicSwap
<1>1. PICK r \in Row : TT!TheWord(t, TT!Reading(t)) = row[r].word
  BY <1>0, <1>01, TicReadingRow
<1> DEFINE w == [local[t] EXCEPT !.v = row[r].word]
<1>4. /\ \/ pc' = [pc EXCEPT ![t] = "abort"] /\ local' = local
         \/ TT!NextRead(t) /\ pc' = [pc EXCEPT ![t] = "reads"]
         \/ /\ row[r].word.wts = local[t].v2.wts /\ ~row[r].word.lock
            /\ local' = [local EXCEPT ![t] = w] /\ pc' = pc
      /\ row' = row /\ accesses' = accesses /\ tries' = tries /\ query' = query
      /\ hist' = hist /\ vers' = vers
  BY <1>1 DEF TT!RenewRetry, TT!Goto, TT!Set
<1>5. CASE TT!NextRead(t) /\ pc' = [pc EXCEPT ![t] = "reads"]
  BY <1>0, <1>01, <1>4, <1>5, TicNextRead
<1>6. CASE pc' = [pc EXCEPT ![t] = "abort"] /\ local' = local
  BY <1>0, <1>4, <1>6, TicReadFails
<1>7. CASE /\ row[r].word.wts = local[t].v2.wts /\ ~row[r].word.lock
           /\ local' = [local EXCEPT ![t] = w] /\ pc' = pc
  <2>3. /\ TicTypes /\ local[t] \in TicLocalType /\ pc[t] \in TicLocking
        /\ local[t].num_locks = WN(t) /\ local[t].i <= RN(t)
        /\ \A k \in 1..local[t].num_locks :
              accesses[t][WriteSet(t)[k]].wts = row[WRow(t, k)].word.wts
        /\ \A k \in 1..WN(t) : local[t].commit_wts > row[WRow(t, k)].word.wts
    BY <1>0, TicReading
  <2>4. row[r].word \in TicWord /\ row[r].word.wts \in Nat
    BY <2>3, TicTyped
  <2>5. /\ w \in TicLocalType /\ w.v = row[r].word /\ w.v2 = local[t].v2 /\ w.i = local[t].i
        /\ w.num_locks = local[t].num_locks /\ w.commit_wts = local[t].commit_wts
    BY <2>3, <2>4 DEF TicLocalType
  <2> HIDE DEF w
  <2>6. ~w.v.lock /\ ~w.v2.lock /\ w.v.wts <= w.v2.wts
    BY <1>01, <1>7, <2>4, <2>5
  <2>7. "cas" \in TicLocking /\ pc' = [pc EXCEPT ![t] = "cas"]
    BY <1>0, <1>7 DEF TicLocking, TicInv, TicTypes
  <2>8. /\ \A k \in 1..w.num_locks : accesses[t][WriteSet(t)[k]].wts = row[WRow(t, k)].word.wts
        /\ \A k \in 1..WN(t) : w.commit_wts > row[WRow(t, k)].word.wts
    BY <2>3, <2>5
  <2> QED BY <1>01, <1>4, <1>7, <2>3, <2>5, <2>6, <2>7, <2>8, TicMove
<1> QED BY <1>4, <1>5, <1>6, <1>7

\* What is left to show of a step of t besides its effect on the others.
LEMMA TicLoudStep ==
  ASSUME TicInv, TicTypes', NEW t \in Thread, TicEffect(t), TicRows', TicLocks',
         TicThread(t)', HistoryKept', IdsUsed'
  PROVE  TicInv'
<1>1. \A u \in Thread : TicThread(u)'
  <2> TAKE u \in Thread
  <2>1. CASE u = t
    BY <2>1
  <2>2. CASE u # t
    BY <2>2, TicOthers
  <2> QED BY <2>1, <2>2
<1> QED BY <1>1 DEF TicInv

\* The swap of try_renew hits a row that nobody holds; it may raise its number
\* and leaves its version.
LEMMA TicRenewSwap ==
  ASSUME TicInv, NEW t \in Thread, TT!RenewSwap(t)
  PROVE  TicInv'
<1>0. pc[t] = "cas"
  BY DEF TT!RenewSwap
<1>1. /\ TicTypes /\ TicLoop(t) /\ Follows(t) /\ TicAccess(t) /\ TicFresh(t) /\ TicSwap(t) /\ TicRows
      /\ row \in [Row -> TicRowType] /\ local[t].i < RN(t)
  BY <1>0 DEF TicInv, TicThread, TicTypes, TicLoop
<1>2. PICK r \in Row : r = accesses[t][TT!Reading(t)].row /\ TT!TheWord(t, TT!Reading(t)) = row[r].word
  BY <1>0, <1>1, TicReadingRow
<1>3. /\ TicTypes /\ local[t] \in TicLocalType /\ pc[t] \in TicLocking
      /\ local[t].num_locks = WN(t) /\ local[t].i \in Nat /\ RN(t) \in Nat /\ RowsOK(t)
      /\ \A k \in 1..local[t].num_locks :
            accesses[t][WriteSet(t)[k]].wts = row[WRow(t, k)].word.wts
      /\ \A k \in 1..WN(t) : local[t].commit_wts > row[WRow(t, k)].word.wts
  BY <1>0, TicReading
<1> DEFINE w == [local[t] EXCEPT !.i = local[t].i + 1]
<1>4. /\ row[r].word = local[t].v
      /\ row' = [row EXCEPT ![r].word = local[t].v2]
      /\ local' = [local EXCEPT ![t] = w] /\ pc' = [pc EXCEPT ![t] = "reads"]
      /\ accesses' = accesses /\ tries' = tries /\ query' = query
      /\ hist' = hist /\ vers' = vers
  BY <1>2 DEF TT!RenewSwap, TT!NextRead, TT!Goto, TT!Set
<1>5. /\ w \in TicLocalType /\ w.num_locks = local[t].num_locks /\ w.i = local[t].i + 1
      /\ w.commit_wts = local[t].commit_wts
  BY <1>3 DEF TicLocalType
<1> HIDE DEF w
<1>6. /\ row' \in [Row -> TicRowType]
      /\ \A y \in Row : row'[y].data = row[y].data /\ (row'[y].word.lock <=> row[y].word.lock)
      /\ \A y \in Row : row[y].word.wts \in Nat /\ row'[y].word.wts \in Nat
      /\ \A y \in Row : y # r => row'[y] = row[y]
      /\ row[r].word.wts <= row'[r].word.wts /\ ~row[r].word.lock
  <2>1. \A y \in Row : row[y] \in TicRowType /\ row[y].word \in TicWord /\ row[y].word.wts \in Nat
    BY <1>1, TicTyped
  <2>2. local[t].v2 \in TicWord
    BY <1>1, TicTyped
  <2>3. /\ row'[r] = [row[r] EXCEPT !.word = local[t].v2]
        /\ \A y \in Row : y # r => row'[y] = row[y]
        /\ row' = [y \in Row |-> row'[y]]
    BY <1>1, <1>4
  <2>4. row'[r] \in TicRowType /\ row'[r].data = row[r].data /\ row'[r].word = local[t].v2
    BY <2>1, <2>2, <2>3 DEF TicRowType
  <2>5. row' \in [Row -> TicRowType]
    BY <2>1, <2>3, <2>4
  <2>6. ~row[r].word.lock /\ ~row'[r].word.lock /\ row[r].word.wts <= row'[r].word.wts
    BY <1>0, <1>1, <1>4, <2>4 DEF TicSwap
  <2>7. row'[r].word.wts \in Nat
    BY <2>2, <2>4 DEF TicWord
  <2> QED BY <2>1, <2>3, <2>4, <2>5, <2>6, <2>7
<1>7. TicTypes' /\ OnlyThread(t) /\ pc'[t] = "reads" /\ local'[t] = w
  <2>1. "reads" \in TicPcs
    BY DEF TicPcs, TicLocking
  <2>2. /\ accesses' = accesses /\ tries' = tries /\ query' = query
        /\ hist' = hist /\ vers' = vers /\ pc' = [pc EXCEPT ![t] = "reads"]
        /\ local' = [local EXCEPT ![t] = w]
    BY <1>4
  <2>3. row' \in [Row -> TicRowType] /\ w \in TicLocalType /\ TicTypes
    BY <1>3, <1>5, <1>6
  <2> QED BY <2>1, <2>2, <2>3, TicTypesStep
<1>8. /\ WN(t)' = WN(t) /\ RN(t)' = RN(t) /\ WriteSet(t)' = WriteSet(t)
      /\ \A k : WRow(t, k)' = WRow(t, k)
      /\ \A a, b : WRows(t, a, b)' = WRows(t, a, b)
  BY <1>4, SetsKept
<1>9. \A u \in Thread : r \notin TicHeld(u)
  BY <1>6 DEF TicInv, TicLocks
<1>10. TicHeld(t) = WRows(t, 1, WN(t)) /\ TicHeld(t)' = TicHeld(t)
  BY <1>0, <1>3, <1>5, <1>7, <1>8 DEF TicHeld, TicLocking
<1>11. \A k \in 1..WN(t) : WRow(t, k) \in Row /\ row'[WRow(t, k)] = row[WRow(t, k)]
  <2>1. \A k \in 1..WN(t) : WRow(t, k) \in Row
    BY <1>3, WriteSetProps
  <2>2. \A k \in 1..WN(t) : WRow(t, k) # r
    BY <1>9, <1>10 DEF WRows
  <2> QED BY <1>6, <2>1, <2>2
<1>12. Follows(t)' /\ TicCopy(t)' /\ TicSwap(t)' /\ TicLoop(t)'
  <2>1. Follows(t)'
    BY <1>0, <1>1, <1>4, <1>7 DEF Follows
  <2>2. local'[t].i <= RN(t)' /\ local'[t].num_locks = WN(t)' /\ local'[t].num_locks <= WN(t)'
    <3>1. WN(t) \in Nat
      BY <1>3, WriteSetProps
    <3> QED BY <1>1, <1>3, <1>5, <1>7, <1>8, <3>1
  <2> QED BY <1>7, <2>1, <2>2 DEF TicLoop, TicCopy, TicSwap, TicCopying, TicLocking, TicInstalling
<1>13. TicAccess(t)'
  <2> SUFFICES ASSUME NEW i \in 1..Len(accesses[t])
               PROVE  /\ accesses[t][i].wts <= accesses[t][i].rts
                      /\ accesses[t][i].wts <= row'[accesses[t][i].row].word.wts
                      /\ HasVersion(accesses[t][i].row, accesses[t][i].data[1])
                      /\ accesses[t][i].wts = row'[accesses[t][i].row].word.wts =>
                            accesses[t][i].data[1] = Latest(accesses[t][i].row)
    BY <1>4 DEF TicAccess, HasVersion, Latest
  <2>1. PICK y \in Row, c \in Nat : y = accesses[t][i].row /\ c = accesses[t][i].wts
    BY <1>1, TicTyped
  <2>2. /\ accesses[t][i].wts <= accesses[t][i].rts /\ c <= row[y].word.wts
        /\ HasVersion(y, accesses[t][i].data[1])
        /\ c = row[y].word.wts => accesses[t][i].data[1] = Latest(y)
    BY <1>1, <2>1 DEF TicAccess
  <2>3. row[y].word.wts <= row'[y].word.wts /\ row[y].word.wts \in Nat /\ row'[y].word.wts \in Nat
    <3>1. CASE y = r
      BY <1>6, <3>1
    <3>2. CASE y # r
      BY <1>6, <3>2
    <3> QED BY <3>1, <3>2
  <2>4. c <= row'[y].word.wts /\ (c = row'[y].word.wts => c = row[y].word.wts)
    BY <2>2, <2>3
  <2> QED BY <2>1, <2>2, <2>4
<1>14. TicFresh(t)'
  BY <1>0, <1>1, <1>4, <1>7 DEF TicFresh, HasVersion, Attempt, TicInstalling
<1>15. TicCurrent(t)'
  <2>1. \A k \in 1..WN(t) :
           /\ accesses'[t][WriteSet(t)'[k]].wts = row'[WRow(t, k)'].word.wts
           /\ local'[t].commit_wts > row'[WRow(t, k)'].word.wts
    BY <1>3, <1>4, <1>5, <1>7, <1>8, <1>11
  <2>2. local'[t].num_locks = WN(t) /\ WN(t)' = WN(t) /\ pc'[t] \notin TicInstalling
    BY <1>3, <1>5, <1>7, <1>8 DEF TicInstalling
  <2> QED BY <2>1, <2>2 DEF TicCurrent
<1>16. pc[t] \notin {"install1", "install2"} /\ pc'[t] \notin {"install1", "install2"}
  BY <1>0, <1>7
<1>17. \A u \in Thread : \A y : TicDirty(u, y)' <=> TicDirty(u, y)
  <2>1. \A y : ~TicDirty(t, y)' /\ ~TicDirty(t, y)
    BY <1>16 DEF TicDirty
  <2>2. \A u \in Thread : u # t => \A y : TicDirty(u, y)' <=> TicDirty(u, y)
    BY <1>7, TicOwn DEF OnlyThread
  <2> QED BY <2>1, <2>2
<1>18. TicRows'
  <2>1. \A y : (TicClean(y)' <=> TicClean(y)) /\ Latest(y)' = Latest(y)
    BY <1>4, <1>17 DEF TicClean, Latest
  <2>2. \A y \in Row : TicClean(y)' => \A h \in 1..2 : row'[y].data[h] = Latest(y)'
    BY <1>1, <1>6, <2>1 DEF TicRows
  <2>3. ASSUME NEW u \in Thread, NEW y \in Row, TicDirty(u, y)'
        PROVE  Latest(y)' = Attempt(u)' /\ (pc'[u] = "install2" => row'[y].data[1] = Attempt(u)')
    <3>1. TicDirty(u, y) /\ u # t
      BY <1>16, <1>17, <2>3 DEF TicDirty
    <3>2. pc'[u] = pc[u] /\ Attempt(u)' = Attempt(u)
      BY <1>7, <3>1 DEF OnlyThread, Attempt
    <3> QED BY <1>1, <1>6, <2>1, <3>1, <3>2 DEF TicRows
  <2> QED BY <2>2, <2>3 DEF TicRows
<1>19. TicLocks'
  <2>1. TicHeld(t)' \subseteq Row
    BY <1>10, TicHeldRows DEF TicInv, TicThread
  <2>2. \A y \in Row : y \in TicHeld(t) => row[y].word.lock
    BY DEF TicInv, TicLocks
  <2>3. \A y \in Row : row'[y].word.lock <=> (row[y].word.lock /\ y \notin TicHeld(t)) \/ y \in TicHeld(t)'
    BY <1>6, <1>10, <2>2
  <2> QED BY <1>7, <1>10, <2>1, <2>3, TicLocksStep
<1>20. TicEffect(t)
  <2>1. VersionsGrow
    <3>1. \A y \in Row : Len(vers[y]) \in Nat
      BY <1>1 DEF TicTypes, FrameTypes
    <3> QED BY <1>4, <3>1 DEF VersionsGrow
  <2>2. \A y \in Row : row'[y].word.wts >= row[y].word.wts
    <3> TAKE y \in Row
    <3>1. CASE y = r
      BY <1>6, <3>1
    <3>2. CASE y # r
      BY <1>6, <3>2
    <3> QED BY <3>1, <3>2
  <2>3. \A u \in Thread \ {t} : \A y \in TicHeld(u) : row'[y].word.wts = row[y].word.wts
    <3> SUFFICES ASSUME NEW u \in Thread, NEW y \in TicHeld(u) PROVE row'[y].word.wts = row[y].word.wts
      OBVIOUS
    <3>1. y \in Row /\ y # r
      BY <1>9, TicHeldRows DEF TicInv, TicThread
    <3> QED BY <1>6, <3>1
  <2>4. \A y : TicDirty(t, y)' => TicDirty(t, y)
    BY <1>17
  <2> QED BY <1>4, <1>7, <2>1, <2>2, <2>3, <2>4 DEF TicEffect
<1>21. HistoryKept' /\ IdsUsed'
  BY <1>0, <1>4, <1>7, TicSameHistory
<1>22. TicThread(t)'
  BY <1>12, <1>13, <1>14, <1>15 DEF TicThread
<1> QED BY <1>7, <1>18, <1>19, <1>20, <1>21, <1>22, TicLoudStep

LEMMA TicStartInstall ==
  ASSUME TicInv, NEW t \in Thread, TT!StartInstall(t)
  PROVE  TicInv'
<1> DEFINE w == [local[t] EXCEPT !.i = 0]
<1>1. /\ pc[t] = "reads" /\ pc' = [pc EXCEPT ![t] = "word"] /\ local' = [local EXCEPT ![t] = w]
      /\ row' = row /\ accesses' = accesses /\ tries' = tries /\ query' = query
      /\ hist' = hist /\ vers' = vers
  BY DEF TT!StartInstall, TT!Goto, TT!Set
<1>2. /\ TicTypes /\ local[t] \in TicLocalType /\ pc[t] \in TicLocking
      /\ local[t].num_locks = WN(t) /\ RowsOK(t)
      /\ \A k \in 1..local[t].num_locks :
            accesses[t][WriteSet(t)[k]].wts = row[WRow(t, k)].word.wts
      /\ \A k \in 1..WN(t) : local[t].commit_wts > row[WRow(t, k)].word.wts
  BY <1>1, TicReading
<1>3. row \in [Row -> TicRowType] /\ WN(t) \in Nat
  BY <1>2, WriteSetProps DEF TicTypes
<1>4. w \in TicLocalType /\ w.i = 0 /\ w.commit_wts = local[t].commit_wts
  BY <1>2 DEF TicLocalType
<1> HIDE DEF w
<1>5. TicTypes' /\ OnlyThread(t) /\ pc'[t] = "word" /\ local'[t] = w
  <2>1. "word" \in TicPcs /\ row' \in [Row -> TicRowType]
    BY <1>1, <1>3 DEF TicPcs, TicInstalling
  <2>2. /\ accesses' = accesses /\ tries' = tries /\ query' = query
        /\ hist' = hist /\ vers' = vers /\ pc' = [pc EXCEPT ![t] = "word"]
    BY <1>1
  <2> QED BY <1>1, <1>2, <1>4, <2>1, <2>2, TicTypesStep
<1>6. TicQuiet
  BY <1>1 DEF TicQuiet
<1>7. Follows(t)' /\ TicAccess(t)' /\ TicFresh(t)'
  BY <1>1, <1>5, <1>6, TicKeepTxn DEF TicQuiet, TicInstalling
<1>8. /\ WN(t)' = WN(t) /\ WriteSet(t)' = WriteSet(t)
      /\ \A k : WRow(t, k)' = WRow(t, k)
      /\ \A a, b : WRows(t, a, b)' = WRows(t, a, b)
  BY <1>1, SetsKept
<1>9. TicLoop(t)' /\ TicCopy(t)' /\ TicSwap(t)'
  <2>1. local'[t].i <= WN(t)'
    BY <1>3, <1>4, <1>5, <1>8
  <2> QED BY <1>5, <2>1 DEF TicLoop, TicCopy, TicSwap, TicCopying, TicLocking, TicInstalling
<1>10. TicCurrent(t)'
  <2>1. TicDone(t)' = 0
    BY <1>4, <1>5 DEF TicDone
  <2>2. \A k \in (TicDone(t)' + 1)..WN(t) :
           /\ accesses'[t][WriteSet(t)'[k]].wts = row'[WRow(t, k)'].word.wts
           /\ local'[t].commit_wts > row'[WRow(t, k)'].word.wts
    BY <1>1, <1>2, <1>4, <1>5, <1>8, <2>1
  <2>3. pc'[t] \notin {"lock", "reads", "cas"} /\ 1..TicDone(t)' = {}
    BY <1>5, <2>1
  <2> QED BY <1>8, <2>2, <2>3 DEF TicCurrent
<1>11. TicHeld(t)' = TicHeld(t)
  <2>1. TicHeld(t) = WRows(t, 1, WN(t))
    BY <1>1, <1>2 DEF TicHeld
  <2>2. TicHeld(t)' = WRows(t, 0 + 1, WN(t))
    BY <1>4, <1>5, <1>8 DEF TicHeld, TicLocking, TicInstalling
  <2> QED BY <2>1, <2>2
<1>12. HistoryKept' /\ IdsUsed'
  BY <1>1, <1>5, TicSameHistory
<1>13. \A r \in Row : row'[r].word.lock <=> (row[r].word.lock /\ r \notin TicHeld(t)) \/ r \in TicHeld(t)'
  <2>1. \A r \in Row : r \in TicHeld(t) => row[r].word.lock
    BY DEF TicInv, TicLocks
  <2> QED BY <1>1, <1>11, <2>1
<1> QED BY <1>1, <1>5, <1>6, <1>7, <1>9, <1>10, <1>11, <1>12, <1>13, TicQuietStep DEF TicThread

\* The row a thread that installs is at.
LEMMA TicInstallingRow ==
  ASSUME TicInv, NEW t \in Thread, pc[t] \in TicInstalling, local[t].i < WN(t)
  PROVE  /\ local[t].i + 1 \in 1..WN(t) /\ WN(t) \in Nat
         /\ WRow(t, local[t].i + 1) \in Row
         /\ WRow(t, local[t].i + 1) \in TicHeld(t)
         /\ TicHeld(t) = WRows(t, local[t].i + 1, WN(t))
         /\ row[WRow(t, local[t].i + 1)].word.lock
         /\ \A u \in Thread : WRow(t, local[t].i + 1) \in TicHeld(u) => u = t
<1>1. RowsOK(t) /\ local[t].i \in Nat
  BY TicRowsOK, TicTyped DEF TicInv, TicThread
<1>2. WN(t) \in Nat
  BY <1>1, WriteSetProps
<1>3. local[t].i + 1 \in 1..WN(t) /\ local[t].i + 1 \in (local[t].i + 1)..WN(t)
  BY <1>1, <1>2
<1>4. WRow(t, local[t].i + 1) \in Row
  BY <1>1, <1>3, WriteSetProps
<1>5. TicHeld(t) = WRows(t, local[t].i + 1, WN(t))
  BY DEF TicHeld, TicLocking, TicInstalling
<1>6. WRow(t, local[t].i + 1) \in TicHeld(t)
  BY <1>3, <1>5 DEF WRows
<1> QED BY <1>2, <1>3, <1>4, <1>5, <1>6 DEF TicInv, TicLocks

LEMMA TicRelease ==
  ASSUME TicInv, NEW t \in Thread, TT!ReleaseInstalled(t)
  PROVE  TicInv'
<1>0. /\ TicTypes /\ TicLoop(t) /\ Follows(t) /\ TicCurrent(t)
      /\ row \in [Row -> TicRowType] /\ local[t] \in TicLocalType
  BY TicTyped DEF TicInv, TicThread, TicTypes
<1>1. PICK n \in Nat, r \in Row : n = local[t].i /\ r = WRow(t, n + 1)
  <2>1. pc[t] \in TicInstalling /\ local[t].i < WN(t)
    BY <1>0 DEF TT!ReleaseInstalled, TicInstalling, TicLoop
  <2> QED BY <1>0, <2>1, TicInstallingRow DEF TicLocalType
<1>2. /\ pc[t] = "release" /\ pc' = [pc EXCEPT ![t] = "word"]
      /\ row' = [y \in Row |-> IF y \in {r} THEN [row[y] EXCEPT !.word.lock = FALSE] ELSE row[y]]
      /\ local' = [local EXCEPT ![t] = [local[t] EXCEPT !.i = local[t].i + 1]]
      /\ accesses' = accesses /\ tries' = tries /\ query' = query
      /\ hist' = hist /\ vers' = vers
  BY <1>1, TicNames DEF TT!ReleaseInstalled, TT!Goto, TT!Set, TT!Unlock
<1>3. /\ n + 1 \in 1..WN(t) /\ WN(t) \in Nat
      /\ r \in TicHeld(t) /\ TicHeld(t) = WRows(t, n + 1, WN(t))
  <2>1. pc[t] \in TicInstalling /\ local[t].i < WN(t)
    BY <1>0, <1>2 DEF TicInstalling, TicLoop
  <2> QED BY <1>1, <2>1, TicInstallingRow
<1> DEFINE w == [local[t] EXCEPT !.i = local[t].i + 1]
<1>4. w \in TicLocalType /\ w.i = n + 1 /\ w.commit_wts = local[t].commit_wts
  BY <1>0, <1>1 DEF TicLocalType
<1>5. local' = [local EXCEPT ![t] = w]
  BY <1>2
<1> HIDE DEF w
<1>6. /\ row' \in [Row -> TicRowType]
      /\ \A y \in Row : row'[y].word.wts = row[y].word.wts /\ row'[y].data = row[y].data
      /\ \A y \in Row : row'[y].word.lock <=> row[y].word.lock /\ y # r
  <2>1. \A y \in Row : y \notin {r} <=> y # r
    OBVIOUS
  <2> QED BY <1>0, <1>2, <2>1, TicUnlock
<1>7. TicTypes' /\ OnlyThread(t) /\ pc'[t] = "word" /\ local'[t] = w
  <2>1. "word" \in TicPcs
    BY DEF TicPcs, TicInstalling
  <2>2. /\ accesses' = accesses /\ tries' = tries /\ query' = query
        /\ hist' = hist /\ vers' = vers /\ pc' = [pc EXCEPT ![t] = "word"]
    BY <1>2
  <2> QED BY <1>0, <1>4, <1>5, <1>6, <2>1, <2>2, TicTypesStep
<1>8. TicQuiet
  BY <1>2, <1>6 DEF TicQuiet
<1>9. Follows(t)' /\ TicAccess(t)' /\ TicFresh(t)'
  BY <1>2, <1>7, <1>8, TicKeepTxn DEF TicQuiet, TicInstalling
<1>10. /\ WN(t)' = WN(t) /\ RN(t)' = RN(t) /\ WriteSet(t)' = WriteSet(t)
       /\ \A k : WRow(t, k)' = WRow(t, k)
       /\ \A a, b : WRows(t, a, b)' = WRows(t, a, b)
  BY <1>2, SetsKept
<1>11. TicLoop(t)'
  <2>2. n + 1 <= WN(t)
    BY <1>3
  <2>3. local'[t].i <= WN(t)'
    BY <1>4, <1>7, <1>10, <2>2
  <2> QED BY <1>7, <2>3 DEF TicLoop, TicCopying, TicLocking, TicInstalling
<1>12. TicCopy(t)' /\ TicSwap(t)'
  BY <1>7 DEF TicCopy, TicCopying, TicSwap
<1>13. TicDone(t) = n + 1 /\ TicDone(t)' = n + 1
  BY <1>1, <1>2, <1>4, <1>7 DEF TicDone, TicInstalling
<1>14. TicCurrent(t)'
  <2>1. ASSUME NEW k \in (n + 1 + 1)..WN(t)
        PROVE  /\ accesses'[t][WriteSet(t)'[k]].wts = row'[WRow(t, k)'].word.wts
               /\ local'[t].commit_wts > row'[WRow(t, k)'].word.wts
    <3>1. /\ accesses[t][WriteSet(t)[k]].wts = row[WRow(t, k)].word.wts
          /\ local[t].commit_wts > row[WRow(t, k)].word.wts
      BY <1>0, <1>2, <1>13 DEF TicCurrent, TicInstalling
    <3>2. k \in 1..WN(t)
      BY <1>1, <1>3
    <3>3. WRow(t, k) \in Row
      BY <1>0, <3>2, TicRowsOK, WriteSetProps
    <3> QED BY <1>2, <1>4, <1>6, <1>7, <1>10, <3>1, <3>3
  <2>2. ASSUME NEW k \in 1..(n + 1)
        PROVE  Replaced(WRow(t, k), accesses[t][WriteSet(t)[k]].data[1], Attempt(t))'
    <3>1. Replaced(WRow(t, k), accesses[t][WriteSet(t)[k]].data[1], Attempt(t))
      BY <1>0, <1>2, <1>13 DEF TicCurrent, TicInstalling
    <3> QED BY <1>2, <1>10, <3>1 DEF Replaced, Attempt
  <2>3. pc'[t] \notin {"lock", "reads", "cas"}
    BY <1>7
  <2> QED BY <1>10, <1>13, <2>1, <2>2, <2>3 DEF TicCurrent
<1>15. TicHeld(t)' = WRows(t, n + 2, WN(t))
  <2>1. local'[t].i + 1 = n + 2
    BY <1>1, <1>4, <1>7
  <2> QED BY <1>7, <1>10, <2>1 DEF TicHeld, TicLocking, TicInstalling
<1>16. \A y : y \in TicHeld(t)' <=> y \in TicHeld(t) /\ y # r
  <2>1. \A k \in (n + 2)..WN(t) : k \in (n + 1)..WN(t) /\ k \in 1..WN(t) /\ k # n + 1
    BY <1>1, <1>3
  <2>2. \A k \in (n + 1)..WN(t) : k = n + 1 \/ k \in (n + 2)..WN(t)
    BY <1>1, <1>3
  <2>3. \A k \in 1..WN(t) : WRow(t, k) = WRow(t, n + 1) => k = n + 1
    BY <1>0, <1>3, TicRowsOK, WriteSetProps
  <2> QED BY <1>1, <1>3, <1>15, <2>1, <2>2, <2>3 DEF WRows
<1>17. HistoryKept' /\ IdsUsed'
  BY <1>2, <1>7, TicSameHistory
<1>18. \A y \in Row : row'[y].word.lock <=> (row[y].word.lock /\ y \notin TicHeld(t)) \/ y \in TicHeld(t)'
  <2>1. \A y \in Row : y \in TicHeld(t) => row[y].word.lock
    BY DEF TicInv, TicLocks
  <2> QED BY <1>3, <1>6, <1>16, <2>1
<1> QED BY <1>2, <1>7, <1>8, <1>9, <1>11, <1>12, <1>14, <1>16, <1>17, <1>18, TicQuietStep DEF TicThread

LEMMA TicInstallWord ==
  ASSUME TicInv, NEW t \in Thread, TT!InstallWord(t)
  PROVE  TicInv'
<1>0. /\ TicTypes /\ TicLoop(t) /\ Follows(t) /\ TicCurrent(t) /\ TicRows /\ TicAccess(t)
      /\ row \in [Row -> TicRowType] /\ local[t] \in TicLocalType
      /\ local \in [Thread -> TicLocalType] /\ Attempt(t) \in Ids /\ FrameTypes
      /\ HistoryKept /\ IdsUsed
  BY TicTyped DEF TicInv, TicThread, TicTypes
<1>1. /\ pc[t] = "word" /\ local[t].i < WN(t) /\ pc' = [pc EXCEPT ![t] = "install1"]
      /\ row' = [row EXCEPT ![WRow(t, local[t].i + 1)].word =
                    [lock |-> row[WRow(t, local[t].i + 1)].word.lock, wts |-> local[t].commit_wts, delta |-> 0]]
      /\ vers' = [vers EXCEPT ![WRow(t, local[t].i + 1)] = Append(vers[WRow(t, local[t].i + 1)], Attempt(t))]
      /\ local' = local /\ accesses' = accesses /\ tries' = tries /\ query' = query
      /\ hist' = hist
  <2>1. Len(WriteSet(t)) = WN(t)
    BY <1>0, TicRowsOK, WriteSetProps
  <2>2. row \in [Row -> TicRowType]
    BY <1>0
  <2> QED BY <2>1, <2>2, TicNames DEF TT!InstallWord, TT!Goto, TT!Word
<1>2. pc[t] \in TicInstalling /\ local[t].i < WN(t)
  BY <1>1 DEF TicInstalling
<1>3. PICK n \in Nat, r \in Row, id \in Ids, d \in Nat :
         n = local[t].i /\ r = WRow(t, n + 1) /\ id = Attempt(t) /\ d = local[t].commit_wts
  BY <1>0, <1>1, <1>2, TicInstallingRow DEF TicLocalType
<1>4. /\ n + 1 \in 1..WN(t) /\ WN(t) \in Nat
      /\ r \in TicHeld(t) /\ TicHeld(t) = WRows(t, n + 1, WN(t))
      /\ \A u \in Thread : r \in TicHeld(u) => u = t
  BY <1>2, <1>3, TicInstallingRow
<1>5. RowsOK(t)
  BY <1>0, TicRowsOK
<1>6. /\ row' = [row EXCEPT ![r].word = [lock |-> row[r].word.lock, wts |-> d, delta |-> 0]]
      /\ vers' = [vers EXCEPT ![r] = Append(vers[r], id)]
  BY <1>1, <1>3
<1>7. /\ row' \in [Row -> TicRowType]
      /\ \A y \in Row : row'[y].data = row[y].data /\ row'[y].word.lock = row[y].word.lock
      /\ \A y \in Row : y # r => row'[y] = row[y]
      /\ row'[r].word.wts = d
      /\ \A y \in Row : row[y].word.wts \in Nat
  <2>1. \A y \in Row : row[y] \in TicRowType /\ row[y].word \in TicWord /\ row[y].word.wts \in Nat
    BY <1>0, TicTyped
  <2>2. [lock |-> row[r].word.lock, wts |-> d, delta |-> 0] \in TicWord
    BY <2>1 DEF TicWord
  <2>3. /\ row'[r] = [row[r] EXCEPT !.word = [lock |-> row[r].word.lock, wts |-> d, delta |-> 0]]
        /\ \A y \in Row : y # r => row'[y] = row[y]
        /\ row' = [y \in Row |-> row'[y]]
    BY <1>0, <1>6
  <2>4. /\ row'[r] \in TicRowType /\ row'[r].data = row[r].data
        /\ row'[r].word = [lock |-> row[r].word.lock, wts |-> d, delta |-> 0]
    BY <2>1, <2>2, <2>3 DEF TicRowType
  <2>5. row' \in [Row -> TicRowType]
    BY <2>1, <2>3, <2>4
  <2>6. row'[r].word.lock = row[r].word.lock /\ row'[r].word.wts = d
    BY <2>4
  <2> QED BY <2>1, <2>3, <2>4, <2>5, <2>6, Zenon
<1>8. /\ vers' \in [Row -> Seq(Ids)] /\ VersionsGrow
      /\ Latest(r)' = id
      /\ \A y \in Row : y # r => vers'[y] = vers[y]
      /\ \A m \in 1..Len(vers'[r]) : m \in 1..Len(vers[r]) \/ m = Len(vers[r]) + 1
      /\ vers'[r][Len(vers[r]) + 1] = id
      /\ \A y \in Row : \A x : HasVersion(y, x)' => HasVersion(y, x) \/ (y = r /\ x = id)
      /\ \A x : x = Latest(r) => Replaced(r, x, id)'
  <2>1. vers[r] # <<>>
    BY <1>0 DEF HistoryKept
  <2> QED BY <1>0, <1>6, <2>1, AppendVersion
<1>9. pc'[t] = "install1" /\ TicTypes' /\ OnlyThread(t) /\ FrameTypes'
  <2>1. pc' \in [Thread -> TicPcs] /\ pc'[t] = "install1"
    BY <1>0, <1>1 DEF TicTypes, TicPcs, TicInstalling
  <2>2. FrameTypes'
    BY <1>0, <1>1, <1>8 DEF FrameTypes
  <2>3. OnlyThread(t)
    BY <1>0, <1>1 DEF OnlyThread, TicTypes
  <2> QED BY <1>0, <1>1, <1>7, <2>1, <2>2, <2>3 DEF TicTypes, TicPcs, TicRowType
<1>10. /\ WN(t)' = WN(t) /\ RN(t)' = RN(t) /\ WriteSet(t)' = WriteSet(t)
       /\ \A k : WRow(t, k)' = WRow(t, k)
       /\ \A a, b : WRows(t, a, b)' = WRows(t, a, b)
  BY <1>1, SetsKept
<1>11. TicDone(t) = n /\ TicDone(t)' = n + 1
  BY <1>1, <1>3, <1>9 DEF TicDone, TicInstalling
<1>12. d > row[r].word.wts
  <2>1. n + 1 \in (TicDone(t) + 1)..WN(t)
    BY <1>3, <1>4, <1>11
  <2> QED BY <1>0, <1>2, <1>3, <2>1 DEF TicCurrent
<1>14. \A y \in Row : \A x : HasVersion(y, x) => HasVersion(y, x)'
  BY <1>0, <1>8, <1>9, VersionLemma
<1>15. \A y \in Row : \A x, z : Replaced(y, x, z) => Replaced(y, x, z)'
  BY <1>0, <1>8, <1>9, VersionLemma
<1>16. Follows(t)' /\ TicLoop(t)' /\ TicCopy(t)' /\ TicFresh(t)' /\ TicSwap(t)'
  <2>1. pc'[t] \in TicInstalling /\ pc'[t] \notin TicCopying /\ pc'[t] \notin TicLocking
    BY <1>9 DEF TicInstalling, TicCopying, TicLocking
  <2>2. Follows(t)'
    BY <1>0, <1>1, <1>9 DEF Follows
  <2>3. TicLoop(t)'
    BY <1>0, <1>1, <1>2, <1>9, <1>10, <2>1 DEF TicLoop
  <2>4. TicSwap(t)'
    BY <1>9 DEF TicSwap
  <2> QED BY <2>1, <2>2, <2>3, <2>4 DEF TicCopy, TicFresh
<1>17. TicAccess(t)'
  <2> SUFFICES ASSUME NEW i \in 1..Len(accesses[t])
               PROVE  /\ accesses[t][i].wts <= accesses[t][i].rts
                      /\ accesses[t][i].wts <= row'[accesses[t][i].row].word.wts
                      /\ HasVersion(accesses[t][i].row, accesses[t][i].data[1])'
                      /\ accesses[t][i].wts = row'[accesses[t][i].row].word.wts =>
                            accesses[t][i].data[1] = Latest(accesses[t][i].row)'
    BY <1>1 DEF TicAccess
  <2>1. PICK y \in Row, x \in Ids, c \in Nat :
           y = accesses[t][i].row /\ x = accesses[t][i].data[1] /\ c = accesses[t][i].wts
    BY <1>0, TicTyped
  <2>2. /\ c <= row[y].word.wts /\ HasVersion(y, x) /\ (c = row[y].word.wts => x = Latest(y))
        /\ accesses[t][i].wts <= accesses[t][i].rts
    BY <1>0, <2>1 DEF TicAccess
  <2>3. y = accesses'[t][i].row /\ x = accesses'[t][i].data[1]
    BY <1>1, <2>1
  <2>4. HasVersion(y, x)'
    BY <1>14, <2>2
  <2>5. CASE y = r
    <3>1. c <= row'[y].word.wts /\ c # row'[y].word.wts
      BY <1>7, <1>12, <2>2, <2>5
    <3> QED BY <2>1, <2>2, <2>3, <2>4, <3>1
  <2>6. CASE y # r
    <3>1. row'[y] = row[y] /\ Latest(y)' = Latest(y)
      BY <1>7, <1>8, <2>6 DEF Latest
    <3> QED BY <2>1, <2>2, <2>3, <2>4, <3>1
  <2> QED BY <2>5, <2>6
<1>18. TicCurrent(t)'
  <2>1. ASSUME NEW k \in (n + 1 + 1)..WN(t)
        PROVE  /\ accesses'[t][WriteSet(t)'[k]].wts = row'[WRow(t, k)'].word.wts
               /\ local'[t].commit_wts > row'[WRow(t, k)'].word.wts
    <3>1. k \in (TicDone(t) + 1)..WN(t) /\ k \in 1..WN(t) /\ k # n + 1
      BY <1>3, <1>4, <1>11
    <3>2. /\ accesses[t][WriteSet(t)[k]].wts = row[WRow(t, k)].word.wts
          /\ local[t].commit_wts > row[WRow(t, k)].word.wts
      BY <1>0, <1>2, <3>1 DEF TicCurrent
    <3>3. WRow(t, k) \in Row /\ WRow(t, k) # r
      BY <1>3, <1>4, <1>5, <3>1, WriteSetProps
    <3> QED BY <1>1, <1>7, <1>10, <3>2, <3>3
  <2>2. ASSUME NEW k \in 1..(n + 1)
        PROVE  Replaced(WRow(t, k), accesses[t][WriteSet(t)[k]].data[1], Attempt(t))'
    <3>1. k \in 1..WN(t)
      BY <1>3, <1>4
    <3>2. PICK y \in Row, x \in Ids : y = WRow(t, k) /\ x = accesses[t][WriteSet(t)[k]].data[1]
      BY <1>0, <1>5, <3>1, WriteSetProps, TicTyped
    <3>3. y = WRow(t, k)' /\ x = accesses'[t][WriteSet(t)'[k]].data[1] /\ Attempt(t)' = id
      BY <1>1, <1>3, <1>10, <3>2 DEF Attempt
    <3>4. Replaced(y, x, id)'
      <4>1. CASE k \in 1..n
        <5>1. Replaced(y, x, id)
          BY <1>0, <1>2, <1>3, <1>11, <3>2, <4>1 DEF TicCurrent
        <5> QED BY <1>15, <5>1
      <4>2. CASE k = n + 1
        <5>1. k \in (TicDone(t) + 1)..WN(t)
          BY <1>3, <1>4, <1>11, <4>2
        <5>2. accesses[t][WriteSet(t)[k]].wts = row[y].word.wts /\ y = r
          BY <1>0, <1>2, <1>3, <3>2, <4>2, <5>1 DEF TicCurrent
        <5>3. WriteSet(t)[k] \in 1..Len(accesses[t]) /\ accesses[t][WriteSet(t)[k]].row = y
          BY <1>5, <3>1, <3>2, WriteSetProps DEF WRow
        <5>4. x = Latest(r)
          BY <1>0, <3>2, <5>2, <5>3 DEF TicAccess
        <5> QED BY <1>8, <5>2, <5>4
      <4> QED BY <1>3, <4>1, <4>2
    <3> QED BY <3>2, <3>3, <3>4
  <2>3. pc'[t] \notin {"lock", "reads", "cas"}
    BY <1>9
  <2> QED BY <1>10, <1>11, <2>1, <2>2, <2>3 DEF TicCurrent
<1>19. TicHeld(t)' = TicHeld(t)
  <2>1. TicHeld(t)' = WRows(t, n + 1, WN(t))
    BY <1>1, <1>3, <1>9, <1>10 DEF TicHeld, TicLocking, TicInstalling
  <2> QED BY <1>4, <2>1
<1>20. TicLocks'
  <2>1. TicHeld(t)' \subseteq Row
    BY <1>19, TicHeldRows DEF TicInv, TicThread
  <2>2. \A y \in Row : y \in TicHeld(t) => row[y].word.lock
    BY DEF TicInv, TicLocks
  <2>3. \A y \in Row : row'[y].word.lock <=> (row[y].word.lock /\ y \notin TicHeld(t)) \/ y \in TicHeld(t)'
    BY <1>7, <1>19, <2>2
  <2> QED BY <1>9, <1>19, <2>1, <2>3, TicLocksStep
<1>21. /\ \A y : TicDirty(t, y)' <=> y = r
       /\ \A y : ~TicDirty(t, y)
  BY <1>1, <1>3, <1>9, <1>10 DEF TicDirty
<1>22. \A u \in Thread : u # t => \A y : TicDirty(u, y)' <=> TicDirty(u, y)
  BY <1>9, TicOwn DEF OnlyThread
<1>23. \A u \in Thread : u # t => ~TicDirty(u, r)
  BY <1>4, TicDirtyHeld
<1>24. TicRows'
  <2>1. ASSUME NEW y \in Row, TicClean(y)'
        PROVE  \A g \in 1..2 : row'[y].data[g] = Latest(y)'
    <3>1. CASE y = r
      BY <1>21, <2>1, <3>1 DEF TicClean
    <3>2. CASE y # r
      <4>1. TicClean(y)
        BY <1>21, <1>22, <2>1, <3>2 DEF TicClean
      <4>2. row'[y] = row[y] /\ Latest(y)' = Latest(y)
        BY <1>7, <1>8, <3>2 DEF Latest
      <4>3. \A g \in 1..2 : row[y].data[g] = Latest(y)
        BY <1>0, <4>1 DEF TicRows
      <4> QED BY <4>2, <4>3
    <3> QED BY <3>1, <3>2
  <2>2. ASSUME NEW u \in Thread, NEW y \in Row, TicDirty(u, y)'
        PROVE  Latest(y)' = Attempt(u)' /\ (pc'[u] = "install2" => row'[y].data[1] = Attempt(u)')
    <3>1. CASE u = t
      <4>1. y = r /\ pc'[u] = "install1" /\ Attempt(u)' = id
        BY <1>1, <1>3, <1>9, <1>21, <2>2, <3>1 DEF Attempt
      <4> QED BY <1>8, <4>1
    <3>2. CASE u # t
      <4>1. TicDirty(u, y) /\ y # r
        BY <1>22, <1>23, <2>2, <3>2
      <4>2. pc'[u] = pc[u] /\ Attempt(u)' = Attempt(u)
        BY <1>9, <3>2 DEF OnlyThread, Attempt
      <4>3. row'[y] = row[y] /\ Latest(y)' = Latest(y)
        BY <1>7, <1>8, <4>1 DEF Latest
      <4> QED BY <1>0, <4>1, <4>2, <4>3 DEF TicRows
    <3> QED BY <3>1, <3>2
  <2> QED BY <2>1, <2>2 DEF TicRows
<1>25. TicEffect(t)
  <2>1. \A y \in Row : row'[y].word.wts >= row[y].word.wts
    BY <1>3, <1>7, <1>12
  <2>2. \A y \in Row : row'[y].word.wts = row[y].word.wts => y # r
    BY <1>3, <1>7, <1>12
  <2>3. \A u \in Thread \ {t} : \A y \in TicHeld(u) : row'[y].word.wts = row[y].word.wts
    <3> SUFFICES ASSUME NEW u \in Thread, u # t, NEW y \in TicHeld(u) PROVE row'[y].word.wts = row[y].word.wts
      OBVIOUS
    <3>1. y \in Row /\ y # r
      BY <1>4, TicHeldRows DEF TicInv, TicThread
    <3> QED BY <1>7, <3>1
  <2>4. \A y \in Row : \A m \in 1..Len(vers'[y]) : m \in 1..Len(vers[y]) \/ vers'[y][m] = Attempt(t)
    BY <1>3, <1>8
  <2>5. \A y \in Row : row'[y].word.wts = row[y].word.wts => vers'[y] = vers[y] /\ ~TicDirty(t, y)'
    BY <1>8, <1>21, <2>2
  <2> QED BY <1>8, <1>9, <2>1, <2>3, <2>4, <2>5 DEF TicEffect
<1>26. HistoryKept'
  <2>1. \A y \in Row : vers'[y] # <<>>
    <3> SUFFICES ASSUME NEW y \in Row PROVE vers'[y] # <<>>
      OBVIOUS
    <3>1. vers[y] # <<>> /\ Len(vers[y]) \in Nat /\ vers[y] \in Seq(Ids)
      BY <1>0 DEF HistoryKept, FrameTypes
    <3>2. Len(vers[y]) # 0 /\ Len(vers[y]) <= Len(vers'[y]) /\ Len(vers'[y]) \in Nat
      BY <1>8, <3>1 DEF VersionsGrow
    <3>3. Len(vers'[y]) # 0
      BY <3>1, <3>2
    <3> QED BY <3>3
  <2>2. \A h \in hist : h \in [id : Ids, reads : SUBSET (Row \X Ids), writes : SUBSET Row]
    BY <1>0 DEF FrameTypes
  <2>3. \A h \in hist : \A y \in h.writes : y \in Row
    BY <2>2
  <2>4. \A h \in hist : \A y \in Row, x \in Ids : <<y, x>> \in h.reads => HasVersion(y, x)'
    BY <1>0, <1>14 DEF HistoryKept
  <2>5. ASSUME NEW h \in hist, NEW y \in h.writes
        PROVE  \E x \in Ids : <<y, x>> \in h.reads /\ Replaced(y, x, h.id)'
    <3>1. PICK x \in Ids : <<y, x>> \in h.reads /\ Replaced(y, x, h.id)
      BY <1>0 DEF HistoryKept
    <3>2. y \in Row
      BY <2>3
    <3>3. Replaced(y, x, h.id)'
      BY <1>15, <3>1, <3>2
    <3> QED BY <3>1, <3>3
  <2>6. \A h, k \in hist : h.id = k.id => h = k
    BY <1>0 DEF HistoryKept
  <2> QED BY <1>1, <2>1, <2>4, <2>5, <2>6 DEF HistoryKept
<1>27. IdsUsed'
  <2>1. \A u \in Thread, m \in Nat, y \in Row : HasVersion(y, <<u, m>>)' => m <= tries[u]
    <3> SUFFICES ASSUME NEW u \in Thread, NEW m \in Nat, NEW y \in Row, HasVersion(y, <<u, m>>)'
                 PROVE  m <= tries[u]
      OBVIOUS
    <3>1. HasVersion(y, <<u, m>>) \/ <<u, m>> = Attempt(t)
      BY <1>3, <1>8
    <3>2. CASE HasVersion(y, <<u, m>>)
      BY <1>0, <3>2 DEF IdsUsed
    <3>3. CASE <<u, m>> = Attempt(t)
      BY <3>3 DEF Attempt
    <3> QED BY <3>1, <3>2, <3>3
  <2>2. \A u \in Thread : pc'[u] # "idle" => pc[u] # "idle" /\ Attempt(u)' = Attempt(u)
    BY <1>1, <1>9 DEF OnlyThread, Attempt
  <2> QED BY <1>0, <1>1, <2>1, <2>2 DEF IdsUsed
<1>28. TicThread(t)'
  BY <1>16, <1>17, <1>18 DEF TicThread
<1> QED BY <1>9, <1>20, <1>24, <1>25, <1>26, <1>27, <1>28, TicLoudStep

LEMMA TicInstallHalf ==
  ASSUME TicInv, NEW t \in Thread, NEW h \in 1..2, TT!InstallHalf(t, h)
  PROVE  TicInv'
<1> DEFINE from == <<"install1", "install2">>[h]
           to == <<"install2", "release">>[h]
<1>0. /\ TicTypes /\ TicLoop(t) /\ Follows(t) /\ TicCurrent(t) /\ TicRows
      /\ row \in [Row -> TicRowType] /\ local[t] \in TicLocalType
      /\ local \in [Thread -> TicLocalType] /\ Attempt(t) \in Ids
  BY TicTyped DEF TicInv, TicThread, TicTypes
<1>1. \/ h = 1 /\ from = "install1" /\ to = "install2"
      \/ h = 2 /\ from = "install2" /\ to = "release"
  OBVIOUS
<1>2. /\ pc[t] = from /\ pc' = [pc EXCEPT ![t] = to]
      /\ row' = [row EXCEPT ![WRow(t, local[t].i + 1)].data[h] = Attempt(t)]
      /\ local' = local /\ accesses' = accesses /\ tries' = tries /\ query' = query
      /\ hist' = hist /\ vers' = vers
  BY TicNames DEF TT!InstallHalf, TT!Goto
<1> HIDE DEF from, to
<1>3. from \in TicInstalling /\ to \in TicInstalling /\ local[t].i < WN(t)
  BY <1>0, <1>1, <1>2 DEF TicInstalling, TicLoop
<1>4. PICK n \in Nat, r \in Row, id \in Ids : n = local[t].i /\ r = WRow(t, n + 1) /\ id = Attempt(t)
  BY <1>0, <1>2, <1>3, TicInstallingRow DEF TicLocalType
<1>5. /\ n + 1 \in 1..WN(t) /\ WN(t) \in Nat
      /\ r \in TicHeld(t) /\ TicHeld(t) = WRows(t, n + 1, WN(t))
      /\ \A u \in Thread : r \in TicHeld(u) => u = t
  BY <1>2, <1>3, <1>4, TicInstallingRow
<1>6. /\ row' \in [Row -> TicRowType]
      /\ \A y \in Row : row'[y].word.wts = row[y].word.wts /\ row'[y].word.lock = row[y].word.lock
      /\ \A y \in Row : y # r => row'[y] = row[y]
      /\ row'[r].data[h] = id
      /\ \A g \in 1..2 : g # h => row'[r].data[g] = row[r].data[g]
  <2>1. row' = [row EXCEPT ![r].data[h] = id]
    BY <1>2, <1>4
  <2>2. \A y \in Row : row[y] \in TicRowType /\ row[y].data \in Copies
    BY <1>0, TicTyped
  <2>3. /\ row'[r] = [row[r] EXCEPT !.data = [row[r].data EXCEPT ![h] = id]]
        /\ \A y \in Row : y # r => row'[y] = row[y]
        /\ row' = [y \in Row |-> row'[y]]
    BY <1>0, <2>1
  <2>4. [row[r].data EXCEPT ![h] = id] \in Copies
    BY <2>2 DEF Copies
  <2>5. /\ row'[r] \in TicRowType /\ row'[r].word = row[r].word
        /\ row'[r].data = [row[r].data EXCEPT ![h] = id]
    BY <2>2, <2>3, <2>4 DEF TicRowType
  <2>6. row'[r].data[h] = id /\ \A g \in 1..2 : g # h => row'[r].data[g] = row[r].data[g]
    BY <2>2, <2>5 DEF Copies
  <2>7. row' \in [Row -> TicRowType]
    BY <2>2, <2>3, <2>5
  <2> QED BY <2>3, <2>5, <2>6, <2>7
<1>7. TicTypes' /\ OnlyThread(t) /\ pc'[t] = to /\ local'[t] = local[t]
  <2>1. to \in TicPcs /\ local' = [local EXCEPT ![t] = local[t]]
    BY <1>0, <1>2, <1>3 DEF TicPcs
  <2>2. /\ accesses' = accesses /\ tries' = tries /\ query' = query
        /\ hist' = hist /\ vers' = vers /\ pc' = [pc EXCEPT ![t] = to]
    BY <1>2
  <2> QED BY <1>0, <1>6, <2>1, <2>2, TicTypesStep
<1>8. pc[t] # "idle" /\ pc'[t] # "idle"
  BY <1>1, <1>2, <1>7
<1>9. Follows(t)' /\ TicAccess(t)' /\ TicFresh(t)'
  BY <1>2, <1>3, <1>6, <1>7, <1>8, TicKeepTxn
<1>10. /\ WN(t)' = WN(t) /\ RN(t)' = RN(t) /\ WriteSet(t)' = WriteSet(t)
       /\ \A k : WRow(t, k)' = WRow(t, k)
       /\ \A a, b : WRows(t, a, b)' = WRows(t, a, b)
  BY <1>2, SetsKept
<1>11. TicLoop(t)' /\ TicCopy(t)' /\ TicSwap(t)'
  BY <1>0, <1>1, <1>2, <1>3, <1>7, <1>10 DEF TicLoop, TicCopy, TicSwap, TicCopying, TicLocking, TicInstalling
<1>12. TicDone(t) = n + 1 /\ TicDone(t)' = n + 1
  BY <1>1, <1>2, <1>3, <1>4, <1>7 DEF TicDone
<1>13. TicCurrent(t)'
  <2>1. ASSUME NEW k \in (n + 1 + 1)..WN(t)
        PROVE  /\ accesses'[t][WriteSet(t)'[k]].wts = row'[WRow(t, k)'].word.wts
               /\ local'[t].commit_wts > row'[WRow(t, k)'].word.wts
    <3>1. /\ accesses[t][WriteSet(t)[k]].wts = row[WRow(t, k)].word.wts
          /\ local[t].commit_wts > row[WRow(t, k)].word.wts
      BY <1>0, <1>2, <1>3, <1>12 DEF TicCurrent
    <3>2. k \in 1..WN(t)
      BY <1>4, <1>5
    <3>3. WRow(t, k) \in Row
      BY <1>0, <3>2, TicRowsOK, WriteSetProps
    <3> QED BY <1>2, <1>6, <1>10, <3>1, <3>3
  <2>2. ASSUME NEW k \in 1..(n + 1)
        PROVE  Replaced(WRow(t, k), accesses[t][WriteSet(t)[k]].data[1], Attempt(t))'
    <3>1. Replaced(WRow(t, k), accesses[t][WriteSet(t)[k]].data[1], Attempt(t))
      BY <1>0, <1>2, <1>3, <1>12 DEF TicCurrent
    <3> QED BY <1>2, <1>10, <3>1 DEF Replaced, Attempt
  <2>3. pc'[t] \notin {"lock", "reads", "cas"}
    BY <1>1, <1>7
  <2> QED BY <1>10, <1>12, <2>1, <2>2, <2>3 DEF TicCurrent
<1>14. TicHeld(t)' = TicHeld(t)
  <2>1. TicHeld(t)' = WRows(t, n + 1, WN(t))
    BY <1>1, <1>4, <1>7, <1>10 DEF TicHeld, TicLocking, TicInstalling
  <2> QED BY <1>5, <2>1
<1>15. TicLocks'
  <2>1. TicHeld(t)' \subseteq Row
    BY <1>14, TicHeldRows DEF TicInv, TicThread
  <2>2. \A y \in Row : y \in TicHeld(t) => row[y].word.lock
    BY DEF TicInv, TicLocks
  <2>3. \A y \in Row : row'[y].word.lock <=> (row[y].word.lock /\ y \notin TicHeld(t)) \/ y \in TicHeld(t)'
    BY <1>6, <1>14, <2>2
  <2> QED BY <1>7, <1>14, <2>1, <2>3, TicLocksStep
<1>16. /\ \A y : TicDirty(t, y)' <=> h = 1 /\ y = r
       /\ \A y : TicDirty(t, y) <=> y = r
  BY <1>1, <1>2, <1>4, <1>7, <1>10 DEF TicDirty
<1>17. \A u \in Thread : u # t => \A y : TicDirty(u, y)' <=> TicDirty(u, y)
  BY <1>7, TicOwn DEF OnlyThread
<1>18. \A u \in Thread : u # t => ~TicDirty(u, r)
  BY <1>5, TicDirtyHeld
<1>19. TicRows'
  <2>1. ASSUME NEW y \in Row, TicClean(y)'
        PROVE  \A g \in 1..2 : row'[y].data[g] = Latest(y)'
    <3>1. CASE y = r
      <4>1. h = 2 /\ pc[t] = "install2"
        BY <1>1, <1>2, <1>16, <2>1, <3>1 DEF TicClean
      <4>2. Latest(r) = id /\ row[r].data[1] = id
        BY <1>0, <1>4, <1>16, <4>1 DEF TicRows
      <4>3. Latest(r)' = id
        BY <1>2, <4>2 DEF Latest
      <4>4. row'[r].data[1] = id /\ row'[r].data[2] = id
        BY <1>6, <4>1, <4>2
      <4> QED BY <3>1, <4>3, <4>4
    <3>2. CASE y # r
      <4>1. TicClean(y)
        BY <1>16, <1>17, <2>1, <3>2 DEF TicClean
      <4>2. row'[y] = row[y] /\ Latest(y)' = Latest(y)
        BY <1>2, <1>6, <3>2 DEF Latest
      <4>3. \A g \in 1..2 : row[y].data[g] = Latest(y)
        BY <1>0, <4>1 DEF TicRows
      <4> QED BY <4>2, <4>3
    <3> QED BY <3>1, <3>2
  <2>2. ASSUME NEW u \in Thread, NEW y \in Row, TicDirty(u, y)'
        PROVE  Latest(y)' = Attempt(u)' /\ (pc'[u] = "install2" => row'[y].data[1] = Attempt(u)')
    <3>1. CASE u = t
      <4>1. y = r /\ Attempt(u)' = id /\ h = 1
        BY <1>2, <1>4, <1>16, <2>2, <3>1 DEF Attempt
      <4>2. Latest(r) = id
        BY <1>0, <1>4, <1>16 DEF TicRows
      <4>3. Latest(r)' = id
        BY <1>2, <4>2 DEF Latest
      <4> QED BY <1>6, <4>1, <4>3
    <3>2. CASE u # t
      <4>1. TicDirty(u, y) /\ y # r
        BY <1>17, <1>18, <2>2, <3>2
      <4>2. pc'[u] = pc[u] /\ Attempt(u)' = Attempt(u)
        BY <1>7, <3>2 DEF OnlyThread, Attempt
      <4>3. Latest(y)' = Latest(y)
        BY <1>2 DEF Latest
      <4> QED BY <1>0, <1>6, <4>1, <4>2, <4>3 DEF TicRows
    <3> QED BY <3>1, <3>2
  <2> QED BY <2>1, <2>2 DEF TicRows
<1>20. TicEffect(t)
  <2>1. VersionsGrow
    <3>1. \A y \in Row : Len(vers[y]) \in Nat
      BY <1>0 DEF TicTypes, FrameTypes
    <3> QED BY <1>2, <3>1 DEF VersionsGrow
  <2>2. \A y \in Row : row[y].word.wts \in Nat
    BY <1>0, TicTyped
  <2>3. \A u \in Thread \ {t} : \A y \in TicHeld(u) : row'[y].word.wts = row[y].word.wts
    BY <1>6, TicHeldRows DEF TicInv, TicThread
  <2>4. \A y : TicDirty(t, y)' => TicDirty(t, y)
    BY <1>16
  <2> QED BY <1>2, <1>6, <1>7, <2>1, <2>2, <2>3, <2>4 DEF TicEffect
<1>21. HistoryKept' /\ IdsUsed'
  BY <1>2, <1>7, <1>8, TicSameHistory
<1>22. TicThread(t)'
  BY <1>9, <1>11, <1>13 DEF TicThread
<1> QED BY <1>7, <1>15, <1>19, <1>20, <1>21, <1>22, TicLoudStep

\* The end of an attempt.
LEMMA TicFinished ==
  ASSUME TicTypes, NEW t \in Thread, NEW w \in TicLocalType,
         pc' = [pc EXCEPT ![t] = "idle"], local' = [local EXCEPT ![t] = w],
         accesses' = [accesses EXCEPT ![t] = <<>>], query' = [query EXCEPT ![t] = <<>>],
         row' \in [Row -> TicRowType], tries' = tries, vers' = vers, hist' \subseteq Entries
  PROVE  TicTypes' /\ OnlyThread(t) /\ pc'[t] = "idle" /\ TicHeld(t)' = {} /\ TicThread(t)'
<1>1. pc \in [Thread -> TicPcs] /\ local \in [Thread -> TicLocalType]
      /\ accesses \in [Thread -> Seq(TicAccessType)] /\ query \in [Thread -> Seq(Requests)]
  BY DEF TicTypes, FrameTypes
<1>2. /\ pc' \in [Thread -> TicPcs] /\ local' \in [Thread -> TicLocalType]
      /\ accesses' \in [Thread -> Seq(TicAccessType)] /\ query' \in [Thread -> Seq(Requests)]
  <2>1. <<>> \in Seq(TicAccessType) /\ <<>> \in Seq(Requests) /\ "idle" \in TicPcs
    BY DEF TicPcs
  <2> QED BY <1>1, <2>1
<1>3. FrameTypes'
  BY <1>2 DEF TicTypes, FrameTypes, Entries
<1>4. TicTypes'
  BY <1>2, <1>3 DEF TicTypes
<1>5. OnlyThread(t) /\ pc'[t] = "idle" /\ accesses'[t] = <<>> /\ query'[t] = <<>>
  BY <1>1 DEF OnlyThread
<1>6. Follows(t)' /\ TicAccess(t)'
  <2>1. Len(accesses'[t]) = 0 /\ Len(query'[t]) = 0
    BY <1>5
  <2>2. 1..Len(accesses'[t]) = {} /\ 1..Len(query'[t]) = {} /\ Len(accesses'[t]) <= Len(query'[t])
    BY <2>1
  <2> QED BY <1>5, <2>2 DEF Follows, TicAccess, RowsDiffer
<1>7. TicLoop(t)' /\ TicCopy(t)' /\ TicCurrent(t)' /\ TicFresh(t)' /\ TicSwap(t)'
  BY <1>5 DEF TicLoop, TicSwap, TicCopy, TicCurrent, TicFresh, TicCopying, TicLocking, TicInstalling
<1>8. TicHeld(t)' = {}
  BY <1>5 DEF TicHeld, TicLocking, TicInstalling
<1> QED BY <1>4, <1>5, <1>6, <1>7, <1>8 DEF TicThread

\* What cleanup leaves in the thread.
LEMMA TicReset ==
  TT!InitialLocal \in TicLocalType
<1>1. [h \in TT!Half |-> TT!Loaded] \in Copies
  BY TicNames DEF Copies, Ids
<1>2. TT!Word(FALSE, 0, 0) \in TicWord
  BY DEF TT!Word, TicWord
<1> QED BY <1>1, <1>2 DEF TT!InitialLocal, TicLocalType

LEMMA TicCommit ==
  ASSUME TicInv, NEW t \in Thread, TT!Commit(t)
  PROVE  TicInv'
<1>0. /\ TicTypes /\ TicLoop(t) /\ Follows(t) /\ TicCurrent(t) /\ TicAccess(t)
      /\ row \in [Row -> TicRowType] /\ FrameTypes /\ HistoryKept /\ IdsUsed
      /\ hist \subseteq Entries
  BY DEF TicInv, TicThread, TicTypes, FrameTypes, Entries
<1>1. RowsOK(t)
  BY <1>0, TicRowsOK
<1> DEFINE w == TT!InitialLocal
<1>2. /\ pc[t] = "word" /\ local[t].i = WN(t) /\ pc' = [pc EXCEPT ![t] = "idle"]
      /\ accesses' = [accesses EXCEPT ![t] = <<>>] /\ query' = [query EXCEPT ![t] = <<>>]
      /\ local' = [local EXCEPT ![t] = w]
      /\ row' = row /\ tries' = tries /\ vers' = vers
  <2>1. Len(WriteSet(t)) = WN(t)
    BY <1>1, WriteSetProps
  <2> QED BY <2>1, TicNames DEF TT!Commit, TT!Committed, TT!Finished, TT!Goto, TT!Set
<1>3. hist' = hist \cup {Entry(t)}
  BY TicNames DEF TT!Commit, TT!Committed, Entry
<1>4. w \in TicLocalType
  BY TicReset
<1> HIDE DEF w
<1>5. tries[t] > 0 /\ pc[t] # "idle"
  BY <1>0, <1>2 DEF Follows
<1>6. pc'[t] = "idle" /\ OnlyThread(t)
  BY <1>0, <1>2 DEF TicTypes, FrameTypes, OnlyThread
<1>7. \A i \in 1..Len(accesses[t]) :
         /\ accesses[t][i].row \in Row /\ accesses[t][i].data[1] \in Ids
         /\ HasVersion(accesses[t][i].row, accesses[t][i].data[1])
  BY <1>0, TicTyped DEF TicAccess
<1>8. WN(t) \in Nat /\ TicDone(t) = WN(t)
  BY <1>1, <1>2, WriteSetProps DEF TicDone, TicInstalling
<1>9. ASSUME NEW i \in Of(t, "WR")
      PROVE  Replaced(accesses[t][i].row, accesses[t][i].data[1], Attempt(t))
  <2>1. PICK a \in 1..WN(t) : WriteSet(t)[a] = i
    BY <1>1, WriteSetProps
  <2>2. Replaced(WRow(t, a), accesses[t][WriteSet(t)[a]].data[1], Attempt(t))
    BY <1>0, <1>2, <1>8 DEF TicCurrent, TicInstalling
  <2> QED BY <2>1, <2>2 DEF WRow
<1>10. HistoryKept' /\ IdsUsed' /\ hist' \subseteq Entries
  BY <1>0, <1>2, <1>3, <1>5, <1>6, <1>7, <1>9, CommitKeepsHistory
<1>11. TicTypes' /\ TicHeld(t)' = {} /\ TicThread(t)'
  BY <1>0, <1>2, <1>4, <1>10, TicFinished
<1>12. TicQuiet
  BY <1>2 DEF TicQuiet
<1>13. TicHeld(t) = {}
  <2>1. (WN(t) + 1)..WN(t) = {}
    BY <1>8
  <2> QED BY <1>2, <2>1 DEF TicHeld, TicLocking, TicInstalling, WRows
<1> QED BY <1>2, <1>3, <1>6, <1>10, <1>11, <1>12, <1>13, TicQuietStep

LEMMA TicAbort ==
  ASSUME TicInv, NEW t \in Thread, TT!Abort(t)
  PROVE  TicInv'
<1>0. TicTypes /\ FrameTypes /\ hist \subseteq Entries
  BY DEF TicInv, TicTypes, FrameTypes, Entries
<1> DEFINE w == TT!InitialLocal
<1>1. /\ pc[t] = "abort" /\ pc' = [pc EXCEPT ![t] = "idle"]
      /\ row' = [r \in Row |-> IF r \in TicHeld(t) THEN [row[r] EXCEPT !.word.lock = FALSE] ELSE row[r]]
      /\ accesses' = [accesses EXCEPT ![t] = <<>>] /\ query' = [query EXCEPT ![t] = <<>>]
      /\ local' = [local EXCEPT ![t] = w]
      /\ tries' = tries /\ vers' = vers /\ hist' = hist
  BY TicNames DEF TT!Abort, TT!Aborted, TT!Finished, TT!Goto, TT!Set, TT!Unlock,
                  TicHeld, TicLocking
<1>2. w \in TicLocalType
  BY TicReset
<1> HIDE DEF w
<1>3. /\ row' \in [Row -> TicRowType]
      /\ \A r \in Row : row'[r].word.wts = row[r].word.wts /\ row'[r].data = row[r].data
      /\ \A r \in Row : row'[r].word.lock <=> row[r].word.lock /\ r \notin TicHeld(t)
  BY <1>0, <1>1, TicUnlock
<1>4. TicTypes' /\ OnlyThread(t) /\ pc'[t] = "idle" /\ TicHeld(t)' = {} /\ TicThread(t)'
  BY <1>0, <1>1, <1>2, <1>3, TicFinished
<1>5. TicQuiet
  BY <1>1, <1>3 DEF TicQuiet
<1>6. HistoryKept' /\ IdsUsed'
  BY <1>1, <1>4, TicSameHistory
<1> QED BY <1>1, <1>3, <1>4, <1>5, <1>6, TicQuietStep

LEMMA TicStart ==
  ASSUME TT!Init
  PROVE  TicInv
<1>0. /\ row = [r \in Row |-> [word |-> TT!Word(FALSE, 0, 0), data |-> [h \in 1..2 |-> Loaded]]]
      /\ local = [t \in Thread |-> TT!InitialLocal]
  BY TicNames DEF TT!Init, TT!FrameInit, TT!InitialRow
<1>1. /\ pc = [t \in Thread |-> "idle"] /\ tries = [t \in Thread |-> 0]
      /\ query = [t \in Thread |-> <<>>] /\ accesses = [t \in Thread |-> <<>>]
      /\ hist = {} /\ vers = [r \in Row |-> <<Loaded>>]
  BY TicNames DEF TT!Init, TT!FrameInit
<1>2. Loaded \in Ids /\ [h \in 1..2 |-> Loaded] \in Copies
  BY DEF Ids, Copies
<1>3. TicTypes
  <2>1. /\ <<>> \in Seq(Requests) /\ <<Loaded>> \in Seq(Ids)
        /\ <<>> \in Seq(TicAccessType) /\ "idle" \in TicPcs
    BY <1>2 DEF TicPcs
  <2>2. FrameTypes
    BY <1>1, <2>1 DEF FrameTypes
  <2>3. TT!Word(FALSE, 0, 0) \in TicWord
    BY DEF TT!Word, TicWord
  <2>4. [word |-> TT!Word(FALSE, 0, 0), data |-> [h \in 1..2 |-> Loaded]] \in TicRowType
    BY <1>2, <2>3 DEF TicRowType
  <2>5. row \in [Row -> TicRowType] /\ local \in [Thread -> TicLocalType]
    BY <1>0, <2>4, TicReset
  <2> QED BY <1>1, <2>1, <2>2, <2>5 DEF TicTypes
<1>4. \A r \in Row : vers[r] = <<Loaded>> /\ Len(vers[r]) = 1 /\ vers[r][1] = Loaded
  BY <1>1
<1>5. \A r \in Row : Latest(r) = Loaded /\ \A x : HasVersion(r, x) => x = Loaded
  BY <1>4 DEF Latest, HasVersion
<1>6. \A t \in Thread :
         /\ pc[t] = "idle" /\ accesses[t] = <<>> /\ query[t] = <<>> /\ tries[t] = 0
         /\ Len(accesses[t]) = 0 /\ Len(query[t]) = 0
  BY <1>1
<1>7. HistoryKept
  <2>1. \A r \in Row : vers[r] # <<>>
    BY <1>4
  <2> QED BY <1>1, <2>1 DEF HistoryKept
<1>8. IdsUsed
  <2>1. \A t \in Thread, n \in Nat, r \in Row : HasVersion(r, <<t, n>>) => n <= tries[t]
    <3> SUFFICES ASSUME NEW t \in Thread, NEW n \in Nat, NEW r \in Row, HasVersion(r, <<t, n>>)
                 PROVE  n <= tries[t]
      OBVIOUS
    <3>1. <<t, n>> = Loaded
      BY <1>5
    <3>2. n = 0
      BY <3>1 DEF Loaded
    <3> QED BY <1>6, <3>2
  <2> QED BY <1>1, <2>1 DEF IdsUsed
<1>9. \A t \in Thread : TicHeld(t) = {} /\ \A r : ~TicDirty(t, r)
  BY <1>6 DEF TicHeld, TicDirty, TicLocking, TicInstalling
<1>10. TicLocks
  <2>1. \A r \in Row : ~row[r].word.lock
    BY <1>0 DEF TT!Word
  <2> QED BY <1>9, <2>1 DEF TicLocks
<1>11. TicRows
  <2>1. \A r \in Row : \A h \in 1..2 : row[r].data[h] = Loaded
    BY <1>0
  <2> QED BY <1>5, <1>9, <2>1 DEF TicRows
<1>12. ASSUME NEW t \in Thread PROVE TicThread(t)
  <2>1. 1..Len(accesses[t]) = {} /\ 1..Len(query[t]) = {} /\ Len(accesses[t]) <= Len(query[t])
    BY <1>6
  <2>2. Follows(t) /\ TicAccess(t)
    BY <1>6, <2>1 DEF Follows, TicAccess, RowsDiffer
  <2>3. TicLoop(t) /\ TicCopy(t) /\ TicCurrent(t) /\ TicFresh(t) /\ TicSwap(t)
    BY <1>6 DEF TicLoop, TicSwap, TicCopy, TicCurrent, TicFresh, TicCopying, TicLocking, TicInstalling
  <2> QED BY <2>2, <2>3 DEF TicThread
<1> QED BY <1>3, <1>7, <1>8, <1>10, <1>11, <1>12 DEF TicInv

\* Every step of TicToc keeps the invariant.
LEMMA TicStep ==
  ASSUME TicInv, NEW t \in Thread, TT!Step(t)
  PROVE  TicInv'
<1>1. ASSUME NEW h \in TT!Half, TT!CopyHalf(t, h) \/ TT!InstallHalf(t, h) PROVE TicInv'
  <2>1. h \in 1..2
    BY TicNames
  <2> QED BY <1>1, <2>1, TicCopyHalf, TicInstallHalf
<1> QED BY <1>1, TicBegin, TicReadWord, TicCheckWord, TicValidate, TicPreCheck, TicTryLock,
           TicLockBusy, TicBackoff, TicAllLocked, TicLeaseHeld, TicRenewRead, TicRenewSwap,
           TicRenewRetry, TicStartInstall, TicInstallWord, TicRelease, TicCommit, TicAbort DEF TT!Step

\* Nothing changes.
LEMMA TicStutter ==
  ASSUME TicInv, UNCHANGED frameVars
  PROVE  TicInv'
<1>1. /\ row' = row /\ pc' = pc /\ tries' = tries /\ query' = query /\ accesses' = accesses
      /\ local' = local /\ hist' = hist /\ vers' = vers
  BY DEF frameVars
<1>2. \A t \in Thread :
         /\ TicHeld(t)' = TicHeld(t) /\ TicDone(t)' = TicDone(t)
         /\ Attempt(t)' = Attempt(t) /\ Request(t)' = Request(t)
         /\ \A r : TicDirty(t, r)' <=> TicDirty(t, r)
  BY <1>1, TicOwn
<1>3. TicTypes' /\ HistoryKept' /\ IdsUsed'
  <2>1. TicTypes /\ HistoryKept /\ IdsUsed
    BY DEF TicInv
  <2>2. TicTypes'
    BY <1>1, <2>1 DEF TicTypes, FrameTypes
  <2>3. HistoryKept'
    BY <1>1, <2>1 DEF HistoryKept, HasVersion, Replaced
  <2>4. IdsUsed'
    BY <1>1, <2>1 DEF IdsUsed, HasVersion, Attempt
  <2> QED BY <2>2, <2>3, <2>4
<1>4. TicLocks'
  BY <1>1, <1>2 DEF TicInv, TicLocks
<1>5. \A r : (TicClean(r)' <=> TicClean(r)) /\ Latest(r)' = Latest(r)
  BY <1>1, <1>2 DEF TicClean, Latest
<1>6. TicRows'
  BY <1>1, <1>2, <1>5 DEF TicInv, TicRows
<1>7. ASSUME NEW t \in Thread PROVE TicThread(t)'
  <2>1. Follows(t) /\ TicLoop(t) /\ TicCopy(t) /\ TicAccess(t) /\ TicCurrent(t) /\ TicFresh(t) /\ TicSwap(t)
    BY DEF TicInv, TicThread
  <2>2. /\ WN(t)' = WN(t) /\ RN(t)' = RN(t) /\ WriteSet(t)' = WriteSet(t)
        /\ \A k : WRow(t, k)' = WRow(t, k)
    BY <1>1, SetsKept
  <2>3. Follows(t)' /\ TicLoop(t)'
    BY <1>1, <2>1, <2>2 DEF Follows, TicLoop, HasRequest
  <2>4. TicCopy(t)'
    BY <1>1, <1>2, <1>5, <2>1 DEF TicCopy, Copied
  <2>5. TicAccess(t)'
    BY <1>1, <2>1 DEF TicAccess, HasVersion, Latest
  <2>6. TicCurrent(t)'
    BY <1>1, <1>2, <2>1, <2>2 DEF TicCurrent, Replaced
  <2>7. TicFresh(t)'
    BY <1>1, <1>2, <2>1 DEF TicFresh, HasVersion
  <2>8. TicSwap(t)'
    BY <1>1, <2>1 DEF TicSwap
  <2> QED BY <2>3, <2>4, <2>5, <2>6, <2>7, <2>8 DEF TicThread
<1> QED BY <1>3, <1>4, <1>6, <1>7 DEF TicInv

-----------------------------------------------------------------------------
(* Central validation.  A transaction that may install has its write set   *)
(* in the list of active sets, and no set that was there when it validated *)
(* meets it: the rows that two of them install are apart.                  *)

OccRegistered == {"install1", "install2", "leave"}
OccPassed == {"install1", "install2"}
OccEntryType == [txn : Thread, rows : SUBSET Row]
OccAccessType == [row : Row, type : {"RD", "WR"}, data : Copies]

\* The rows a transaction writes.
OccWrites(t) == {accesses[t][i].row : i \in Of(t, "WR")}

\* A transaction's locals; start_ts may be anything.
OccLocal(l) ==
    /\ DOMAIN l = {"copy", "start_ts", "valid", "i"}
    /\ l.copy \in Copies
    /\ l.i \in Nat

OccTypes ==
    /\ pc \in [Thread -> {"idle", "run", "copy2"} \cup OccRegistered]
    /\ tries \in [Thread -> Nat]
    /\ query \in [Thread -> Seq(Requests)]
    /\ accesses \in [Thread -> Seq(OccAccessType)]
    /\ DOMAIN local = Thread /\ \A t \in Thread : OccLocal(local[t])
    /\ row \in [Row -> [data : Copies]]
    /\ vers \in [Row -> Seq(Ids)]
    /\ DOMAIN occ = {"tnc", "active", "history"}
    /\ occ.active \in Seq(OccEntryType)

\* The list holds the write sets of the transactions between the two latched
\* sections, each once.
OccActive ==
    /\ \A i \in 1..Len(occ.active) : \A t \in Thread : occ.active[i].txn = t =>
          pc[t] \in OccRegistered /\ occ.active[i].rows = OccWrites(t) /\ OccWrites(t) # {}
    /\ \A i, j \in 1..Len(occ.active) : occ.active[i].txn = occ.active[j].txn => i = j
    /\ \A t \in Thread : pc[t] \in OccRegistered /\ OccWrites(t) # {} =>
          \E i \in 1..Len(occ.active) : occ.active[i].txn = t

\* The transactions that passed write different rows.
OccApart ==
    \A t, u \in Thread : t # u /\ pc[t] \in OccPassed /\ pc[u] \in OccPassed =>
        OccWrites(t) \cap OccWrites(u) = {}

\* A row is half copied while its writer is between the halves; any other row
\* holds its latest version.
OccDirty(t, r) == pc[t] = "install2" /\ r = OC!Installing(t)
OccRows ==
    \A r \in Row :
        /\ (\A t \in Thread : ~OccDirty(t, r)) => \A h \in 1..2 : row[r].data[h] = Latest(r)
        /\ \A t \in Thread : OccDirty(t, r) => row[r].data[1] = Attempt(t)

\* Where the loops of a transaction are.
OccLoop(t) ==
    /\ pc[t] = "copy2" => HasRequest(t)
    /\ pc[t] = "install2" => local[t].i < WN(t)

OccInv ==
    /\ OccTypes /\ OccActive /\ OccApart /\ OccRows
    /\ \A t \in Thread : OccLoop(t)

\* The names of TxnFrame mean the same in the instance.
LEMMA OccNames ==
  /\ OC!Loaded = Loaded /\ OC!Half = 1..2
  /\ \A t : /\ OC!Attempt(t) = Attempt(t) /\ OC!Request(t) = Request(t)
            /\ OC!HasRequest(t) <=> HasRequest(t)
            /\ OC!Of(t, "WR") = Of(t, "WR")
            /\ OC!RowsOf(t, "WR") = OccWrites(t)
            /\ OC!InstallOrder(t) = Reverse(InOrder(Of(t, "WR"), [i \in Of(t, "WR") |-> i]))
<1>1. OC!Loaded = Loaded /\ OC!Half = 1..2
  BY DEF OC!Loaded, Loaded, OC!Half
<1>2. ASSUME NEW t
      PROVE  /\ OC!Attempt(t) = Attempt(t) /\ OC!Request(t) = Request(t)
             /\ OC!HasRequest(t) <=> HasRequest(t)
             /\ OC!Of(t, "WR") = Of(t, "WR")
  BY DEF OC!Attempt, Attempt, OC!Request, Request, OC!HasRequest, HasRequest, OC!Of, Of
<1>3. ASSUME NEW t PROVE OC!RowsOf(t, "WR") = OccWrites(t)
  BY <1>2 DEF OC!RowsOf, OccWrites
<1>4. \A S, key : OC!InOrder(S, key) = InOrder(S, key)
  BY Zenon DEF OC!InOrder, InOrder, OC!Cardinality, Cardinality, OC!IsFiniteSet, IsFiniteSet
<1>5. ASSUME NEW t
      PROVE  OC!InstallOrder(t) = Reverse(InOrder(Of(t, "WR"), [i \in Of(t, "WR") |-> i]))
  <2>1. [i \in OC!Of(t, "WR") |-> i] = [i \in Of(t, "WR") |-> i]
    BY <1>2
  <2>2. \A s : OC!Reverse(s) = Reverse(s)
    BY DEF OC!Reverse, Reverse
  <2> QED BY <1>2, <1>4, <2>1, <2>2, Zenon DEF OC!InstallOrder
<1> QED BY <1>1, <1>2, <1>3, <1>5

\* The accesses that cleanup returns are writes.
LEMMA OccInstallOrder ==
  ASSUME NEW t \in Thread, Len(accesses[t]) \in Nat
  PROVE  /\ WN(t) \in Nat
         /\ \A k \in 1..WN(t) : OC!InstallOrder(t)[k] \in Of(t, "WR")
<1> DEFINE S == Of(t, "WR")
           key == [i \in S |-> i]
           s == InOrder(S, key)
<1>1. S \in SUBSET (1..Len(accesses[t]))
  BY DEF Of
<1>2. IsFiniteSet(S)
  <2>1. IsFiniteSet(1..Len(accesses[t]))
    BY FS_Interval
  <2> HIDE DEF S
  <2> QED BY <1>1, <2>1, FS_Subset
<1>3. key \in [S -> Nat] /\ \A i, j \in S : key[i] = key[j] => i = j
  BY <1>1
<1> HIDE DEF S, key
<1>4. Cardinality(S) \in Nat /\ s \in [1..Cardinality(S) -> S]
  BY <1>2, <1>3, InOrderProps
<1> HIDE DEF s
<1>5. Len(s) = Cardinality(S)
  BY <1>4
<1>6. \A k \in 1..Cardinality(S) : Reverse(s)[k] = s[(Cardinality(S) - k) + 1]
  BY <1>5 DEF Reverse
<1>7. \A k \in 1..Cardinality(S) : (Cardinality(S) - k) + 1 \in 1..Cardinality(S)
  BY <1>4
<1>8. \A k \in 1..Cardinality(S) : Reverse(s)[k] \in S
  BY <1>4, <1>6, <1>7
<1>9. OC!InstallOrder(t) = Reverse(s) /\ WN(t) = Cardinality(S)
  BY OccNames DEF S, key, s, WN
<1> QED BY <1>4, <1>8, <1>9 DEF S

\* The row that is being copied back is one the transaction writes.
LEMMA OccInstalling ==
  ASSUME OccTypes, NEW t \in Thread, local[t].i < WN(t)
  PROVE  OC!Installing(t) \in OccWrites(t) /\ OC!Installing(t) \in Row
<1>1. accesses[t] \in Seq(OccAccessType) /\ local[t].i \in Nat
  BY DEF OccTypes, OccLocal
<1>2. Len(accesses[t]) \in Nat /\ \A i \in 1..Len(accesses[t]) : accesses[t][i] \in OccAccessType
  BY <1>1
<1>3. WN(t) \in Nat /\ \A k \in 1..WN(t) : OC!InstallOrder(t)[k] \in Of(t, "WR")
  BY <1>2, OccInstallOrder
<1>4. local[t].i + 1 \in 1..WN(t)
  BY <1>1, <1>3
<1>5. OC!InstallOrder(t)[local[t].i + 1] \in Of(t, "WR")
  BY <1>3, <1>4
<1>6. OC!Installing(t) \in OccWrites(t)
  BY <1>5 DEF OC!Installing, OccWrites
<1>7. \A i \in Of(t, "WR") : accesses[t][i].row \in Row
  BY <1>2 DEF Of, OccAccessType
<1> QED BY <1>5, <1>6, <1>7 DEF OC!Installing

\* The rows a transaction writes are rows.
LEMMA OccWritesRows ==
  ASSUME OccTypes, NEW t \in Thread
  PROVE  OccWrites(t) \in SUBSET Row
<1>1. accesses[t] \in Seq(OccAccessType)
  BY DEF OccTypes
<1>2. \A i \in 1..Len(accesses[t]) : accesses[t][i] \in OccAccessType
  BY <1>1
<1>3. \A i \in Of(t, "WR") : accesses[t][i].row \in Row
  BY <1>2 DEF Of, OccAccessType
<1> QED BY <1>3 DEF OccWrites

\* What depends on the accesses alone.
LEMMA OccKept ==
  ASSUME NEW t \in Thread, accesses'[t] = accesses[t]
  PROVE  /\ Of(t, "WR")' = Of(t, "WR") /\ OccWrites(t)' = OccWrites(t) /\ WN(t)' = WN(t)
         /\ OC!InstallOrder(t)' = OC!InstallOrder(t)
         /\ local'[t].i = local[t].i => OC!Installing(t)' = OC!Installing(t)
<1>1. Of(t, "WR")' = Of(t, "WR") /\ WN(t)' = WN(t)
  BY SetsKept
<1>2. OccWrites(t)' = OccWrites(t)
  BY <1>1 DEF OccWrites
<1>3. OC!InstallOrder(t)' = OC!InstallOrder(t)
  <2>1. OC!Of(t, "WR")' = OC!Of(t, "WR")
    BY DEF OC!Of
  <2>2. [i \in OC!Of(t, "WR") |-> i]' = [i \in OC!Of(t, "WR") |-> i]
    BY <2>1
  <2> QED BY <2>1, <2>2, Zenon DEF OC!InstallOrder
<1> QED BY <1>1, <1>2, <1>3 DEF OC!Installing

\* The other threads' view of a step of thread t.
LEMMA OccOthers ==
  ASSUME NEW t \in Thread, OnlyThread(t), NEW u \in Thread, u # t
  PROVE  /\ pc'[u] = pc[u] /\ local'[u] = local[u] /\ Attempt(u)' = Attempt(u)
         /\ OccWrites(u)' = OccWrites(u) /\ WN(u)' = WN(u)
         /\ \A r : OccDirty(u, r)' <=> OccDirty(u, r)
         /\ OccLoop(u)' <=> OccLoop(u)
<1>1. /\ pc'[u] = pc[u] /\ tries'[u] = tries[u] /\ query'[u] = query[u]
      /\ accesses'[u] = accesses[u] /\ local'[u] = local[u]
  BY DEF OnlyThread
<1>2. OccWrites(u)' = OccWrites(u) /\ WN(u)' = WN(u) /\ OC!Installing(u)' = OC!Installing(u)
  BY <1>1, OccKept
<1> QED BY <1>1, <1>2 DEF Attempt, OccDirty, OccLoop, HasRequest

\* A half-copied row is one its writer writes, and has no other writer.
LEMMA OccDirtyOwner ==
  ASSUME OccInv, NEW t \in Thread, NEW r, OccDirty(t, r)
  PROVE  r \in OccWrites(t) /\ \A u \in Thread : OccDirty(u, r) => u = t
<1>1. ASSUME NEW u \in Thread, OccDirty(u, r) PROVE r \in OccWrites(u) /\ pc[u] \in OccPassed
  BY <1>1, OccInstalling DEF OccInv, OccDirty, OccPassed, OccLoop
<1> QED BY <1>1 DEF OccInv, OccApart

\* What a step's effect on the threads must be for the types of the locals.
LEMMA OccLocalKept ==
  ASSUME OccTypes, NEW t \in Thread, NEW l, OccLocal(l), local' = [local EXCEPT ![t] = l]
  PROVE  /\ DOMAIN local' = Thread /\ \A u \in Thread : OccLocal(local'[u])
         /\ local'[t] = l /\ \A u \in Thread : u # t => local'[u] = local[u]
<1>1. DOMAIN local = Thread /\ \A u \in Thread : OccLocal(local[u])
  BY DEF OccTypes
<1>2. DOMAIN local' = Thread /\ local'[t] = l /\ \A u \in Thread : u # t => local'[u] = local[u]
  BY <1>1
<1>3. \A u \in Thread : OccLocal(local'[u])
  <2> SUFFICES ASSUME NEW u \in Thread PROVE OccLocal(local'[u])
    OBVIOUS
  <2> QED BY <1>1, <1>2, Zenon
<1> QED BY <1>2, <1>3

\* A step of a transaction outside the two latched sections.
LEMMA OccQuiet ==
  ASSUME OccInv, OccTypes', NEW t \in Thread, OnlyThread(t),
         pc[t] \notin OccRegistered, pc'[t] \notin OccRegistered,
         pc'[t] = "copy2" => HasRequest(t)',
         row' = row, vers' = vers, occ' = occ
  PROVE  OccInv'
<1>1. /\ OccActive /\ OccApart /\ OccRows
      /\ \A u \in Thread : OccLoop(u)
      /\ occ.active \in Seq(OccEntryType)
  BY DEF OccInv, OccTypes
<1>2. \A u \in Thread : u # t =>
         /\ pc'[u] = pc[u] /\ local'[u] = local[u] /\ Attempt(u)' = Attempt(u)
         /\ OccWrites(u)' = OccWrites(u) /\ WN(u)' = WN(u)
         /\ \A r : OccDirty(u, r)' <=> OccDirty(u, r)
         /\ OccLoop(u)' <=> OccLoop(u)
  BY OccOthers
<1>3. \A r : ~OccDirty(t, r) /\ ~OccDirty(t, r)'
  BY DEF OccDirty, OccRegistered
<1>4. Len(occ.active) \in Nat /\ \A i \in 1..Len(occ.active) : occ.active[i].txn \in Thread
  <2>1. Len(occ.active) \in Nat /\ \A i \in 1..Len(occ.active) : occ.active[i] \in OccEntryType
    BY <1>1
  <2> QED BY <2>1 DEF OccEntryType
<1>5. OccActive'
  <2>1. \A i \in 1..Len(occ.active) : occ.active[i].txn \in Thread /\ occ.active[i].txn # t
    BY <1>1, <1>4 DEF OccActive
  <2>2. \A i \in 1..Len(occ'.active) :
           \A u \in Thread : occ'.active[i].txn = u =>
              pc'[u] \in OccRegistered /\ occ'.active[i].rows = OccWrites(u)' /\ OccWrites(u)' # {}
    BY <1>1, <1>2, <2>1 DEF OccActive
  <2>3. \A i, j \in 1..Len(occ'.active) : occ'.active[i].txn = occ'.active[j].txn => i = j
    BY <1>1 DEF OccActive
  <2>4. ASSUME NEW u \in Thread, pc'[u] \in OccRegistered, OccWrites(u)' # {}
        PROVE  \E i \in 1..Len(occ'.active) : occ'.active[i].txn = u
    BY <1>1, <1>2, <2>4 DEF OccActive
  <2> QED BY <2>2, <2>3, <2>4 DEF OccActive
<1>6. OccApart'
  <2>1. pc'[t] \notin OccPassed
    BY DEF OccRegistered, OccPassed
  <2> QED BY <1>1, <1>2, <2>1 DEF OccApart
<1>7. OccRows'
  <2>1. \A u \in Thread : \A r : OccDirty(u, r)' <=> OccDirty(u, r)
    BY <1>2, <1>3
  <2>2. \A r : Latest(r)' = Latest(r)
    BY DEF Latest
  <2>3. \A u \in Thread : \A r : OccDirty(u, r) => Attempt(u)' = Attempt(u)
    BY <1>2, <1>3
  <2> QED BY <1>1, <2>1, <2>2, <2>3 DEF OccRows
<1>8. \A u \in Thread : OccLoop(u)'
  <2>1. OccLoop(t)'
    BY DEF OccLoop, OccRegistered
  <2> QED BY <1>1, <1>2, <2>1
<1> QED BY <1>5, <1>6, <1>7, <1>8 DEF OccInv

LEMMA OccBegin ==
  ASSUME OccInv, NEW t \in Thread, OC!Begin(t)
  PROVE  OccInv'
<1> DEFINE l == [OC!InitialLocal EXCEPT !.start_ts = 1 + OC!SumFunction(tries)]
<1>0. OccTypes /\ tries[t] \in Nat
  BY DEF OccInv, OccTypes
<1>1. /\ pc[t] = "idle" /\ tries[t] < Len(Script[t])
      /\ tries' = [tries EXCEPT ![t] = tries[t] + 1] /\ pc' = [pc EXCEPT ![t] = "run"]
      /\ row' = row /\ accesses' = accesses /\ vers' = vers /\ occ' = occ
  BY DEF OC!Begin, OC!Take, OC!Goto
<1>2. PICK q \in Script[t][tries[t] + 1] : query' = [query EXCEPT ![t] = q]
  BY DEF OC!Begin, OC!Take
<1>3. q \in Seq(Requests)
  <2>1. Script[t] \in Seq(SUBSET Seq(Requests))
    BY FrameAssumption DEF Requests
  <2>2. tries[t] + 1 \in 1..Len(Script[t])
    BY <1>0, <1>1, <2>1
  <2> QED BY <2>1, <2>2
<1>4. local' = [local EXCEPT ![t] = l]
  BY DEF OC!Begin, OC!Set
<1>5. OccLocal(l)
  BY DEF OccLocal, OC!InitialLocal, Copies, Ids, OC!Half, OC!Loaded, Loaded
<1> HIDE DEF l
<1>6. DOMAIN local' = Thread /\ \A u \in Thread : OccLocal(local'[u])
  BY <1>0, <1>4, <1>5, OccLocalKept
<1>7. OccTypes'
  <2>1. query' \in [Thread -> Seq(Requests)] /\ tries' \in [Thread -> Nat]
    BY <1>0, <1>1, <1>2, <1>3 DEF OccTypes
  <2>2. pc' \in [Thread -> {"idle", "run", "copy2"} \cup OccRegistered]
    BY <1>0, <1>1 DEF OccTypes
  <2> QED BY <1>0, <1>1, <1>6, <2>1, <2>2 DEF OccTypes
<1>8. OnlyThread(t)
  <2>1. \A u \in Thread : u # t => local'[u] = local[u]
    BY <1>0, <1>4, <1>5, OccLocalKept
  <2> QED BY <1>0, <1>1, <1>2, <2>1 DEF OnlyThread, OccTypes
<1>9. pc[t] \notin OccRegistered /\ pc'[t] \notin OccRegistered /\ pc'[t] # "copy2"
  BY <1>0, <1>1 DEF OccTypes, OccRegistered
<1> QED BY <1>1, <1>7, <1>8, <1>9, OccQuiet

LEMMA OccCopyHalf ==
  ASSUME OccInv, NEW t \in Thread, NEW h \in 1..2, OC!CopyHalf(t, h)
  PROVE  OccInv'
<1> DEFINE req == Request(t)
           copy == [local[t].copy EXCEPT ![h] = row[req.row].data[h]]
           l == [local[t] EXCEPT !.copy = copy]
           a == [row |-> req.row, type |-> req.type, data |-> copy]
<1>0. OccTypes /\ OccLocal(local[t])
  BY DEF OccInv, OccTypes
<1>1. /\ (pc[t] = "run" /\ HasRequest(t) /\ h = 1) \/ (pc[t] = "copy2" /\ h = 2)
      /\ local' = [local EXCEPT ![t] = l]
      /\ IF h = 1 THEN accesses' = accesses
         ELSE accesses' = [accesses EXCEPT ![t] = Append(accesses[t], a)]
      /\ pc' = [pc EXCEPT ![t] = <<"copy2", "run">>[h]]
      /\ row' = row /\ tries' = tries /\ query' = query /\ vers' = vers /\ occ' = occ
  <2>1. OC!Request(t) = req /\ (OC!HasRequest(t) <=> HasRequest(t))
    BY OccNames
  <2>2. /\ (pc[t] = "run" /\ OC!HasRequest(t) /\ h = 1) \/ (pc[t] = "copy2" /\ h = 2)
        /\ pc' = [pc EXCEPT ![t] = <<"copy2", "run">>[h]]
        /\ row' = row /\ tries' = tries /\ query' = query /\ vers' = vers /\ occ' = occ
    BY DEF OC!CopyHalf, OC!Goto
  <2>3. local' = [local EXCEPT ![t] = l]
    <3> HIDE DEF req
    <3> QED BY <2>1 DEF OC!CopyHalf, OC!Set
  <2>4. h = 1 => accesses' = accesses
    BY DEF OC!CopyHalf
  <2>5. h # 1 => accesses' = [accesses EXCEPT ![t] = Append(accesses[t], a)]
    <3> HIDE DEF req
    <3> QED BY <2>1 DEF OC!CopyHalf, OC!Granted
  <2> HIDE DEF req, copy, l, a
  <2> QED BY <2>1, <2>2, <2>3, <2>4, <2>5
<1>3. req \in Requests
  <2>1. HasRequest(t)
    BY <1>1 DEF OccInv, OccLoop
  <2>2. query[t] \in Seq(Requests) /\ Len(accesses[t]) \in Nat /\ Len(query[t]) \in Nat
    BY <1>0 DEF OccTypes
  <2>3. Len(accesses[t]) + 1 \in 1..Len(query[t])
    BY <2>1, <2>2 DEF HasRequest
  <2> QED BY <2>2, <2>3 DEF Request
<1>4. copy \in Copies
  <2> HIDE DEF req
  <2>1. row[req.row].data[h] \in Ids
    BY <1>0, <1>3 DEF OccTypes, Requests, Copies
  <2> QED BY <1>0, <2>1 DEF OccLocal, Copies
<1>5. OccLocal(l)
  <2> HIDE DEF copy
  <2> QED BY <1>0, <1>4 DEF OccLocal
<1>6. a \in OccAccessType
  <2> HIDE DEF req, copy
  <2> QED BY <1>3, <1>4 DEF OccAccessType, Requests
<1> HIDE DEF req, copy, l, a
<1>7. /\ DOMAIN local' = Thread /\ \A u \in Thread : OccLocal(local'[u])
      /\ \A u \in Thread : u # t => local'[u] = local[u]
  BY <1>0, <1>1, <1>5, OccLocalKept
<1>8. accesses' \in [Thread -> Seq(OccAccessType)] /\ \A u \in Thread : u # t => accesses'[u] = accesses[u]
  <2>1. accesses \in [Thread -> Seq(OccAccessType)] /\ Append(accesses[t], a) \in Seq(OccAccessType)
    BY <1>0, <1>6 DEF OccTypes
  <2> QED BY <1>1, <2>1
<1>9. pc' \in [Thread -> {"idle", "run", "copy2"} \cup OccRegistered]
  BY <1>0, <1>1 DEF OccTypes
<1>10. OccTypes'
  BY <1>0, <1>1, <1>7, <1>8, <1>9 DEF OccTypes
<1>11. OnlyThread(t)
  BY <1>0, <1>1, <1>7, <1>8 DEF OnlyThread, OccTypes
<1>12. pc[t] \notin OccRegistered /\ pc'[t] \notin OccRegistered
  BY <1>0, <1>1 DEF OccTypes, OccRegistered
<1>13. pc'[t] = "copy2" => HasRequest(t)'
  BY <1>0, <1>1 DEF OccTypes, HasRequest
<1> QED BY <1>1, <1>10, <1>11, <1>12, <1>13, OccQuiet

\* An element before a sequence.
LEMMA PrependProps ==
  ASSUME NEW S, NEW s \in Seq(S), NEW e \in S
  PROVE  /\ <<e>> \o s \in Seq(S) /\ Len(<<e>> \o s) = Len(s) + 1
         /\ (<<e>> \o s)[1] = e
         /\ \A i \in 1..Len(s) : i + 1 \in 1..(Len(s) + 1) /\ (<<e>> \o s)[i + 1] = s[i]
         /\ \A k \in 1..(Len(s) + 1) : k = 1 \/ (k - 1 \in 1..Len(s) /\ (<<e>> \o s)[k] = s[k - 1])
<1>1. <<e>> \in Seq(S) /\ Len(<<e>>) = 1 /\ <<e>>[1] = e /\ Len(s) \in Nat
  OBVIOUS
<1>2. /\ <<e>> \o s \in Seq(S) /\ Len(<<e>> \o s) = Len(<<e>>) + Len(s)
      /\ \A k \in 1..(Len(<<e>>) + Len(s)) :
            (<<e>> \o s)[k] = IF k <= Len(<<e>>) THEN <<e>>[k] ELSE s[k - Len(<<e>>)]
  BY <1>1, ConcatProperties
<1> DEFINE c == <<e>> \o s
<1>3. /\ c \in Seq(S) /\ Len(c) = Len(s) + 1
      /\ \A k \in 1..(Len(s) + 1) : c[k] = IF k <= 1 THEN e ELSE s[k - 1]
  <2>1. ASSUME NEW k \in 1..(Len(s) + 1) PROVE c[k] = IF k <= 1 THEN e ELSE s[k - 1]
    <3>1. c[k] = IF k <= 1 THEN <<e>>[k] ELSE s[k - 1]
      BY <1>1, <1>2
    <3>2. k <= 1 => k = 1
      OBVIOUS
    <3> HIDE DEF c
    <3> QED BY <1>1, <3>1, <3>2
  <2> QED BY <1>1, <1>2, <2>1
<1> HIDE DEF c
<1>4. c[1] = e
  BY <1>1, <1>3
<1>5. \A i \in 1..Len(s) : i + 1 \in 1..(Len(s) + 1) /\ c[i + 1] = s[i]
  <2> SUFFICES ASSUME NEW i \in 1..Len(s) PROVE i + 1 \in 1..(Len(s) + 1) /\ c[i + 1] = s[i]
    OBVIOUS
  <2>1. i + 1 \in 1..(Len(s) + 1) /\ ~(i + 1 <= 1) /\ (i + 1) - 1 = i
    BY <1>1
  <2>2. c[i + 1] = s[(i + 1) - 1]
    BY <1>3, <2>1
  <2> QED BY <2>1, <2>2
<1>6. \A k \in 1..(Len(s) + 1) : k = 1 \/ (k - 1 \in 1..Len(s) /\ c[k] = s[k - 1])
  BY <1>1, <1>3
<1> QED BY <1>3, <1>4, <1>5, <1>6 DEF c

\* The transaction registers its write set and compares itself with the list.
LEMMA OccValidate ==
  ASSUME OccInv, NEW t \in Thread, OC!Validate(t)
  PROVE  OccInv'
<1> DEFINE A == occ.active
           valid == OC!HistoryValid(t) /\ OC!ActiveValid(t)
           l == [local[t] EXCEPT !.valid = valid, !.i = 0]
           e == [txn |-> t, rows |-> OccWrites(t)]
<1>0. /\ OccTypes /\ OccActive /\ OccApart /\ OccRows /\ OccLocal(local[t])
      /\ \A u \in Thread : OccLoop(u)
  BY DEF OccInv, OccTypes
<1>1. /\ pc[t] = "run"
      /\ occ' = IF OccWrites(t) = {} THEN occ ELSE [occ EXCEPT !.active = <<e>> \o occ.active]
      /\ local' = [local EXCEPT ![t] = l]
      /\ pc' = [pc EXCEPT ![t] = IF valid THEN "install1" ELSE "leave"]
      /\ row' = row /\ tries' = tries /\ query' = query /\ accesses' = accesses /\ vers' = vers
  <2>1. OC!RowsOf(t, "WR") = OccWrites(t)
    BY OccNames
  <2>2. /\ pc[t] = "run"
        /\ local' = [local EXCEPT ![t] = l]
        /\ pc' = [pc EXCEPT ![t] = IF valid THEN "install1" ELSE "leave"]
        /\ row' = row /\ tries' = tries /\ query' = query /\ accesses' = accesses /\ vers' = vers
    BY DEF OC!Validate, OC!Set, OC!Goto
  <2>3. occ' = IF OccWrites(t) = {} THEN occ ELSE [occ EXCEPT !.active = <<e>> \o occ.active]
    BY <2>1 DEF OC!Validate, OC!ReadOnly
  <2> HIDE DEF l, valid, e
  <2> QED BY <2>2, <2>3
<1>2. valid => \A i \in 1..Len(A) : A[i].rows \cap OccWrites(t) = {}
  <2>1. OC!RowsOf(t, "WR") = OccWrites(t)
    BY OccNames
  <2>2. A \in Seq(OccEntryType)
    BY <1>0 DEF OccTypes
  <2>3. \A i \in 1..Len(A) : A[i] \in OC!ToSet(A)
    BY <2>2 DEF OC!ToSet
  <2> QED BY <2>1, <2>3 DEF OC!ActiveValid, OC!test_valid
<1>3. OccLocal(l) /\ l.i = 0
  <2> HIDE DEF valid
  <2> QED BY <1>0 DEF OccLocal
<1> HIDE DEF valid, l
<1>4. /\ DOMAIN local' = Thread /\ \A u \in Thread : OccLocal(local'[u])
      /\ \A u \in Thread : u # t => local'[u] = local[u]
  BY <1>0, <1>1, <1>3, OccLocalKept
<1>5. OnlyThread(t)
  BY <1>0, <1>1, <1>4 DEF OnlyThread, OccTypes
<1>6. /\ pc'[t] \in OccRegistered /\ pc'[t] \in {"install1", "leave"} /\ (pc'[t] = "install1" => valid)
      /\ pc' \in [Thread -> {"idle", "run", "copy2"} \cup OccRegistered]
      /\ pc[t] \notin OccRegistered /\ pc[t] \notin OccPassed
  BY <1>0, <1>1 DEF OccTypes, OccRegistered, OccPassed
<1>7. e \in OccEntryType /\ e.txn = t /\ e.rows = OccWrites(t)
  BY <1>0, OccWritesRows DEF OccEntryType
<1> HIDE DEF e
<1>8. A \in Seq(OccEntryType) /\ Len(A) \in Nat
  BY <1>0 DEF OccTypes
<1>9. \A i \in 1..Len(A) : A[i].txn \in Thread
  <2>1. \A i \in 1..Len(A) : A[i] \in OccEntryType
    BY <1>8
  <2> QED BY <2>1 DEF OccEntryType
<1> DEFINE B == occ'.active
<1>10. /\ DOMAIN occ' = {"tnc", "active", "history"}
       /\ B = IF OccWrites(t) = {} THEN A ELSE <<e>> \o A
  <2>1. DOMAIN occ = {"tnc", "active", "history"}
    BY <1>0 DEF OccTypes
  <2> HIDE DEF OccWrites
  <2> QED BY <1>1, <2>1
<1>11. \A u \in Thread : u # t =>
          /\ pc'[u] = pc[u] /\ local'[u] = local[u] /\ Attempt(u)' = Attempt(u)
          /\ OccWrites(u)' = OccWrites(u) /\ WN(u)' = WN(u)
          /\ \A r : OccDirty(u, r)' <=> OccDirty(u, r)
          /\ OccLoop(u)' <=> OccLoop(u)
  BY <1>5, OccOthers
<1>12. OccWrites(t)' = OccWrites(t)
  BY <1>1, OccKept
<1>13. \A i \in 1..Len(A) : \A u \in Thread : A[i].txn = u =>
          /\ u # t /\ pc[u] \in OccRegistered /\ A[i].rows = OccWrites(u) /\ OccWrites(u) # {}
  BY <1>0, <1>6 DEF OccActive
<1>14. \A i, j \in 1..Len(A) : A[i].txn = A[j].txn => i = j
  BY <1>0 DEF OccActive
<1>15. \A u \in Thread : pc[u] \in OccRegistered /\ OccWrites(u) # {} =>
          \E i \in 1..Len(A) : A[i].txn = u
  BY <1>0 DEF OccActive
<1> HIDE DEF A, B
<1>16. B \in Seq(OccEntryType) /\ OccActive'
  <2>1. CASE OccWrites(t) = {}
    <3>1. B = A
      BY <1>10, <2>1
    <3>2. \A i \in 1..Len(B) : \A u \in Thread : B[i].txn = u =>
             pc'[u] \in OccRegistered /\ B[i].rows = OccWrites(u)' /\ OccWrites(u)' # {}
      BY <1>11, <1>13, <3>1
    <3>3. \A u \in Thread : pc'[u] \in OccRegistered /\ OccWrites(u)' # {} =>
             \E i \in 1..Len(B) : B[i].txn = u
      <4> SUFFICES ASSUME NEW u \in Thread, pc'[u] \in OccRegistered, OccWrites(u)' # {}
                   PROVE  \E i \in 1..Len(B) : B[i].txn = u
        OBVIOUS
      <4>1. u # t
        BY <1>12, <2>1
      <4> QED BY <1>11, <1>15, <3>1, <4>1
    <3>4. \A i, j \in 1..Len(B) : B[i].txn = B[j].txn => i = j
      BY <1>14, <3>1
    <3> QED BY <1>8, <3>1, <3>2, <3>3, <3>4 DEF OccActive, B
  <2>2. CASE OccWrites(t) # {}
    <3>1. B = <<e>> \o A
      BY <1>10, <2>2
    <3>2. /\ B \in Seq(OccEntryType) /\ Len(B) = Len(A) + 1 /\ B[1] = e
          /\ \A i \in 1..Len(A) : i + 1 \in 1..Len(B) /\ B[i + 1] = A[i]
          /\ \A k \in 1..Len(B) : k = 1 \/ (k - 1 \in 1..Len(A) /\ B[k] = A[k - 1])
      BY <1>7, <1>8, <3>1, PrependProps
    <3>3. \A i \in 1..Len(B) : \A u \in Thread : B[i].txn = u =>
             pc'[u] \in OccRegistered /\ B[i].rows = OccWrites(u)' /\ OccWrites(u)' # {}
      <4> SUFFICES ASSUME NEW i \in 1..Len(B), NEW u \in Thread, B[i].txn = u
                   PROVE  pc'[u] \in OccRegistered /\ B[i].rows = OccWrites(u)' /\ OccWrites(u)' # {}
        OBVIOUS
      <4>1. CASE i = 1
        <5>1. u = t
          BY <1>7, <3>2, <4>1
        <5> QED BY <1>6, <1>7, <1>12, <2>2, <3>2, <4>1, <5>1
      <4>2. CASE i # 1
        <5>1. i - 1 \in 1..Len(A) /\ B[i] = A[i - 1]
          BY <3>2, <4>2
        <5>2. u # t /\ pc[u] \in OccRegistered /\ B[i].rows = OccWrites(u) /\ OccWrites(u) # {}
          BY <1>13, <5>1
        <5> QED BY <1>11, <5>2
      <4> QED BY <4>1, <4>2
    <3>4. \A u \in Thread : pc'[u] \in OccRegistered /\ OccWrites(u)' # {} =>
             \E i \in 1..Len(B) : B[i].txn = u
      <4> SUFFICES ASSUME NEW u \in Thread, pc'[u] \in OccRegistered, OccWrites(u)' # {}
                   PROVE  \E i \in 1..Len(B) : B[i].txn = u
        OBVIOUS
      <4>1. CASE u = t
        <5>1. 1 \in 1..Len(B)
          BY <1>8, <3>2
        <5> QED BY <1>7, <3>2, <4>1, <5>1
      <4>2. CASE u # t
        <5>1. PICK i \in 1..Len(A) : A[i].txn = u
          BY <1>11, <1>15, <4>2
        <5> QED BY <3>2, <5>1
      <4> QED BY <4>1, <4>2
    <3>5. \A i, j \in 1..Len(B) : B[i].txn = B[j].txn => i = j
      <4> SUFFICES ASSUME NEW i \in 1..Len(B), NEW j \in 1..Len(B), B[i].txn = B[j].txn
                   PROVE  i = j
        OBVIOUS
      <4>1. \A k \in 1..Len(B) : k # 1 =>
              k - 1 \in 1..Len(A) /\ B[k] = A[k - 1] /\ B[k].txn # t
        <5>1. \A m \in 1..Len(A) : A[m].txn # t
          BY <1>13
        <5> QED BY <3>2, <5>1
      <4>2. B[1].txn = t
        BY <1>7, <3>2
      <4>3. CASE i = 1 \/ j = 1
        BY <4>1, <4>2, <4>3
      <4>4. CASE i # 1 /\ j # 1
        <5>1. i - 1 = j - 1
          BY <1>14, <4>1, <4>4
        <5> QED BY <5>1, <1>8, <3>2
      <4> QED BY <4>3, <4>4
    <3> QED BY <3>2, <3>3, <3>4, <3>5 DEF OccActive, B
  <2> QED BY <2>1, <2>2
<1>17. OccTypes'
  BY <1>0, <1>1, <1>4, <1>6, <1>10, <1>16 DEF OccTypes, B
<1>18. OccApart'
  <2> SUFFICES ASSUME NEW u \in Thread, NEW v \in Thread, u # v, pc'[u] \in OccPassed, pc'[v] \in OccPassed
               PROVE  OccWrites(u)' \cap OccWrites(v)' = {}
    BY DEF OccApart
  <2>1. ASSUME NEW w \in Thread, w # t, pc'[w] \in OccPassed, valid
        PROVE  OccWrites(w) \cap OccWrites(t) = {}
    <3>1. CASE OccWrites(w) = {}
      BY <3>1
    <3>2. CASE OccWrites(w) # {}
      <4>1. pc[w] \in OccRegistered
        BY <1>11, <2>1 DEF OccRegistered, OccPassed
      <4>2. PICK i \in 1..Len(A) : A[i].txn = w
        BY <1>15, <3>2, <4>1
      <4>3. A[i].rows = OccWrites(w)
        BY <1>13, <4>2
      <4> QED BY <1>2, <2>1, <4>3 DEF A
    <3> QED BY <3>1, <3>2
  <2>2. pc'[t] \in OccPassed => valid
    BY <1>6 DEF OccPassed
  <2>3. CASE u = t
    BY <1>11, <1>12, <2>1, <2>2, <2>3
  <2>4. CASE v = t
    BY <1>11, <1>12, <2>1, <2>2, <2>4
  <2>5. CASE u # t /\ v # t
    BY <1>0, <1>11, <2>5 DEF OccApart
  <2> QED BY <2>3, <2>4, <2>5
<1>19. OccRows'
  <2>1. \A r : ~OccDirty(t, r) /\ ~OccDirty(t, r)'
    BY <1>1, <1>6 DEF OccDirty
  <2>2. \A u \in Thread : \A r : OccDirty(u, r)' <=> OccDirty(u, r)
    BY <1>11, <2>1
  <2>3. \A r : Latest(r)' = Latest(r)
    BY <1>1 DEF Latest
  <2>4. \A u \in Thread : \A r : OccDirty(u, r) => Attempt(u)' = Attempt(u)
    BY <1>11, <2>1
  <2> QED BY <1>0, <1>1, <2>2, <2>3, <2>4 DEF OccRows
<1>20. \A u \in Thread : OccLoop(u)'
  <2>1. OccLoop(t)'
    BY <1>6 DEF OccLoop
  <2> QED BY <1>0, <1>11, <2>1
<1> QED BY <1>16, <1>17, <1>18, <1>19, <1>20 DEF OccInv

\* Half of a row is copied back; the second half makes the version.
LEMMA OccInstallHalf ==
  ASSUME OccInv, NEW t \in Thread, NEW h \in 1..2, OC!InstallHalf(t, h)
  PROVE  OccInv'
<1> DEFINE r == OC!Installing(t)
           l == IF h = 1 THEN local[t] ELSE [local[t] EXCEPT !.i = local[t].i + 1]
           id == Attempt(t)
<1>0. /\ OccTypes /\ OccActive /\ OccApart /\ OccRows /\ OccLocal(local[t])
      /\ \A u \in Thread : OccLoop(u)
  BY DEF OccInv, OccTypes
<1>1. /\ pc[t] = (IF h = 1 THEN "install1" ELSE "install2") /\ local[t].i < WN(t)
      /\ row' = [row EXCEPT ![r].data[h] = id]
      /\ vers' = IF h = 1 THEN vers ELSE [vers EXCEPT ![r] = Append(vers[r], id)]
      /\ local' = [local EXCEPT ![t] = l]
      /\ pc' = [pc EXCEPT ![t] = IF h = 1 THEN "install2" ELSE "install1"]
      /\ tries' = tries /\ query' = query /\ accesses' = accesses /\ occ' = occ
  <2>1. OC!Attempt(t) = id /\ WN(t) = Cardinality(OC!Of(t, "WR"))
    BY OccNames DEF WN
  <2>2. /\ pc[t] = (IF h = 1 THEN "install1" ELSE "install2")
        /\ pc' = [pc EXCEPT ![t] = IF h = 1 THEN "install2" ELSE "install1"]
        /\ tries' = tries /\ query' = query /\ accesses' = accesses /\ occ' = occ
    <3>1. /\ pc[t] = <<"install1", "install2">>[h]
          /\ pc' = [pc EXCEPT ![t] = <<"install2", "install1">>[h]]
          /\ tries' = tries /\ query' = query /\ accesses' = accesses /\ occ' = occ
      BY DEF OC!InstallHalf, OC!Goto
    <3>2. CASE h = 1
      BY <3>1, <3>2
    <3>3. CASE h = 2
      BY <3>1, <3>3
    <3> QED BY <3>2, <3>3
  <2>3. local' = [local EXCEPT ![t] = l]
    BY DEF OC!InstallHalf, OC!Set
  <2>4. row' = [row EXCEPT ![r].data[h] = OC!Attempt(t)]
    BY DEF OC!InstallHalf
  <2>5. vers' = IF h = 1 THEN vers ELSE [vers EXCEPT ![r] = Append(vers[r], OC!Attempt(t))]
    BY DEF OC!InstallHalf
  <2>6. local[t].i < WN(t)
    <3>1. local[t].i < OC!Cardinality(OC!Of(t, "WR"))
      BY DEF OC!InstallHalf
    <3>2. \A S : OC!Cardinality(S) = Cardinality(S)
      BY Zenon DEF OC!Cardinality, Cardinality, OC!IsFiniteSet, IsFiniteSet
    <3> QED BY <2>1, <3>1, <3>2
  <2> HIDE DEF r, l, id
  <2> QED BY <2>1, <2>2, <2>3, <2>4, <2>5, <2>6
<1>2. r \in OccWrites(t) /\ r \in Row
  BY <1>0, <1>1, OccInstalling
<1>3. id \in Ids
  BY <1>0 DEF OccTypes, Attempt, Ids
<1>4. /\ OccLocal(l) /\ (h = 1 => l.i = local[t].i)
  BY <1>0 DEF OccLocal
<1> HIDE DEF l
<1>5. /\ DOMAIN local' = Thread /\ \A u \in Thread : OccLocal(local'[u])
      /\ local'[t] = l /\ \A u \in Thread : u # t => local'[u] = local[u]
  BY <1>0, <1>1, <1>4, OccLocalKept
<1>6. OnlyThread(t)
  BY <1>0, <1>1, <1>5 DEF OnlyThread, OccTypes
<1>7. /\ pc[t] \in OccPassed /\ pc'[t] \in OccPassed
      /\ pc[t] \in OccRegistered /\ pc'[t] \in OccRegistered
      /\ pc'[t] = (IF h = 1 THEN "install2" ELSE "install1")
      /\ pc' \in [Thread -> {"idle", "run", "copy2"} \cup OccRegistered]
  BY <1>0, <1>1 DEF OccTypes, OccPassed, OccRegistered
<1>8. \A u \in Thread : u # t =>
         /\ pc'[u] = pc[u] /\ local'[u] = local[u] /\ Attempt(u)' = Attempt(u)
         /\ OccWrites(u)' = OccWrites(u) /\ WN(u)' = WN(u)
         /\ \A y : OccDirty(u, y)' <=> OccDirty(u, y)
         /\ OccLoop(u)' <=> OccLoop(u)
  BY <1>6, OccOthers
<1>9. /\ OccWrites(t)' = OccWrites(t) /\ WN(t)' = WN(t) /\ Attempt(t)' = id
      /\ h = 1 => OC!Installing(t)' = r
  <2>1. h = 1 => local'[t].i = local[t].i
    BY <1>4, <1>5
  <2> QED BY <1>1, <2>1, OccKept DEF Attempt
<1>10. \A u \in Thread : OccWrites(u)' = OccWrites(u) /\ (pc'[u] \in OccRegistered <=> pc[u] \in OccRegistered)
  BY <1>7, <1>8, <1>9
<1>11. OccActive'
  BY <1>0, <1>1, <1>10 DEF OccActive
<1>12. \A u \in Thread : pc'[u] \in OccPassed <=> pc[u] \in OccPassed
  BY <1>7, <1>8
<1>13. OccApart'
  BY <1>0, <1>10, <1>12 DEF OccApart
<1>14. OccLoop(t)'
  BY <1>1, <1>4, <1>5, <1>7, <1>9 DEF OccLoop
<1>15. /\ row' \in [Row -> [data : Copies]]
       /\ \A y \in Row : y # r => row'[y] = row[y]
       /\ \A k \in 1..2 : row'[r].data[k] = IF k = h THEN id ELSE row[r].data[k]
  <2> HIDE DEF r, id
  <2> QED BY <1>0, <1>1, <1>2, <1>3 DEF OccTypes, Copies
<1>16. /\ vers' \in [Row -> Seq(Ids)]
       /\ \A y \in Row : y # r => vers'[y] = vers[y]
       /\ h # 1 => vers'[r][Len(vers'[r])] = id
  <2> HIDE DEF r, id
  <2>1. vers \in [Row -> Seq(Ids)] /\ vers[r] \in Seq(Ids)
    BY <1>0, <1>2 DEF OccTypes
  <2>2. /\ Append(vers[r], id) \in Seq(Ids) /\ Len(Append(vers[r], id)) = Len(vers[r]) + 1
        /\ Append(vers[r], id)[Len(vers[r]) + 1] = id
    BY <1>3, <2>1, AppendProperties
  <2>3. CASE h = 1
    BY <1>1, <2>1, <2>3
  <2>4. CASE h # 1
    <3>1. vers' = [vers EXCEPT ![r] = Append(vers[r], id)]
      BY <1>1, <2>4
    <3>2. vers'[r] = Append(vers[r], id)
      BY <1>2, <2>1, <3>1
    <3>3. vers'[r][Len(vers'[r])] = id
      BY <2>2, <3>2
    <3> QED BY <1>2, <2>1, <2>2, <2>4, <3>1, <3>3
  <2> QED BY <2>3, <2>4
<1>17. OccTypes'
  BY <1>0, <1>1, <1>5, <1>7, <1>15, <1>16 DEF OccTypes
<1>18. \A u \in Thread : u # t => ~OccDirty(u, r)
  <2> SUFFICES ASSUME NEW u \in Thread, u # t, OccDirty(u, r) PROVE FALSE
    OBVIOUS
  <2>1. r \in OccWrites(u)
    BY OccDirtyOwner
  <2>2. pc[u] \in OccPassed
    BY DEF OccDirty, OccPassed
  <2> QED BY <1>0, <1>2, <1>7, <2>1, <2>2 DEF OccApart
<1>19. OccRows'
  <2> SUFFICES ASSUME NEW y \in Row
               PROVE  /\ (\A u \in Thread : ~OccDirty(u, y)') => \A k \in 1..2 : row'[y].data[k] = Latest(y)'
                      /\ \A u \in Thread : OccDirty(u, y)' => row'[y].data[1] = Attempt(u)'
    BY DEF OccRows
  <2>1. CASE y # r
    <3>1. ~OccDirty(t, y) /\ ~OccDirty(t, y)'
      <4>1. ~OccDirty(t, y)
        BY <2>1 DEF OccDirty
      <4>2. ~OccDirty(t, y)'
        BY <1>7, <1>9, <2>1 DEF OccDirty
      <4> QED BY <4>1, <4>2
    <3>2. \A u \in Thread : OccDirty(u, y)' <=> OccDirty(u, y)
      BY <1>8, <3>1
    <3>3. row'[y] = row[y] /\ Latest(y)' = Latest(y)
      BY <1>15, <1>16, <2>1 DEF Latest
    <3>4. \A u \in Thread : OccDirty(u, y) => Attempt(u)' = Attempt(u)
      BY <1>8, <3>1
    <3> QED BY <1>0, <3>2, <3>3, <3>4 DEF OccRows
  <2>2. CASE y = r /\ h = 1
    <3>1. OccDirty(t, y)'
      BY <1>7, <1>9, <2>2 DEF OccDirty
    <3>2. row'[y].data[1] = id
      BY <1>15, <2>2
    <3>3. \A u \in Thread : OccDirty(u, y)' => u = t
      BY <1>8, <1>18, <2>2
    <3> QED BY <1>9, <3>1, <3>2, <3>3
  <2>3. CASE y = r /\ h = 2
    <3>1. \A u \in Thread : ~OccDirty(u, y)'
      <4>1. ~OccDirty(t, y)'
        BY <1>7, <2>3 DEF OccDirty
      <4> QED BY <1>8, <1>18, <2>3, <4>1
    <3>2. row[r].data[1] = id
      <4>1. OccDirty(t, r)
        BY <1>1, <2>3 DEF OccDirty
      <4> QED BY <1>0, <1>2, <4>1 DEF OccRows
    <3>3. \A k \in 1..2 : row'[y].data[k] = id
      BY <1>15, <2>3, <3>2
    <3>4. Latest(y)' = id
      BY <1>16, <2>3 DEF Latest
    <3> QED BY <3>1, <3>3, <3>4
  <2> QED BY <2>1, <2>2, <2>3
<1>20. \A u \in Thread : OccLoop(u)'
  BY <1>0, <1>8, <1>14
<1> QED BY <1>11, <1>13, <1>17, <1>19, <1>20 DEF OccInv

\* The second latched section.
LEMMA OccLeave ==
  ASSUME OccInv, NEW t \in Thread, OC!Leave(t)
  PROVE  OccInv'
<1> DEFINE A == occ.active
           B == occ'.active
           at == CHOOSE i \in 1..Len(A) : A[i].txn = t
<1>0. /\ OccTypes /\ OccActive /\ OccApart /\ OccRows
      /\ \A u \in Thread : OccLoop(u)
  BY DEF OccInv
<1>1. /\ pc[t] \in {"install1", "leave"}
      /\ accesses' = [accesses EXCEPT ![t] = <<>>] /\ query' = [query EXCEPT ![t] = <<>>]
      /\ pc' = [pc EXCEPT ![t] = "idle"]
      /\ local' = [local EXCEPT ![t] = OC!InitialLocal]
      /\ row' = row /\ tries' = tries /\ vers' = vers
  BY DEF OC!Leave, OC!Committed, OC!Aborted, OC!Finished, OC!Goto, OC!Set
<1>2. /\ DOMAIN occ' = {"tnc", "active", "history"}
      /\ B = IF OccWrites(t) = {} THEN A ELSE RemoveAt(A, at)
  <2>1. OC!RowsOf(t, "WR") = OccWrites(t)
    BY OccNames
  <2>2. OC!RemoveAt(A, at) = RemoveAt(A, at)
    BY DEF OC!RemoveAt, RemoveAt
  <2>3. DOMAIN occ = {"tnc", "active", "history"}
    BY <1>0 DEF OccTypes
  <2>4. occ' = OC!Left(t)
    BY DEF OC!Leave
  <2>5. CASE OccWrites(t) = {}
    <3>1. occ' = occ
      BY <2>1, <2>4, <2>5 DEF OC!Left, OC!ReadOnly
    <3> QED BY <2>3, <2>5, <3>1
  <2>6. CASE OccWrites(t) # {}
    <3>1. \/ occ' = [occ EXCEPT !.active = OC!RemoveAt(A, at)]
          \/ occ' = [tnc |-> occ.tnc + 1, active |-> OC!RemoveAt(A, at),
                     history |-> <<[tn |-> occ.tnc + 1, rows |-> OC!RowsOf(t, "WR")]>> \o occ.history]
      BY <2>1, <2>4, <2>6 DEF OC!Left, OC!ReadOnly
    <3> HIDE DEF A, at
    <3> QED BY <2>2, <2>3, <2>6, <3>1 DEF B
  <2> QED BY <2>5, <2>6
<1>3. OccLocal(OC!InitialLocal)
  BY DEF OccLocal, OC!InitialLocal, Copies, Ids, OC!Half, OC!Loaded, Loaded
<1>4. /\ DOMAIN local' = Thread /\ \A u \in Thread : OccLocal(local'[u])
      /\ \A u \in Thread : u # t => local'[u] = local[u]
  BY <1>0, <1>1, <1>3, OccLocalKept
<1>5. OnlyThread(t)
  BY <1>0, <1>1, <1>4 DEF OnlyThread, OccTypes
<1>6. /\ accesses' \in [Thread -> Seq(OccAccessType)] /\ query' \in [Thread -> Seq(Requests)]
      /\ pc' \in [Thread -> {"idle", "run", "copy2"} \cup OccRegistered]
      /\ pc[t] \in OccRegistered /\ pc'[t] = "idle"
      /\ pc'[t] \notin OccRegistered /\ pc'[t] \notin OccPassed
  <2>1. <<>> \in Seq(OccAccessType) /\ <<>> \in Seq(Requests)
    OBVIOUS
  <2> QED BY <1>0, <1>1, <2>1 DEF OccTypes, OccRegistered, OccPassed
<1>7. \A u \in Thread : u # t =>
         /\ pc'[u] = pc[u] /\ local'[u] = local[u] /\ Attempt(u)' = Attempt(u)
         /\ OccWrites(u)' = OccWrites(u) /\ WN(u)' = WN(u)
         /\ \A y : OccDirty(u, y)' <=> OccDirty(u, y)
         /\ OccLoop(u)' <=> OccLoop(u)
  BY <1>5, OccOthers
<1>8. A \in Seq(OccEntryType) /\ Len(A) \in Nat
  BY <1>0 DEF OccTypes
<1>9. \A i \in 1..Len(A) : A[i].txn \in Thread
  <2>1. \A i \in 1..Len(A) : A[i] \in OccEntryType
    BY <1>8
  <2> QED BY <2>1 DEF OccEntryType
<1>10. \A i \in 1..Len(A) : \A u \in Thread : A[i].txn = u =>
          pc[u] \in OccRegistered /\ A[i].rows = OccWrites(u) /\ OccWrites(u) # {}
  BY <1>0 DEF OccActive
<1>11. \A i, j \in 1..Len(A) : A[i].txn = A[j].txn => i = j
  BY <1>0 DEF OccActive
<1>12. \A u \in Thread : pc[u] \in OccRegistered /\ OccWrites(u) # {} =>
          \E i \in 1..Len(A) : A[i].txn = u
  BY <1>0 DEF OccActive
<1>13. OccWrites(t) # {} => at \in 1..Len(A) /\ A[at].txn = t
  BY <1>6, <1>12
<1> HIDE DEF A, B, at
<1>14. /\ B \in Seq(OccEntryType)
       /\ \A k \in 1..Len(B) : \E i \in 1..Len(A) : B[k] = A[i] /\ A[i].txn # t
       /\ \A i \in 1..Len(A) : A[i].txn # t => \E k \in 1..Len(B) : B[k] = A[i]
       /\ \A i, j \in 1..Len(B) : B[i].txn = B[j].txn => i = j
  <2>1. CASE OccWrites(t) = {}
    <3>1. B = A
      BY <1>2, <2>1
    <3>2. \A i \in 1..Len(A) : A[i].txn # t
      BY <1>10, <2>1
    <3> QED BY <1>8, <1>11, <3>1, <3>2
  <2>2. CASE OccWrites(t) # {}
    <3>1. B = RemoveAt(A, at) /\ at \in 1..Len(A) /\ A[at].txn = t
      BY <1>2, <1>13, <2>2
    <3>2. /\ B \in Seq(OccEntryType) /\ Len(B) = Len(A) - 1
          /\ \A k \in 1..(Len(A) - 1) : B[k] = IF k < at THEN A[k] ELSE A[k + 1]
      BY <1>8, <3>1, RemoveAtProperties
    <3> DEFINE from(k) == IF k < at THEN k ELSE k + 1
    <3>3. \A k \in 1..Len(B) : from(k) \in 1..Len(A) /\ from(k) # at /\ B[k] = A[from(k)]
      BY <1>8, <3>1, <3>2
    <3>4. \A i, j \in 1..Len(B) : from(i) = from(j) => i = j
      BY <1>8, <3>1, <3>2
    <3>5. \A i \in 1..Len(A) : i # at => \E k \in 1..Len(B) : from(k) = i
      <4> SUFFICES ASSUME NEW i \in 1..Len(A), i # at PROVE \E k \in 1..Len(B) : from(k) = i
        OBVIOUS
      <4>1. CASE i < at
        <5>1. i \in 1..Len(B) /\ from(i) = i
          BY <1>8, <3>1, <3>2, <4>1
        <5> QED BY <5>1
      <4>2. CASE ~(i < at)
        <5>1. i - 1 \in 1..Len(B) /\ from(i - 1) = i
          BY <1>8, <3>1, <3>2, <4>2
        <5> QED BY <5>1
      <4> QED BY <4>1, <4>2
    <3> HIDE DEF from
    <3>6. \A i \in 1..Len(A) : i # at => A[i].txn # t
      BY <1>11, <3>1
    <3>7. \A k \in 1..Len(B) : \E i \in 1..Len(A) : B[k] = A[i] /\ A[i].txn # t
      BY <3>3, <3>6
    <3>8. \A i \in 1..Len(A) : A[i].txn # t => \E k \in 1..Len(B) : B[k] = A[i]
      <4> SUFFICES ASSUME NEW i \in 1..Len(A), A[i].txn # t PROVE \E k \in 1..Len(B) : B[k] = A[i]
        OBVIOUS
      <4>1. i # at
        BY <3>1
      <4>2. PICK k \in 1..Len(B) : from(k) = i
        BY <3>5, <4>1
      <4> QED BY <3>3, <4>2
    <3>9. \A i, j \in 1..Len(B) : B[i].txn = B[j].txn => i = j
      <4> SUFFICES ASSUME NEW i \in 1..Len(B), NEW j \in 1..Len(B), B[i].txn = B[j].txn PROVE i = j
        OBVIOUS
      <4>1. from(i) = from(j)
        BY <1>11, <3>3
      <4> QED BY <3>4, <4>1
    <3> QED BY <3>2, <3>7, <3>8, <3>9
  <2> QED BY <2>1, <2>2
<1>15. OccTypes'
  BY <1>0, <1>1, <1>2, <1>4, <1>6, <1>14 DEF OccTypes, B
<1>16. OccActive'
  <2>1. \A i \in 1..Len(B) : \A u \in Thread : B[i].txn = u =>
           pc'[u] \in OccRegistered /\ B[i].rows = OccWrites(u)' /\ OccWrites(u)' # {}
    <3> SUFFICES ASSUME NEW i \in 1..Len(B), NEW u \in Thread, B[i].txn = u
                 PROVE  pc'[u] \in OccRegistered /\ B[i].rows = OccWrites(u)' /\ OccWrites(u)' # {}
      OBVIOUS
    <3>1. PICK k \in 1..Len(A) : B[i] = A[k] /\ A[k].txn # t
      BY <1>14
    <3>2. u # t /\ pc[u] \in OccRegistered /\ B[i].rows = OccWrites(u) /\ OccWrites(u) # {}
      BY <1>10, <3>1
    <3> QED BY <1>7, <3>2
  <2>2. \A u \in Thread : pc'[u] \in OccRegistered /\ OccWrites(u)' # {} =>
           \E i \in 1..Len(B) : B[i].txn = u
    <3> SUFFICES ASSUME NEW u \in Thread, pc'[u] \in OccRegistered, OccWrites(u)' # {}
                 PROVE  \E i \in 1..Len(B) : B[i].txn = u
      OBVIOUS
    <3>1. u # t
      BY <1>6
    <3>2. PICK k \in 1..Len(A) : A[k].txn = u
      BY <1>7, <1>12, <3>1
    <3> QED BY <1>14, <3>1, <3>2
  <2> QED BY <1>14, <2>1, <2>2 DEF OccActive, B
<1>17. OccApart'
  <2> SUFFICES ASSUME NEW u \in Thread, NEW v \in Thread, u # v, pc'[u] \in OccPassed, pc'[v] \in OccPassed
               PROVE  OccWrites(u)' \cap OccWrites(v)' = {}
    BY DEF OccApart
  <2>1. u # t /\ v # t
    BY <1>6
  <2> QED BY <1>0, <1>7, <2>1 DEF OccApart
<1>18. OccRows'
  <2>1. \A r : ~OccDirty(t, r) /\ ~OccDirty(t, r)'
    BY <1>1, <1>6 DEF OccDirty
  <2>2. \A u \in Thread : \A r : OccDirty(u, r)' <=> OccDirty(u, r)
    BY <1>7, <2>1
  <2>3. \A r : Latest(r)' = Latest(r)
    BY <1>1 DEF Latest
  <2>4. \A u \in Thread : \A r : OccDirty(u, r) => Attempt(u)' = Attempt(u)
    BY <1>7, <2>1
  <2> QED BY <1>0, <1>1, <2>2, <2>3, <2>4 DEF OccRows
<1>19. \A u \in Thread : OccLoop(u)'
  <2>1. OccLoop(t)'
    BY <1>6 DEF OccLoop
  <2> QED BY <1>0, <1>7, <2>1
<1> QED BY <1>15, <1>16, <1>17, <1>18, <1>19 DEF OccInv

\* The rows as loaded, and no transaction.
LEMMA OccStart ==
  ASSUME OC!Init
  PROVE  OccInv
<1>1. /\ row = [r \in Row |-> [data |-> [h \in 1..2 |-> Loaded]]]
      /\ pc = [t \in Thread |-> "idle"] /\ tries = [t \in Thread |-> 0]
      /\ query = [t \in Thread |-> <<>>] /\ accesses = [t \in Thread |-> <<>>]
      /\ local = [t \in Thread |-> OC!InitialLocal]
      /\ vers = [r \in Row |-> <<Loaded>>]
      /\ occ = [tnc |-> 0, active |-> <<>>, history |-> <<>>]
  BY OccNames DEF OC!Init, OC!FrameInit, OC!InitialRow
<1>2. OccLocal(OC!InitialLocal)
  BY DEF OccLocal, OC!InitialLocal, Copies, Ids, OC!Half, OC!Loaded, Loaded
<1>3. OccTypes
  <2>1. /\ <<>> \in Seq(OccAccessType) /\ <<>> \in Seq(Requests) /\ <<>> \in Seq(OccEntryType)
        /\ <<Loaded>> \in Seq(Ids) /\ [h \in 1..2 |-> Loaded] \in Copies
    BY DEF Ids, Copies
  <2>2. pc \in [Thread -> {"idle", "run", "copy2"} \cup OccRegistered] /\ tries \in [Thread -> Nat]
    BY <1>1
  <2>3. DOMAIN local = Thread /\ \A t \in Thread : OccLocal(local[t])
    BY <1>1, <1>2
  <2>4. row \in [Row -> [data : Copies]] /\ vers \in [Row -> Seq(Ids)]
    BY <1>1, <2>1
  <2>5. accesses \in [Thread -> Seq(OccAccessType)] /\ query \in [Thread -> Seq(Requests)]
    BY <1>1, <2>1
  <2>6. DOMAIN occ = {"tnc", "active", "history"} /\ occ.active \in Seq(OccEntryType)
    BY <1>1, <2>1
  <2> QED BY <2>2, <2>3, <2>4, <2>5, <2>6 DEF OccTypes
<1>4. \A t \in Thread : pc[t] = "idle"
  BY <1>1
<1>5. OccActive
  <2>1. 1..Len(occ.active) = {}
    BY <1>1
  <2> QED BY <1>4, <2>1 DEF OccActive, OccRegistered
<1>6. OccApart
  BY <1>4 DEF OccApart, OccPassed
<1>7. OccRows
  <2>1. \A t \in Thread : \A r : ~OccDirty(t, r)
    BY <1>4 DEF OccDirty
  <2>2. \A r \in Row : Latest(r) = Loaded /\ \A h \in 1..2 : row[r].data[h] = Loaded
    BY <1>1 DEF Latest
  <2> QED BY <2>1, <2>2 DEF OccRows
<1>8. \A t \in Thread : OccLoop(t)
  BY <1>4 DEF OccLoop
<1> QED BY <1>3, <1>5, <1>6, <1>7, <1>8 DEF OccInv

\* Every step of central validation keeps the invariant.
LEMMA OccStep ==
  ASSUME OccInv, NEW t \in Thread, OC!Step(t)
  PROVE  OccInv'
<1>1. ASSUME NEW h \in OC!Half, OC!CopyHalf(t, h) \/ OC!InstallHalf(t, h) PROVE OccInv'
  <2>1. h \in 1..2
    BY OccNames
  <2> QED BY <1>1, <2>1, OccCopyHalf, OccInstallHalf
<1> QED BY <1>1, OccBegin, OccValidate, OccLeave DEF OC!Step

\* Nothing changes.
LEMMA OccStutter ==
  ASSUME OccInv, UNCHANGED <<occ, frameVars>>
  PROVE  OccInv'
<1>1. /\ row' = row /\ pc' = pc /\ tries' = tries /\ query' = query /\ accesses' = accesses
      /\ local' = local /\ vers' = vers /\ occ' = occ
  BY DEF frameVars
<1>2. \A t \in Thread :
         /\ OccWrites(t)' = OccWrites(t) /\ WN(t)' = WN(t) /\ OC!Installing(t)' = OC!Installing(t)
         /\ Attempt(t)' = Attempt(t)
  BY <1>1, OccKept DEF Attempt
<1>3. \A t \in Thread : (OccLoop(t)' <=> OccLoop(t)) /\ \A r : OccDirty(t, r)' <=> OccDirty(t, r)
  BY <1>1, <1>2 DEF OccLoop, OccDirty, HasRequest
<1>4. OccTypes'
  BY <1>1 DEF OccInv, OccTypes
<1>5. OccActive' /\ OccApart'
  BY <1>1, <1>2 DEF OccInv, OccActive, OccApart
<1>6. OccRows'
  BY <1>1, <1>2, <1>3 DEF OccInv, OccRows, Latest
<1> QED BY <1>3, <1>4, <1>5, <1>6 DEF OccInv

\* One writer at a time, and rows that nobody writes are whole.
LEMMA OccWhole ==
  ASSUME OccInv, alg = "OCC"
  PROVE  RowsWhole
<1> SUFFICES ASSUME NEW r \in Row
             PROVE  LET writers == {t \in Thread : pc[t] \in {"install1", "install2"} /\ r \in OC!RowsOf(t, "WR")}
                    IN  /\ Cardinality(writers) <= 1
                        /\ writers = {} => \A h \in OC!Half : row[r].data[h] = Last(vers[r])
  BY DEF RowsWhole
<1> DEFINE writers == {t \in Thread : pc[t] \in {"install1", "install2"} /\ r \in OC!RowsOf(t, "WR")}
<1>1. writers = {t \in Thread : pc[t] \in OccPassed /\ r \in OccWrites(t)}
  BY OccNames DEF OccPassed
<1>2. \A t, u \in writers : t = u
  BY <1>1 DEF OccInv, OccApart
<1>3. writers = {} => \A h \in OC!Half : row[r].data[h] = Last(vers[r])
  <2> SUFFICES ASSUME writers = {} PROVE \A h \in OC!Half : row[r].data[h] = Last(vers[r])
    OBVIOUS
  <2>1. \A t \in Thread : ~OccDirty(t, r)
    <3> SUFFICES ASSUME NEW t \in Thread, OccDirty(t, r) PROVE FALSE
      OBVIOUS
    <3>1. r \in OccWrites(t) /\ pc[t] \in OccPassed
      BY OccDirtyOwner DEF OccDirty, OccPassed
    <3> QED BY <1>1, <3>1
  <2>2. \A h \in 1..2 : row[r].data[h] = Latest(r)
    BY <2>1 DEF OccInv, OccRows
  <2> QED BY <2>2, OccNames DEF Last, Latest
<1>4. Cardinality(writers) <= 1
  <2> HIDE DEF writers
  <2>1. CASE writers = {}
    BY <2>1, FS_EmptySet
  <2>2. CASE writers # {}
    <3>1. PICK t : t \in writers
      BY <2>2
    <3>2. writers = {t}
      BY <1>2, <3>1
    <3>3. Cardinality(writers) = 1
      BY <3>2, FS_Singleton, Zenon
    <3> QED BY <3>3
  <2> QED BY <2>1, <2>2
<1> QED BY <1>3, <1>4

-----------------------------------------------------------------------------
(* The engines together.                                                   *)

\* What the build's engine keeps.
EnginesInv ==
    /\ alg = "SILO" => SiloInv
    /\ alg = "TICTOC" => TicInv
    /\ alg = "OCC" => OccInv

LEMMA EnginesStart ==
  Init => EnginesInv
<1>1. ASSUME SI!Init PROVE SiloInv
  <2>1. SiloBase /\ SiloOrder([x \in Ids |-> 0], 1)
    BY <1>1, SiloStart
  <2>2. [x \in Ids |-> 0] \in [Ids -> Nat] /\ 1 \in Nat
    OBVIOUS
  <2> QED BY <2>1, <2>2 DEF SiloInv
<1> QED BY <1>1, TicStart, OccStart DEF Init, EnginesInv

LEMMA EnginesStep ==
  EnginesInv /\ [Next]_vars => EnginesInv'
<1> SUFFICES ASSUME EnginesInv, [Next]_vars PROVE EnginesInv'
  OBVIOUS
<1>1. CASE \E t \in Thread : Step(t)
  BY <1>1, SiloStep, TicStep, OccStep DEF Step, EnginesInv
<1>2. CASE UNCHANGED <<alg, occ, frameVars>>
  BY <1>2, SiloStutter, TicStutter, OccStutter DEF EnginesInv
<1> QED BY <1>1, <1>2 DEF Next, Terminating, vars

\* The build's engine keeps its invariant in every reachable state.
THEOREM EnginesKeepInv ==
  Spec => []EnginesInv
<1> QED BY EnginesStart, EnginesStep, PTL DEF Spec

\* The attempts that validate_silo lets commit have a serial order, whatever the
\* threads, rows and queries: a set of committed attempts always has one that no
\* other of the set must precede.
THEOREM SiloSerializable ==
  Spec => []Serializable
<1>1. EnginesInv => Serializable
  BY SiloSerial DEF EnginesInv, Serializable
<1> QED BY <1>1, EnginesKeepInv, PTL

\* Between the copy that access makes of a row and the commit that writes it
\* nothing is installed there, for Silo and for TicToc: a word that is locked
\* and unchanged names the version that was copied, renewed leases included.
THEOREM CommitsReplaceWhatTheyRead ==
  Spec => []NoLostUpdate
<1>1. EnginesInv => NoLostUpdate
  <2>1. SiloInv => FrameTypes /\ HistoryKept
    BY DEF SiloInv, SiloBase, SiloTypes
  <2>2. TicInv => FrameTypes /\ HistoryKept
    BY DEF TicInv, TicTypes
  <2>3. ~Optimistic => NoLostUpdate
    BY DEF NoLostUpdate
  <2> QED BY <2>1, <2>2, <2>3, HistoryNoLostUpdate DEF EnginesInv, Optimistic
<1> QED BY <1>1, EnginesKeepInv, PTL

\* Row_occ::write copies rows back without a latch, and central_validate keeps
\* it safe: the write sets of two transactions that passed are apart, because
\* the later one found the earlier one's in the list of active sets.
THEOREM RowsStayWhole ==
  Spec => []RowsWhole
<1>1. EnginesInv => RowsWhole
  <2>1. alg # "OCC" => RowsWhole
    BY DEF RowsWhole
  <2> QED BY <2>1, OccWhole DEF EnginesInv
<1> QED BY <1>1, EnginesKeepInv, PTL

=============================================================================
