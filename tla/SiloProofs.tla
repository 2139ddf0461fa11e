----------------------------- MODULE SiloProofs -----------------------------
(***************************************************************************)
(* Silo is serializable: proofs about the Silo part of Engines.  The first *)
(* part, about write sets and versions, serves TicToc as well.             *)
(***************************************************************************)
EXTENDS Engines, SeqLemmas

-----------------------------------------------------------------------------
(* What Silo and TicToc have in common.                                    *)

\* The writers a version may have.
Ids == (Thread \X Nat) \cup {Loaded}
Copies == [1..2 -> Ids]

\* The row of the k-th entry of the sorted write set.
WRow(t, k) == accesses[t][WriteSet(t)[k]].row
WN(t) == Cardinality(Of(t, "WR"))
RN(t) == Cardinality(Of(t, "RD"))
WRows(t, a, b) == {WRow(t, k) : k \in a..b}

Requests == [row : Row, type : {"RD", "WR"}]
RowsDiffer(q) == \A i, j \in 1..Len(q) : q[i].row = q[j].row => i = j

FrameTypes ==
    /\ tries \in [Thread -> Nat]
    /\ query \in [Thread -> Seq(Requests)]
    /\ hist \subseteq [id : Ids, reads : SUBSET (Row \X Ids), writes : SUBSET Row]
    /\ vers \in [Row -> Seq(Ids)]

\* The accesses of a transaction follow its query.
Follows(t) ==
    /\ RowsDiffer(query[t])
    /\ Len(accesses[t]) <= Len(query[t])
    /\ \A i \in 1..Len(accesses[t]) :
          accesses[t][i].row = query[t][i].row /\ accesses[t][i].type = query[t][i].type
    /\ pc[t] = "idle" => accesses[t] = <<>>
    /\ pc[t] # "idle" => query[t] # <<>> /\ tries[t] > 0

Latest(r) == vers[r][Len(vers[r])]
HasVersion(r, x) == \E m \in 1..Len(vers[r]) : vers[r][m] = x

\* id replaced version x of row r.
Replaced(r, x, id) == \E m \in 1..(Len(vers[r]) - 1) : vers[r][m] = x /\ vers[r][m + 1] = id

\* What the committed attempts read and wrote is in the order of versions, and
\* no two of them have one identity.
HistoryKept ==
    /\ \A r \in Row : vers[r] # <<>>
    /\ \A h \in hist : \A r \in Row, x \in Ids : <<r, x>> \in h.reads => HasVersion(r, x)
    /\ \A h \in hist : \A r \in h.writes : \E x \in Ids : <<r, x>> \in h.reads /\ Replaced(r, x, h.id)
    /\ \A h, k \in hist : h.id = k.id => h = k

\* Identities are used up in the order of attempts.
IdsUsed ==
    /\ \A t \in Thread, n \in Nat, r \in Row : HasVersion(r, <<t, n>>) => n <= tries[t]
    /\ \A h \in hist : \A t \in Thread, n \in Nat : h.id = <<t, n>> => n <= tries[t]
    /\ \A h \in hist : h.id # Loaded
    /\ \A h \in hist : \A t \in Thread : pc[t] # "idle" => h.id # Attempt(t)

-----------------------------------------------------------------------------
(* Silo.                                                                   *)

SiloCopying == {"copy1", "copy2", "check"}
SiloLocking == {"lock", "backoff", "abort", "reads"}
SiloInstalling == {"install1", "install2", "word", "release"}

SiloTypes ==
    /\ FrameTypes
    /\ row \in [Row -> [tid : Nat, lock : BOOLEAN, data : Copies]]
    /\ pc \in [Thread -> {"idle", "run"} \cup SiloCopying \cup SiloLocking \cup SiloInstalling]
    /\ accesses \in [Thread -> Seq([row : Row, type : {"RD", "WR"}, data : Copies, tid : Nat])]
    /\ local \in [Thread -> [v : Nat, copy : Copies, num_locks : Nat, i : Nat, cur_tid : Nat]]

\* Where the loops of access and validate_silo are.
SiloLoop(t) ==
    /\ pc[t] \in SiloCopying => HasRequest(t)
    /\ pc[t] \in SiloLocking \cup SiloInstalling => accesses[t] # <<>>
    /\ pc[t] \in SiloLocking => local[t].num_locks <= WN(t)
    /\ pc[t] = "reads" => local[t].num_locks = WN(t) /\ local[t].i <= RN(t)
    /\ pc[t] \in SiloInstalling => local[t].i <= WN(t)
    /\ pc[t] \in SiloInstalling \ {"install1"} => local[t].i < WN(t)

\* The rows whose lock bit a thread has set.
SiloHeld(t) ==
    IF pc[t] \in SiloLocking THEN WRows(t, 1, local[t].num_locks)
    ELSE IF pc[t] \in SiloInstalling THEN WRows(t, local[t].i + 1, WN(t)) ELSE {}

SiloLocks ==
    /\ \A r \in Row : row[r].lock <=> \E t \in Thread : r \in SiloHeld(t)
    /\ \A t, u \in Thread : \A r \in SiloHeld(t) : r \in SiloHeld(u) => t = u

\* How many numbers are stored, the rows whose numbers are not, and the row
\* whose data is ahead of its number.
SiloDone(t) == IF pc[t] = "release" THEN local[t].i + 1 ELSE IF pc[t] \in SiloInstalling THEN local[t].i ELSE 0
SiloDecided(t) == pc[t] \in {"reads"} \cup SiloInstalling
SiloPending(t) == WRows(t, SiloDone(t) + 1, WN(t))
SiloDirty(t, r) == pc[t] \in {"install2", "word"} /\ r = WRow(t, local[t].i + 1)
SiloClean(r) == \A t \in Thread : ~SiloDirty(t, r)

\* A row that nobody is writing holds its latest version, one that is written
\* holds the writer's.
SiloRows ==
    /\ \A r \in Row : SiloClean(r) => \A h \in 1..2 : row[r].data[h] = Latest(r)
    /\ \A t \in Thread, r \in Row : SiloDirty(t, r) =>
          /\ row[r].data[1] = Attempt(t)
          /\ pc[t] = "word" => row[r].data[2] = Attempt(t)

\* A copy made while the row keeps its number and is not written is current.
Copied(t, h) == pc[t] = "check" \/ (pc[t] = "copy2" /\ h = 1)
SiloCopy(t) ==
    pc[t] \in SiloCopying =>
        LET r == Request(t).row IN
        /\ local[t].v <= row[r].tid
        /\ row[r].tid = local[t].v /\ SiloClean(r) =>
              \A h \in 1..2 : Copied(t, h) => local[t].copy[h] = Latest(r)

\* An access has a version of its row, the latest while the row keeps its number.
SiloAccess(t) ==
    \A i \in 1..Len(accesses[t]) :
        LET a == accesses[t][i] IN
        /\ a.tid <= row[a.row].tid
        /\ HasVersion(a.row, a.data[1])
        /\ a.tid = row[a.row].tid => a.data[1] = Latest(a.row)

\* A row locked for a commit keeps the number its copy has; the commit's own is
\* above it; and a row that was installed had the version that was copied.
SiloCurrent(t) ==
    /\ pc[t] \in {"lock", "reads"} =>
          \A k \in 1..local[t].num_locks :
             accesses[t][WriteSet(t)[k]].tid = row[WRow(t, k)].tid
    /\ pc[t] \in SiloInstalling =>
          \A k \in (SiloDone(t) + 1)..WN(t) :
             /\ accesses[t][WriteSet(t)[k]].tid = row[WRow(t, k)].tid
             /\ local[t].cur_tid > row[WRow(t, k)].tid
    /\ pc[t] \in SiloInstalling =>
          \A k \in 1..SiloDone(t) :
             Replaced(WRow(t, k), accesses[t][WriteSet(t)[k]].data[1], Attempt(t))

\* A version with the identity of a running attempt was installed by it.
SiloFresh(t) ==
    \A r \in Row : pc[t] # "idle" /\ HasVersion(r, Attempt(t)) => pc[t] \in SiloInstalling

SiloThread(t) ==
    /\ Follows(t) /\ SiloLoop(t) /\ SiloCopy(t) /\ SiloAccess(t) /\ SiloCurrent(t) /\ SiloFresh(t)

SiloBase ==
    /\ SiloTypes /\ HistoryKept /\ IdsUsed /\ SiloLocks /\ SiloRows
    /\ \A t \in Thread : SiloThread(t)

\* t has validated its read of version x of row r.
SiloValidated(t, r, x) ==
    /\ SiloDecided(t)
    /\ \E k \in 1..RN(t) :
          /\ pc[t] = "reads" => k <= local[t].i
          /\ accesses[t][ReadSet(t)[k]].row = r /\ accesses[t][ReadSet(t)[k]].data[1] = x

\* id, which read version x of row r, comes before whatever replaces it.
ReadBefore(rank, id, r, x) ==
    /\ rank[x] < rank[id]
    /\ \A m, j \in 1..Len(vers[r]) :
          vers[r][m] = x /\ j > m => vers[r][j] = id \/ rank[id] < rank[vers[r][j]]
    /\ \A t \in Thread :
          SiloDecided(t) /\ r \in SiloPending(t) /\ Attempt(t) # id => rank[id] < rank[Attempt(t)]

\* rank is a serial order of the attempts that hold all their locks and of the
\* committed ones; n is above all of them.
SiloOrder(rank, n) ==
    /\ \A r \in Row : \A m \in 1..Len(vers[r]) : rank[vers[r][m]] < n
    /\ \A t \in Thread : SiloDecided(t) => rank[Attempt(t)] < n
    /\ \A h \in hist : rank[h.id] < n
    /\ \A r \in Row : \A m, j \in 1..Len(vers[r]) : m < j => rank[vers[r][m]] < rank[vers[r][j]]
    /\ \A t \in Thread, r \in Row : SiloDecided(t) /\ r \in SiloPending(t) =>
          \A m \in 1..Len(vers[r]) : rank[vers[r][m]] < rank[Attempt(t)]
    /\ \A t \in Thread : SiloDecided(t) =>
          \A i \in 1..Len(accesses[t]) : rank[accesses[t][i].data[1]] < rank[Attempt(t)]
    /\ \A h \in hist : \A r \in Row, x \in Ids : <<r, x>> \in h.reads => ReadBefore(rank, h.id, r, x)
    /\ \A t \in Thread, r \in Row, x \in Ids : SiloValidated(t, r, x) =>
          ReadBefore(rank, Attempt(t), r, x)

SiloInv ==
    /\ SiloBase
    /\ \E rank \in [Ids -> Nat], n \in Nat : SiloOrder(rank, n)

-----------------------------------------------------------------------------
(* Write sets.                                                             *)

\* InOrder enumerates a finite set whose members have different keys.
LEMMA InOrderProps ==
  ASSUME NEW S, IsFiniteSet(S), NEW key \in [S -> Nat],
         \A i, j \in S : key[i] = key[j] => i = j
  PROVE  /\ Cardinality(S) \in Nat
         /\ InOrder(S, key) \in [1..Cardinality(S) -> S]
         /\ \A a, b \in 1..Cardinality(S) : InOrder(S, key)[a] = InOrder(S, key)[b] => a = b
         /\ \A i \in S : \E a \in 1..Cardinality(S) : InOrder(S, key)[a] = i
<1> DEFINE Below(i) == {j \in S : key[j] < key[i]}
           n == Cardinality(S)
           rk == [i \in S |-> Cardinality(Below(i)) + 1]
<1>1. n \in Nat
  BY FS_CardinalityType
<1>2. ASSUME NEW i \in S
      PROVE  /\ IsFiniteSet(Below(i))
             /\ Cardinality(Below(i)) \in 0..(n - 1) /\ Cardinality(Below(i)) \in Int
  <2>1. IsFiniteSet(S \ {i}) /\ Cardinality(S \ {i}) = n - 1
    BY FS_RemoveElement
  <2>2. Below(i) \in SUBSET (S \ {i})
    OBVIOUS
  <2>3. IsFiniteSet(Below(i)) /\ Cardinality(Below(i)) <= n - 1
    BY <2>1, <2>2, FS_Subset
  <2>4. Cardinality(Below(i)) \in Nat
    BY <2>3, FS_CardinalityType
  <2> HIDE DEF Below, n
  <2> QED BY <1>1, <2>3, <2>4
<1>3. ASSUME NEW i \in S, NEW j \in S, key[i] < key[j]
      PROVE  Cardinality(Below(i)) < Cardinality(Below(j))
  <2>1. Below(i) \in SUBSET Below(j)
    <3>1. \A k \in S : key[k] \in Nat
      OBVIOUS
    <3> QED BY <1>3, <3>1
  <2>2. i \in Below(j) /\ i \notin Below(i)
    BY <1>3
  <2>3. /\ Cardinality(Below(i)) <= Cardinality(Below(j))
        /\ Cardinality(Below(j)) = Cardinality(Below(i)) => Below(i) = Below(j)
    <3> HIDE DEF Below
    <3> QED BY <1>2, <2>1, FS_Subset
  <2>4. Below(i) # Below(j)
    BY <2>2
  <2> HIDE DEF Below, n
  <2> QED BY <1>1, <1>2, <2>3, <2>4
<1>4. rk \in [S -> 1..n]
  <2> HIDE DEF Below, n
  <2>1. \A i \in S : Cardinality(Below(i)) \in 0..(n - 1)
    BY <1>2
  <2>2. \A c \in 0..(n - 1) : c + 1 \in 1..n
    BY <1>1
  <2> QED BY <2>1, <2>2
<1>5. \A i, j \in S : rk[i] = rk[j] => i = j
  <2> SUFFICES ASSUME NEW i \in S, NEW j \in S, rk[i] = rk[j] PROVE i = j
    OBVIOUS
  <2>1. key[i] \in Nat /\ key[j] \in Nat
    OBVIOUS
  <2>2. Cardinality(Below(i)) = Cardinality(Below(j))
    <3>1. Cardinality(Below(i)) \in Int /\ Cardinality(Below(j)) \in Int
      <4> HIDE DEF Below, n
      <4> QED BY <1>2
    <3>2. Cardinality(Below(i)) + 1 = Cardinality(Below(j)) + 1
      OBVIOUS
    <3> HIDE DEF Below
    <3> QED BY <3>1, <3>2
  <2>3. Cardinality(Below(i)) \in Int /\ Cardinality(Below(j)) \in Int
    <3> HIDE DEF Below, n
    <3> QED BY <1>2
  <2>4. ~(key[i] < key[j])
    <3> HIDE DEF Below
    <3> QED BY <1>3, <2>2, <2>3
  <2>5. ~(key[j] < key[i])
    <3> HIDE DEF Below
    <3> QED BY <1>3, <2>2, <2>3
  <2> QED BY <2>1, <2>4, <2>5
<1>6. rk \in Injection(S, 1..n)
  <2> HIDE DEF rk, n
  <2> QED BY <1>4, <1>5 DEF Injection, IsInjective
<1>7. IsFiniteSet(1..n) /\ Cardinality(1..n) = n
  <2> HIDE DEF n
  <2> QED BY <1>1, FS_Interval
<1>8. rk \in Surjection(S, 1..n)
  <2>1. Cardinality(S) = Cardinality(1..n)
    BY <1>7
  <2> HIDE DEF rk, n
  <2> QED BY <1>6, <1>7, <2>1, FS_Injection
<1>9. \A a \in 1..n : \E i \in S : rk[i] = a
  <2> HIDE DEF rk, n
  <2> QED BY <1>8 DEF Surjection
<1>10. \A a \in 1..n : \E i \in S : Cardinality(Below(i)) = a - 1
  <2> SUFFICES ASSUME NEW a \in 1..n PROVE \E i \in S : Cardinality(Below(i)) = a - 1
    OBVIOUS
  <2>1. PICK i \in S : rk[i] = a
    <3> HIDE DEF rk, n
    <3> QED BY <1>9
  <2>2. Cardinality(Below(i)) + 1 = a
    BY <2>1
  <2>3. Cardinality(Below(i)) \in Int
    <3> HIDE DEF Below, n
    <3> QED BY <1>2
  <2>4. Cardinality(Below(i)) = a - 1
    <3> HIDE DEF Below, n
    <3> QED BY <1>1, <2>2, <2>3
  <2> QED BY <2>4
<1> DEFINE f == InOrder(S, key)
<1>11. f = [a \in 1..n |-> CHOOSE i \in S : Cardinality(Below(i)) = a - 1]
  BY DEF InOrder
<1>12. \A a \in 1..n : f[a] \in S /\ Cardinality(Below(f[a])) = a - 1
  <2> HIDE DEF Below, n
  <2> SUFFICES ASSUME NEW a \in 1..n PROVE f[a] \in S /\ Cardinality(Below(f[a])) = a - 1
    OBVIOUS
  <2>1. f[a] = CHOOSE i \in S : Cardinality(Below(i)) = a - 1
    BY <1>11
  <2>2. \E i \in S : Cardinality(Below(i)) = a - 1
    BY <1>10
  <2> HIDE DEF f
  <2> QED BY <2>1, <2>2
<1>13. f \in [1..n -> S]
  <2> HIDE DEF Below, n
  <2>1. f = [a \in 1..n |-> f[a]]
    BY <1>11
  <2> HIDE DEF f
  <2> QED BY <1>12, <2>1
<1>14. \A a, b \in 1..n : f[a] = f[b] => a = b
  <2> HIDE DEF Below, n, f
  <2> SUFFICES ASSUME NEW a \in 1..n, NEW b \in 1..n, f[a] = f[b] PROVE a = b
    OBVIOUS
  <2>1. a - 1 = b - 1
    BY <1>12
  <2> QED BY <1>1, <2>1
<1>15. \A i \in S : \E a \in 1..n : f[a] = i
  <2> SUFFICES ASSUME NEW i \in S PROVE \E a \in 1..n : f[a] = i
    OBVIOUS
  <2>1. rk[i] \in 1..n
    <3> HIDE DEF rk, n
    <3> QED BY <1>4
  <2>2. f[rk[i]] \in S /\ Cardinality(Below(f[rk[i]])) = rk[i] - 1
    <3> HIDE DEF rk, n, f, Below
    <3> QED BY <1>12, <2>1
  <2>3. rk[f[rk[i]]] = Cardinality(Below(f[rk[i]])) + 1
    <3> HIDE DEF f, Below, n
    <3> QED BY <2>2
  <2>4. rk[f[rk[i]]] = rk[i]
    <3> HIDE DEF rk, n, f, Below
    <3> QED BY <1>1, <2>1, <2>2, <2>3
  <2>5. f[rk[i]] = i
    <3> HIDE DEF rk, n, f
    <3> QED BY <1>5, <2>2, <2>4
  <2> HIDE DEF rk, f, n
  <2> QED BY <2>1, <2>5
<1> HIDE DEF f, rk, Below
<1>16. f = InOrder(S, key)
  BY DEF f
<1> QED BY <1>1, <1>13, <1>14, <1>15, <1>16

RowsOK(t) ==
    /\ Len(accesses[t]) \in Nat
    /\ \A i \in 1..Len(accesses[t]) : accesses[t][i].row \in Row /\ accesses[t][i].type \in {"RD", "WR"}
    /\ RowsDiffer(accesses[t])

\* The sorted write set lists the accesses of type WR, each once.
LEMMA WriteSetProps ==
  ASSUME NEW t \in Thread, RowsOK(t)
  PROVE  /\ WN(t) \in Nat
         /\ WriteSet(t) \in [1..WN(t) -> Of(t, "WR")] /\ Len(WriteSet(t)) = WN(t)
         /\ \A a \in 1..WN(t) :
               /\ WriteSet(t)[a] \in 1..Len(accesses[t])
               /\ accesses[t][WriteSet(t)[a]].type = "WR"
               /\ WRow(t, a) \in Row
         /\ \A a, b \in 1..WN(t) : WRow(t, a) = WRow(t, b) => a = b
         /\ \A i \in Of(t, "WR") : \E a \in 1..WN(t) : WriteSet(t)[a] = i
<1> DEFINE S == Of(t, "WR")
           key == [i \in S |-> accesses[t][i].row]
<1>1. S \in SUBSET (1..Len(accesses[t]))
  BY DEF Of
<1>2. IsFiniteSet(1..Len(accesses[t]))
  BY FS_Interval DEF RowsOK
<1>3. IsFiniteSet(S)
  <2> HIDE DEF S
  <2> QED BY <1>1, <1>2, FS_Subset
<1>4. Row \subseteq Nat
  BY FrameAssumption
<1>5. key \in [S -> Nat]
  <2> HIDE DEF S
  <2> QED BY <1>1, <1>4 DEF RowsOK
<1>6. \A i, j \in S : key[i] = key[j] => i = j
  <2> HIDE DEF S
  <2> QED BY <1>1 DEF RowsOK, RowsDiffer
<1>7. /\ Cardinality(S) \in Nat
      /\ InOrder(S, key) \in [1..Cardinality(S) -> S]
      /\ \A a, b \in 1..Cardinality(S) : InOrder(S, key)[a] = InOrder(S, key)[b] => a = b
      /\ \A i \in S : \E a \in 1..Cardinality(S) : InOrder(S, key)[a] = i
  <2> HIDE DEF S, key
  <2> QED BY <1>3, <1>5, <1>6, InOrderProps
<1>8. WriteSet(t) = InOrder(S, key) /\ WN(t) = Cardinality(S)
  BY DEF WriteSet, WN
<1> HIDE DEF key
<1>9. /\ WN(t) \in Nat
      /\ WriteSet(t) \in [1..WN(t) -> S]
      /\ \A a, b \in 1..WN(t) : WriteSet(t)[a] = WriteSet(t)[b] => a = b
      /\ \A i \in S : \E a \in 1..WN(t) : WriteSet(t)[a] = i
  BY <1>7, <1>8
<1>10. Len(WriteSet(t)) = WN(t)
  <2>1. WriteSet(t) \in Seq(S)
    <3> HIDE DEF S
    <3> QED BY <1>9, SeqDef
  <2> HIDE DEF S
  <2> QED BY <1>9, <2>1, LenProperties
<1>11. \A a \in 1..WN(t) :
          /\ WriteSet(t)[a] \in 1..Len(accesses[t])
          /\ accesses[t][WriteSet(t)[a]].type = "WR"
          /\ WRow(t, a) \in Row
  BY <1>9 DEF Of, WRow, RowsOK
<1>12. \A a, b \in 1..WN(t) : WRow(t, a) = WRow(t, b) => WriteSet(t)[a] = WriteSet(t)[b]
  BY <1>11 DEF WRow, RowsOK, RowsDiffer
<1> QED BY <1>9, <1>10, <1>11, <1>12

\* The read set lists the accesses of type RD.
LEMMA ReadSetProps ==
  ASSUME NEW t \in Thread, RowsOK(t)
  PROVE  /\ RN(t) \in Nat
         /\ ReadSet(t) \in [1..RN(t) -> Of(t, "RD")] /\ Len(ReadSet(t)) = RN(t)
         /\ \A a \in 1..RN(t) :
               ReadSet(t)[a] \in 1..Len(accesses[t]) /\ accesses[t][ReadSet(t)[a]].type = "RD"
         /\ \A i \in Of(t, "RD") : \E a \in 1..RN(t) : ReadSet(t)[a] = i
<1> DEFINE S == Of(t, "RD")
           key == [i \in S |-> i]
<1>1. S \in SUBSET (1..Len(accesses[t]))
  BY DEF Of
<1>2. IsFiniteSet(1..Len(accesses[t]))
  BY FS_Interval DEF RowsOK
<1>3. IsFiniteSet(S)
  <2> HIDE DEF S
  <2> QED BY <1>1, <1>2, FS_Subset
<1>4. key \in [S -> Nat] /\ \A i, j \in S : key[i] = key[j] => i = j
  <2> HIDE DEF S
  <2> QED BY <1>1 DEF RowsOK
<1>5. /\ Cardinality(S) \in Nat
      /\ InOrder(S, key) \in [1..Cardinality(S) -> S]
      /\ \A i \in S : \E a \in 1..Cardinality(S) : InOrder(S, key)[a] = i
  <2> HIDE DEF S, key
  <2> QED BY <1>3, <1>4, InOrderProps
<1>6. ReadSet(t) = InOrder(S, key) /\ RN(t) = Cardinality(S)
  BY DEF ReadSet, RN
<1> HIDE DEF key
<1>7. /\ RN(t) \in Nat
      /\ ReadSet(t) \in [1..RN(t) -> S]
      /\ \A i \in S : \E a \in 1..RN(t) : ReadSet(t)[a] = i
  BY <1>5, <1>6
<1>8. Len(ReadSet(t)) = RN(t)
  <2>1. ReadSet(t) \in Seq(S)
    <3> HIDE DEF S
    <3> QED BY <1>7, SeqDef
  <2> HIDE DEF S
  <2> QED BY <1>7, <2>1, LenProperties
<1>9. \A a \in 1..RN(t) :
         ReadSet(t)[a] \in 1..Len(accesses[t]) /\ accesses[t][ReadSet(t)[a]].type = "RD"
  BY <1>7 DEF Of
<1> QED BY <1>7, <1>8, <1>9

\* They depend on the thread's accesses alone.
LEMMA SetsKept ==
  ASSUME NEW t \in Thread, accesses'[t] = accesses[t]
  PROVE  /\ Of(t, "WR")' = Of(t, "WR") /\ Of(t, "RD")' = Of(t, "RD")
         /\ WriteSet(t)' = WriteSet(t) /\ ReadSet(t)' = ReadSet(t)
         /\ WN(t)' = WN(t) /\ RN(t)' = RN(t)
         /\ \A k : WRow(t, k)' = WRow(t, k)
         /\ \A a, b : WRows(t, a, b)' = WRows(t, a, b)
         /\ RowsOK(t)' <=> RowsOK(t)
<1>1. Of(t, "WR")' = Of(t, "WR") /\ Of(t, "RD")' = Of(t, "RD")
  BY DEF Of
<1>2. WriteSet(t)' = WriteSet(t) /\ ReadSet(t)' = ReadSet(t)
  <2>1. [i \in Of(t, "WR") |-> accesses[t][i].row]' = [i \in Of(t, "WR") |-> accesses[t][i].row]
    BY <1>1
  <2>2. [i \in Of(t, "RD") |-> i]' = [i \in Of(t, "RD") |-> i]
    BY <1>1
  <2> QED BY <1>1, <2>1, <2>2, Zenon DEF WriteSet, ReadSet
<1>3. WN(t)' = WN(t) /\ RN(t)' = RN(t)
  BY <1>1 DEF WN, RN
<1>4. \A k : WRow(t, k)' = WRow(t, k)
  BY <1>2 DEF WRow
<1>5. \A a, b : WRows(t, a, b)' = WRows(t, a, b)
  BY <1>4 DEF WRows
<1>6. RowsOK(t)' <=> RowsOK(t)
  BY DEF RowsOK, RowsDiffer
<1> QED BY <1>1, <1>2, <1>3, <1>4, <1>5, <1>6

-----------------------------------------------------------------------------
(* Versions.                                                               *)

\* Versions are only appended.
VersionsGrow ==
    \A r \in Row :
        /\ Len(vers[r]) <= Len(vers'[r])
        /\ \A m \in 1..Len(vers[r]) : vers'[r][m] = vers[r][m]

LEMMA VersionLemma ==
  ASSUME FrameTypes, FrameTypes', VersionsGrow, NEW r \in Row
  PROVE  /\ \A x : HasVersion(r, x) => HasVersion(r, x)'
         /\ \A x, id : Replaced(r, x, id) => Replaced(r, x, id)'
<1>1. Len(vers[r]) \in Nat /\ Len(vers'[r]) \in Nat
  BY DEF FrameTypes
<1>2. Len(vers[r]) <= Len(vers'[r]) /\ \A m \in 1..Len(vers[r]) : vers'[r][m] = vers[r][m]
  BY DEF VersionsGrow
<1>3. ASSUME NEW x, HasVersion(r, x) PROVE HasVersion(r, x)'
  <2>1. PICK m \in 1..Len(vers[r]) : vers[r][m] = x
    BY <1>3 DEF HasVersion
  <2>2. m \in 1..Len(vers'[r]) /\ vers'[r][m] = x
    BY <1>1, <1>2, <2>1
  <2> QED BY <2>2 DEF HasVersion
<1>4. ASSUME NEW x, NEW id, Replaced(r, x, id) PROVE Replaced(r, x, id)'
  <2>1. PICK m \in 1..(Len(vers[r]) - 1) : vers[r][m] = x /\ vers[r][m + 1] = id
    BY <1>4 DEF Replaced
  <2>2. m \in 1..(Len(vers'[r]) - 1) /\ m \in 1..Len(vers[r]) /\ m + 1 \in 1..Len(vers[r])
    BY <1>1, <1>2, <2>1
  <2>3. vers'[r][m] = x /\ vers'[r][m + 1] = id
    BY <1>2, <2>1, <2>2
  <2> QED BY <2>2, <2>3 DEF Replaced
<1> QED BY <1>3, <1>4

\* A version that replaces another is a version, and so is the one replaced.
LEMMA ReplacedIsVersion ==
  ASSUME FrameTypes, NEW r \in Row, NEW x, NEW id, Replaced(r, x, id)
  PROVE  HasVersion(r, x) /\ HasVersion(r, id)
<1>1. Len(vers[r]) \in Nat
  BY DEF FrameTypes
<1>2. PICK m \in 1..(Len(vers[r]) - 1) : vers[r][m] = x /\ vers[r][m + 1] = id
  BY DEF Replaced
<1>3. m \in 1..Len(vers[r]) /\ m + 1 \in 1..Len(vers[r])
  BY <1>1, <1>2
<1> QED BY <1>2, <1>3 DEF HasVersion

\* The step is one of thread t.
OnlyThread(t) ==
    \A u \in Thread \ {t} :
        /\ pc'[u] = pc[u] /\ tries'[u] = tries[u] /\ query'[u] = query[u]
        /\ accesses'[u] = accesses[u] /\ local'[u] = local[u]

\* The accesses of a thread are on different rows.
LEMMA FollowsRowsOK ==
  ASSUME NEW t \in Thread, Follows(t), query[t] \in Seq(Requests), Len(accesses[t]) \in Nat
  PROVE  RowsOK(t)
<1>1. Len(query[t]) \in Nat /\ \A i \in 1..Len(query[t]) : query[t][i] \in Requests
  OBVIOUS
<1>2. \A i \in 1..Len(accesses[t]) : i \in 1..Len(query[t])
  BY <1>1 DEF Follows
<1>3. \A i \in 1..Len(accesses[t]) :
         accesses[t][i].row = query[t][i].row /\ accesses[t][i].type = query[t][i].type
  BY DEF Follows
<1>4. RowsDiffer(accesses[t])
  BY <1>2, <1>3 DEF Follows, RowsDiffer
<1>5. \A i \in 1..Len(accesses[t]) : accesses[t][i].row \in Row /\ accesses[t][i].type \in {"RD", "WR"}
  BY <1>1, <1>2, <1>3 DEF Requests
<1> QED BY <1>4, <1>5 DEF RowsOK

-----------------------------------------------------------------------------
(* Silo: what a step does to the other threads.                            *)

LEMMA SiloRowsOK ==
  ASSUME SiloTypes, NEW t \in Thread, Follows(t)
  PROVE  RowsOK(t)
<1>1. query[t] \in Seq(Requests) /\ Len(accesses[t]) \in Nat
  BY DEF SiloTypes, FrameTypes
<1> QED BY <1>1, FollowsRowsOK

SiloAccessType == [row : Row, type : {"RD", "WR"}, data : Copies, tid : Nat]
SiloLocalType == [v : Nat, copy : Copies, num_locks : Nat, i : Nat, cur_tid : Nat]

\* The types of one thread's state.
LEMMA SiloTyped ==
  ASSUME SiloTypes, NEW t \in Thread
  PROVE  /\ query[t] \in Seq(Requests) /\ Len(query[t]) \in Nat
         /\ \A i \in 1..Len(query[t]) : query[t][i] \in Requests
         /\ accesses[t] \in Seq(SiloAccessType) /\ Len(accesses[t]) \in Nat
         /\ \A i \in 1..Len(accesses[t]) :
               /\ accesses[t][i] \in SiloAccessType
               /\ accesses[t][i].row \in Row /\ accesses[t][i].tid \in Nat
               /\ accesses[t][i].data[1] \in Ids
         /\ local[t] \in SiloLocalType
         /\ local[t].v \in Nat /\ local[t].num_locks \in Nat /\ local[t].i \in Nat
         /\ local[t].cur_tid \in Nat /\ local[t].copy \in Copies
         /\ tries[t] \in Nat
         /\ Attempt(t) \in Ids
<1>1. query[t] \in Seq(Requests) /\ tries[t] \in Nat
  BY DEF SiloTypes, FrameTypes
<1>2. Len(query[t]) \in Nat /\ \A i \in 1..Len(query[t]) : query[t][i] \in Requests
  BY <1>1
<1>3. accesses[t] \in Seq(SiloAccessType)
  BY DEF SiloTypes, SiloAccessType
<1>4. Len(accesses[t]) \in Nat /\ \A i \in 1..Len(accesses[t]) : accesses[t][i] \in SiloAccessType
  BY <1>3
<1>5. \A a \in SiloAccessType : a.row \in Row /\ a.tid \in Nat /\ a.data[1] \in Ids
  BY DEF SiloAccessType, Copies
<1>6. local[t] \in SiloLocalType
  BY DEF SiloTypes, SiloLocalType
<1>7. /\ local[t].v \in Nat /\ local[t].num_locks \in Nat /\ local[t].i \in Nat
      /\ local[t].cur_tid \in Nat /\ local[t].copy \in Copies
  BY <1>6 DEF SiloLocalType
<1>8. Attempt(t) \in Ids
  BY <1>1 DEF Attempt, Ids
<1> QED BY <1>1, <1>2, <1>3, <1>4, <1>5, <1>6, <1>7, <1>8

\* The row of the request that is being served.
LEMMA SiloRequest ==
  ASSUME SiloTypes, NEW t \in Thread, HasRequest(t)
  PROVE  /\ Len(accesses[t]) + 1 \in 1..Len(query[t])
         /\ Request(t) \in Requests /\ Request(t).row \in Row /\ Request(t).type \in {"RD", "WR"}
<1>1. /\ Len(accesses[t]) \in Nat /\ Len(query[t]) \in Nat
      /\ \A i \in 1..Len(query[t]) : query[t][i] \in Requests
  BY SiloTyped
<1>2. Len(accesses[t]) + 1 \in 1..Len(query[t])
  BY <1>1 DEF HasRequest
<1>3. Request(t) \in Requests
  BY <1>1, <1>2 DEF Request
<1> QED BY <1>2, <1>3 DEF Requests

\* The names of TxnFrame mean the same in the instance.
LEMMA SiloNames ==
  /\ SI!Loaded = Loaded /\ SI!Half = 1..2
  /\ \A t : /\ SI!Attempt(t) = Attempt(t) /\ SI!Request(t) = Request(t)
            /\ SI!HasRequest(t) <=> HasRequest(t)
            /\ SI!WriteSet(t) = WriteSet(t) /\ SI!ReadSet(t) = ReadSet(t)
            /\ SI!Of(t, "WR") = Of(t, "WR")
            /\ \A n : SI!Locked(t, n) = WRows(t, 1, n)
            /\ SI!Installing(t) = WRow(t, local[t].i + 1)
<1>1. SI!Loaded = Loaded /\ SI!Half = 1..2
  BY DEF SI!Loaded, Loaded, SI!Half
<1>2. ASSUME NEW t
      PROVE  /\ SI!Attempt(t) = Attempt(t) /\ SI!Request(t) = Request(t)
             /\ SI!HasRequest(t) <=> HasRequest(t)
             /\ SI!WriteSet(t) = WriteSet(t) /\ SI!ReadSet(t) = ReadSet(t)
             /\ SI!Of(t, "WR") = Of(t, "WR")
             /\ \A n : SI!Locked(t, n) = WRows(t, 1, n)
             /\ SI!Installing(t) = WRow(t, local[t].i + 1)
  <2>1. SI!Of(t, "WR") = Of(t, "WR") /\ SI!Of(t, "RD") = Of(t, "RD")
    BY DEF SI!Of, Of
  <2>2. SI!WriteSet(t) = WriteSet(t) /\ SI!ReadSet(t) = ReadSet(t)
    <3>1. \A S, key : SI!InOrder(S, key) = InOrder(S, key)
      BY Zenon DEF SI!InOrder, InOrder, SI!Cardinality, Cardinality, SI!IsFiniteSet, IsFiniteSet
    <3>2. [i \in SI!Of(t, "WR") |-> accesses[t][i].row] = [i \in Of(t, "WR") |-> accesses[t][i].row]
      BY <2>1
    <3>3. [i \in SI!Of(t, "RD") |-> i] = [i \in Of(t, "RD") |-> i]
      BY <2>1
    <3> QED BY <2>1, <3>1, <3>2, <3>3, Zenon DEF SI!WriteSet, WriteSet, SI!ReadSet, ReadSet
  <2>3. SI!Attempt(t) = Attempt(t) /\ SI!Request(t) = Request(t)
    BY DEF SI!Attempt, Attempt, SI!Request, Request
  <2>4. SI!HasRequest(t) <=> HasRequest(t)
    BY DEF SI!HasRequest, HasRequest
  <2>5. \A n : SI!Locked(t, n) = WRows(t, 1, n)
    BY <2>2 DEF SI!Locked, WRows, WRow
  <2>6. SI!Installing(t) = WRow(t, local[t].i + 1)
    BY <2>2 DEF SI!Installing, WRow
  <2> QED BY <2>1, <2>2, <2>3, <2>4, <2>5, <2>6
<1> QED BY <1>1, <1>2

\* What a thread holds, has decided and is writing depends on its own state.
LEMMA SiloOwn ==
  ASSUME NEW u \in Thread, pc'[u] = pc[u], tries'[u] = tries[u], query'[u] = query[u],
         accesses'[u] = accesses[u], local'[u] = local[u]
  PROVE  /\ SiloHeld(u)' = SiloHeld(u) /\ SiloDone(u)' = SiloDone(u)
         /\ SiloPending(u)' = SiloPending(u) /\ Attempt(u)' = Attempt(u)
         /\ SiloDecided(u)' <=> SiloDecided(u)
         /\ \A r : SiloDirty(u, r)' <=> SiloDirty(u, r)
         /\ Request(u)' = Request(u)
         /\ \A r, x : SiloValidated(u, r, x)' <=> SiloValidated(u, r, x)
<1>1. /\ WriteSet(u)' = WriteSet(u) /\ ReadSet(u)' = ReadSet(u)
      /\ WN(u)' = WN(u) /\ RN(u)' = RN(u)
      /\ \A k : WRow(u, k)' = WRow(u, k)
      /\ \A a, b : WRows(u, a, b)' = WRows(u, a, b)
  BY SetsKept
<1>2. SiloDone(u)' = SiloDone(u)
  BY DEF SiloDone
<1>3. SiloHeld(u)' = SiloHeld(u)
  BY <1>1 DEF SiloHeld
<1>4. SiloPending(u)' = SiloPending(u)
  BY <1>1, <1>2 DEF SiloPending
<1>5. (SiloDecided(u)' <=> SiloDecided(u)) /\ Attempt(u)' = Attempt(u) /\ Request(u)' = Request(u)
  BY DEF SiloDecided, Attempt, Request
<1>6. \A r : SiloDirty(u, r)' <=> SiloDirty(u, r)
  BY <1>1 DEF SiloDirty
<1>7. \A r, x : SiloValidated(u, r, x)' <=> SiloValidated(u, r, x)
  BY <1>1, <1>5 DEF SiloValidated
<1> QED BY <1>2, <1>3, <1>4, <1>5, <1>6, <1>7

\* What every step of thread t leaves to the others: numbers grow, and with a
\* number the versions and the cleanness of the row are kept; a row another
\* thread holds is not touched; the versions that are new are those of t.
SiloEffect(t) ==
    /\ OnlyThread(t) /\ VersionsGrow
    /\ \A r \in Row :
          /\ row'[r].tid >= row[r].tid
          /\ row'[r].tid = row[r].tid => vers'[r] = vers[r]
          /\ row'[r].tid = row[r].tid /\ SiloDirty(t, r) => SiloDirty(t, r)'
          /\ \A m \in 1..Len(vers'[r]) : m \in 1..Len(vers[r]) \/ vers'[r][m] = Attempt(t)
    /\ \A u \in Thread \ {t} : \A r \in SiloHeld(u) : row'[r].tid = row[r].tid

LEMMA SiloOthers ==
  ASSUME SiloBase, SiloTypes', NEW t \in Thread, SiloEffect(t),
         NEW u \in Thread, u # t
  PROVE  SiloThread(u)'
<1>1. /\ pc'[u] = pc[u] /\ tries'[u] = tries[u] /\ query'[u] = query[u]
      /\ accesses'[u] = accesses[u] /\ local'[u] = local[u]
  BY DEF SiloEffect, OnlyThread
<1>2. /\ WriteSet(u)' = WriteSet(u) /\ ReadSet(u)' = ReadSet(u)
      /\ WN(u)' = WN(u) /\ RN(u)' = RN(u)
      /\ \A k : WRow(u, k)' = WRow(u, k)
      /\ \A a, b : WRows(u, a, b)' = WRows(u, a, b)
  BY <1>1, SetsKept
<1>3. /\ SiloHeld(u)' = SiloHeld(u) /\ SiloDone(u)' = SiloDone(u)
      /\ Attempt(u)' = Attempt(u) /\ Request(u)' = Request(u)
  BY <1>1, SiloOwn
<1>4. FrameTypes /\ FrameTypes' /\ VersionsGrow
  BY DEF SiloBase, SiloTypes, SiloEffect
<1>5. /\ Follows(u) /\ SiloLoop(u) /\ SiloCopy(u) /\ SiloAccess(u) /\ SiloCurrent(u) /\ SiloFresh(u)
  BY DEF SiloBase, SiloThread
<1>6. RowsOK(u)
  BY <1>5, SiloRowsOK DEF SiloBase
<1>7. /\ WN(u) \in Nat
      /\ \A a \in 1..WN(u) : WriteSet(u)[a] \in 1..Len(accesses[u]) /\ WRow(u, a) \in Row
  BY <1>6, WriteSetProps
<1>8. /\ local[u] \in [v : Nat, copy : Copies, num_locks : Nat, i : Nat, cur_tid : Nat]
      /\ \A r \in Row : row[r].tid \in Nat /\ row'[r].tid \in Nat
  BY DEF SiloBase, SiloTypes
<1>9. Follows(u)'
  BY <1>1, <1>5 DEF Follows
<1>10. SiloLoop(u)'
  BY <1>1, <1>2, <1>5 DEF SiloLoop, HasRequest
<1>11. SiloCopy(u)'
  <2> SUFFICES ASSUME pc[u] \in SiloCopying PROVE SiloCopy(u)'
    BY <1>1 DEF SiloCopy
  <2>1. PICK r \in Row : r = Request(u).row /\ r = Request(u)'.row
    BY <1>3, <1>5, SiloRequest DEF SiloLoop, SiloBase
  <2>2. /\ local[u].v <= row[r].tid
        /\ row[r].tid = local[u].v /\ SiloClean(r) =>
              \A h \in 1..2 : Copied(u, h) => local[u].copy[h] = Latest(r)
    BY <1>5, <2>1 DEF SiloCopy
  <2>3. local[u].v \in Nat /\ row[r].tid \in Nat /\ row'[r].tid \in Nat
    BY <1>8
  <2>4. row'[r].tid >= row[r].tid
    BY DEF SiloEffect
  <2>5. local[u].v <= row'[r].tid
    BY <2>2, <2>3, <2>4
  <2>6. ASSUME row'[r].tid = local[u].v, SiloClean(r)'
        PROVE  \A h \in 1..2 : Copied(u, h) => local[u].copy[h] = Latest(r)'
    <3>1. row'[r].tid = row[r].tid
      BY <2>2, <2>3, <2>4, <2>6
    <3>2. Latest(r)' = Latest(r)
      BY <3>1 DEF SiloEffect, Latest
    <3>3. SiloClean(r)
      <4> SUFFICES ASSUME NEW w \in Thread, SiloDirty(w, r) PROVE FALSE
        BY DEF SiloClean
      <4>1. CASE w = t
        BY <2>6, <3>1, <4>1 DEF SiloEffect, SiloClean
      <4>2. CASE w # t
        <5>1. SiloDirty(w, r)'
          BY <4>2, SiloOwn DEF SiloEffect, OnlyThread
        <5> QED BY <2>6, <5>1 DEF SiloClean
      <4> QED BY <4>1, <4>2
    <3> QED BY <2>2, <2>6, <3>1, <3>2, <3>3
  <2> QED BY <1>1, <2>1, <2>5, <2>6 DEF SiloCopy, Copied
<1>12. SiloAccess(u)'
  <2> SUFFICES ASSUME NEW i \in 1..Len(accesses[u])
               PROVE  /\ accesses'[u][i].tid <= row'[accesses'[u][i].row].tid
                      /\ HasVersion(accesses[u][i].row, accesses[u][i].data[1])'
                      /\ accesses'[u][i].tid = row'[accesses'[u][i].row].tid =>
                            accesses'[u][i].data[1] = Latest(accesses[u][i].row)'
    BY <1>1 DEF SiloAccess
  <2>1. PICK r \in Row, x \in Ids, d \in Nat :
           /\ r = accesses[u][i].row /\ x = accesses[u][i].data[1] /\ d = accesses[u][i].tid
    BY SiloTyped DEF SiloBase
  <2>2. r = accesses'[u][i].row /\ x = accesses'[u][i].data[1] /\ d = accesses'[u][i].tid
    BY <1>1, <2>1
  <2>3. d <= row[r].tid /\ HasVersion(r, x) /\ (d = row[r].tid => x = Latest(r))
    BY <1>5, <2>1 DEF SiloAccess
  <2>4. row'[r].tid >= row[r].tid /\ row[r].tid \in Nat /\ row'[r].tid \in Nat
    BY <1>8 DEF SiloEffect
  <2>5. HasVersion(r, x)'
    BY <1>4, <2>3, VersionLemma
  <2>6. ASSUME d = row'[r].tid PROVE x = Latest(r)'
    <3>1. row'[r].tid = row[r].tid
      BY <2>3, <2>4, <2>6
    <3>2. Latest(r)' = Latest(r)
      BY <3>1 DEF SiloEffect, Latest
    <3> QED BY <2>3, <2>6, <3>1, <3>2
  <2>7. d <= row'[r].tid
    BY <2>3, <2>4
  <2> QED BY <2>2, <2>5, <2>6, <2>7
<1>13. SiloCurrent(u)'
  <2>1. SiloDone(u) \in Nat
    BY <1>8 DEF SiloDone
  <2>2. ASSUME NEW k \in 1..WN(u), WRow(u, k) \in SiloHeld(u)
        PROVE  row'[WRow(u, k)].tid = row[WRow(u, k)].tid
    BY <2>2 DEF SiloEffect
  <2>3. ASSUME pc[u] \in {"lock", "reads"}, NEW k \in 1..local[u].num_locks
        PROVE  accesses[u][WriteSet(u)[k]].tid = row'[WRow(u, k)].tid
    <3>1. k \in 1..WN(u)
      BY <1>5, <1>7, <1>8, <2>3 DEF SiloLoop, SiloLocking
    <3>2. WRow(u, k) \in SiloHeld(u)
      BY <2>3 DEF SiloHeld, SiloLocking, WRows
    <3> QED BY <1>5, <2>2, <2>3, <3>1, <3>2 DEF SiloCurrent
  <2>4. ASSUME pc[u] \in SiloInstalling, NEW k \in (SiloDone(u) + 1)..WN(u)
        PROVE  /\ accesses[u][WriteSet(u)[k]].tid = row'[WRow(u, k)].tid
               /\ local[u].cur_tid > row'[WRow(u, k)].tid
    <3>1. k \in 1..WN(u) /\ k \in (local[u].i + 1)..WN(u)
      BY <1>7, <1>8, <2>1, <2>4 DEF SiloDone
    <3>2. WRow(u, k) \in SiloHeld(u)
      BY <2>4, <3>1 DEF SiloHeld, SiloLocking, SiloInstalling, WRows
    <3> QED BY <1>5, <2>2, <2>4, <3>1, <3>2 DEF SiloCurrent
  <2>5. ASSUME pc[u] \in SiloInstalling, NEW k \in 1..SiloDone(u)
        PROVE  Replaced(WRow(u, k), accesses[u][WriteSet(u)[k]].data[1], Attempt(u))'
    <3>1. k \in 1..WN(u)
      <4>1. SiloDone(u) <= WN(u)
        BY <1>5, <1>7, <1>8, <2>5 DEF SiloDone, SiloLoop, SiloInstalling
      <4> QED BY <1>7, <2>1, <4>1
    <3>2. PICK r \in Row, x \in Ids, id \in Ids :
             /\ r = WRow(u, k) /\ x = accesses[u][WriteSet(u)[k]].data[1] /\ id = Attempt(u)
      BY <1>7, <3>1, SiloTyped DEF SiloBase
    <3>3. r = WRow(u, k)' /\ x = accesses'[u][WriteSet(u)'[k]].data[1] /\ id = Attempt(u)'
      BY <1>1, <1>2, <1>3, <3>2
    <3>4. Replaced(r, x, id)
      BY <1>5, <2>5, <3>2 DEF SiloCurrent
    <3>5. Replaced(r, x, id)'
      BY <1>4, <3>4, VersionLemma
    <3> QED BY <3>3, <3>5
  <2> QED BY <1>1, <1>2, <1>3, <2>3, <2>4, <2>5 DEF SiloCurrent
<1>14. SiloFresh(u)'
  <2> SUFFICES ASSUME NEW r \in Row, pc[u] # "idle", HasVersion(r, Attempt(u))'
               PROVE  pc[u] \in SiloInstalling
    BY <1>1 DEF SiloFresh
  <2>1. PICK m \in 1..Len(vers'[r]) : vers'[r][m] = Attempt(u)
    BY <1>3 DEF HasVersion
  <2>2. Attempt(u) # Attempt(t)
    BY DEF Attempt
  <2>3. m \in 1..Len(vers[r])
    BY <2>1, <2>2 DEF SiloEffect
  <2>4. vers[r][m] = Attempt(u)
    BY <1>4, <2>1, <2>3 DEF VersionsGrow
  <2>5. HasVersion(r, Attempt(u))
    BY <2>3, <2>4 DEF HasVersion
  <2> QED BY <1>5, <2>5 DEF SiloFresh
<1> QED BY <1>9, <1>10, <1>11, <1>12, <1>13, <1>14 DEF SiloThread

\* A thread holds rows only.
LEMMA SiloHeldRows ==
  ASSUME SiloTypes, NEW t \in Thread, Follows(t), SiloLoop(t)
  PROVE  SiloHeld(t) \subseteq Row
<1>1. RowsOK(t)
  BY SiloRowsOK
<1>2. WN(t) \in Nat /\ \A k \in 1..WN(t) : WRow(t, k) \in Row
  BY <1>1, WriteSetProps
<1>3. local[t].num_locks \in Nat /\ local[t].i \in Nat
  BY SiloTyped
<1>4. ASSUME pc[t] \in SiloLocking PROVE WRows(t, 1, local[t].num_locks) \subseteq Row
  <2>1. local[t].num_locks <= WN(t)
    BY <1>4 DEF SiloLoop
  <2>2. \A k \in 1..local[t].num_locks : k \in 1..WN(t)
    BY <1>2, <1>3, <2>1
  <2> QED BY <1>2, <2>2 DEF WRows
<1>5. WRows(t, local[t].i + 1, WN(t)) \subseteq Row
  <2>1. \A k \in (local[t].i + 1)..WN(t) : k \in 1..WN(t)
    BY <1>2, <1>3
  <2> QED BY <1>2, <2>1 DEF WRows
<1> QED BY <1>4, <1>5 DEF SiloHeld

LEMMA SiloHeldNext ==
  (\A t \in Thread : SiloTypes /\ Follows(t) /\ SiloLoop(t) => SiloHeld(t) \subseteq Row)'
<1>1. \A t \in Thread : SiloTypes /\ Follows(t) /\ SiloLoop(t) => SiloHeld(t) \subseteq Row
  BY SiloHeldRows
<1> QED BY <1>1, PTL

\* The lock bits follow the holders: t may give up rows it holds and take rows
\* whose bit is clear.
LEMMA SiloLocksStep ==
  ASSUME SiloBase, NEW t \in Thread, OnlyThread(t), SiloHeld(t)' \subseteq Row,
         \A r \in Row : r \in SiloHeld(t)' => r \in SiloHeld(t) \/ ~row[r].lock,
         \A r \in Row : row'[r].lock <=> (row[r].lock /\ r \notin SiloHeld(t)) \/ r \in SiloHeld(t)'
  PROVE  SiloLocks'
<1>1. \A u \in Thread : u # t => SiloHeld(u)' = SiloHeld(u)
  BY SiloOwn DEF OnlyThread
<1>2. \A u \in Thread : SiloHeld(u) \subseteq Row
  BY SiloHeldRows DEF SiloBase, SiloThread
<1>3. /\ \A r \in Row : row[r].lock <=> \E u \in Thread : r \in SiloHeld(u)
      /\ \A w, u \in Thread : \A r \in SiloHeld(w) : r \in SiloHeld(u) => w = u
  BY DEF SiloBase, SiloLocks
<1>4. ASSUME NEW r \in Row
      PROVE  row'[r].lock <=> \E u \in Thread : r \in SiloHeld(u)'
  <2>1. row[r].lock /\ r \notin SiloHeld(t) <=> \E u \in Thread : u # t /\ r \in SiloHeld(u)
    BY <1>3
  <2>2. (\E u \in Thread : r \in SiloHeld(u)') <=>
           r \in SiloHeld(t)' \/ \E u \in Thread : u # t /\ r \in SiloHeld(u)
    BY <1>1
  <2> QED BY <2>1, <2>2
<1>5. ASSUME NEW w \in Thread, NEW u \in Thread, NEW r \in SiloHeld(w)', r \in SiloHeld(u)'
      PROVE  w = u
  <2> SUFFICES ASSUME w # u PROVE FALSE
    OBVIOUS
  <2>1. ASSUME NEW y \in Thread, y # t, r \in SiloHeld(y), r \in SiloHeld(t)' PROVE FALSE
    <3>1. r \in Row
      BY <1>2, <2>1
    <3>2. row[r].lock
      BY <1>3, <2>1, <3>1
    <3>3. r \in SiloHeld(t)
      BY <2>1, <3>1, <3>2
    <3> QED BY <1>3, <2>1, <3>3
  <2>2. CASE w = t
    BY <1>1, <1>5, <2>1, <2>2
  <2>3. CASE u = t
    BY <1>1, <1>5, <2>1, <2>3
  <2>4. CASE w # t /\ u # t
    BY <1>1, <1>3, <1>5, <2>4
  <2> QED BY <2>2, <2>3, <2>4
<1> QED BY <1>4, <1>5 DEF SiloLocks

\* The numbers, the data and the versions of the rows are kept.
SiloQuiet ==
    /\ vers' = vers
    /\ \A r \in Row : row'[r].tid = row[r].tid /\ row'[r].data = row[r].data

LEMMA SiloQuietEffect ==
  ASSUME SiloBase, SiloTypes', NEW t \in Thread, OnlyThread(t), SiloQuiet,
         pc[t] \notin {"install2", "word"}, pc'[t] \notin {"install2", "word"}
  PROVE  SiloEffect(t) /\ SiloRows'
<1>1. \A r : ~SiloDirty(t, r) /\ ~SiloDirty(t, r)'
  BY DEF SiloDirty
<1>2. \A r \in Row : row[r].tid \in Nat /\ row'[r].tid \in Nat
  BY DEF SiloBase, SiloTypes
<1>3. VersionsGrow
  <2>1. \A r \in Row : Len(vers[r]) \in Nat
    BY DEF SiloBase, SiloTypes, FrameTypes
  <2> QED BY <2>1 DEF VersionsGrow, SiloQuiet
<1>4. \A u \in Thread \ {t} : \A r \in SiloHeld(u) : row'[r].tid = row[r].tid
  BY SiloHeldRows DEF SiloQuiet, SiloBase, SiloThread
<1>5. SiloEffect(t)
  BY <1>1, <1>2, <1>3, <1>4 DEF SiloEffect, SiloQuiet
<1>6. \A u \in Thread, r \in Row : SiloDirty(u, r)' <=> SiloDirty(u, r)
  <2> SUFFICES ASSUME NEW u \in Thread PROVE \A r \in Row : SiloDirty(u, r)' <=> SiloDirty(u, r)
    OBVIOUS
  <2>1. CASE u = t
    BY <1>1, <2>1
  <2>2. CASE u # t
    BY <2>2, SiloOwn DEF OnlyThread
  <2> QED BY <2>1, <2>2
<1>7. \A r \in Row : (SiloClean(r)' <=> SiloClean(r)) /\ Latest(r)' = Latest(r)
  BY <1>6 DEF SiloClean, Latest, SiloQuiet
<1>8. SiloRows'
  <2>1. SiloRows
    BY DEF SiloBase
  <2>2. \A r \in Row : SiloClean(r)' => \A h \in 1..2 : row'[r].data[h] = Latest(r)'
    BY <1>7, <2>1 DEF SiloRows, SiloQuiet
  <2>3. ASSUME NEW u \in Thread, NEW r \in Row, SiloDirty(u, r)'
        PROVE  row'[r].data[1] = Attempt(u)' /\ (pc'[u] = "word" => row'[r].data[2] = Attempt(u)')
    <3>1. u # t /\ SiloDirty(u, r)
      BY <1>1, <1>6, <2>3
    <3>2. pc'[u] = pc[u] /\ Attempt(u)' = Attempt(u)
      BY <3>1 DEF OnlyThread, Attempt
    <3> QED BY <2>1, <3>1, <3>2 DEF SiloRows, SiloQuiet
  <2> QED BY <2>2, <2>3 DEF SiloRows
<1> QED BY <1>5, <1>8

\* The parts of a thread's invariant that a step keeps with its transaction.
LEMMA SiloKeepTxn ==
  ASSUME SiloBase, NEW t \in Thread, vers' = vers, \A r \in Row : row'[r].tid = row[r].tid,
         accesses'[t] = accesses[t],
         query'[t] = query[t], tries'[t] = tries[t], pc[t] # "idle", pc'[t] # "idle",
         pc[t] \in SiloInstalling => pc'[t] \in SiloInstalling
  PROVE  Follows(t)' /\ SiloAccess(t)' /\ SiloFresh(t)'
<1>1. Follows(t) /\ SiloAccess(t) /\ SiloFresh(t)
  BY DEF SiloBase, SiloThread
<1>2. Follows(t)'
  BY <1>1 DEF Follows
<1>3. SiloAccess(t)'
  <2> SUFFICES ASSUME NEW i \in 1..Len(accesses[t])
               PROVE  /\ accesses'[t][i].tid <= row'[accesses'[t][i].row].tid
                      /\ HasVersion(accesses[t][i].row, accesses[t][i].data[1])'
                      /\ accesses'[t][i].tid = row'[accesses'[t][i].row].tid =>
                            accesses'[t][i].data[1] = Latest(accesses[t][i].row)'
    BY DEF SiloAccess
  <2>1. accesses[t][i].row \in Row
    BY SiloTyped DEF SiloBase
  <2> QED BY <1>1, <2>1 DEF SiloAccess, HasVersion, Latest
<1>4. SiloFresh(t)'
  BY <1>1 DEF SiloFresh, HasVersion, Attempt
<1> QED BY <1>2, <1>3, <1>4

\* What is left to show of a step that changes at most lock bits of the rows.
LEMMA SiloQuietStep ==
  ASSUME SiloBase, SiloTypes', NEW t \in Thread, OnlyThread(t), SiloQuiet,
         pc[t] \notin {"install2", "word"}, pc'[t] \notin {"install2", "word"},
         SiloThread(t)', HistoryKept', IdsUsed',
         \A r \in Row : r \in SiloHeld(t)' => r \in SiloHeld(t) \/ ~row[r].lock,
         \A r \in Row : row'[r].lock <=> (row[r].lock /\ r \notin SiloHeld(t)) \/ r \in SiloHeld(t)'
  PROVE  SiloBase'
<1>1. SiloEffect(t) /\ SiloRows'
  BY SiloQuietEffect
<1>2. \A u \in Thread : SiloThread(u)'
  <2> TAKE u \in Thread
  <2>1. CASE u = t
    BY <2>1
  <2>2. CASE u # t
    BY <1>1, <2>2, SiloOthers
  <2> QED BY <2>1, <2>2
<1>3. SiloHeld(t)' \subseteq Row
  BY SiloHeldNext DEF SiloThread
<1>4. SiloLocks'
  BY <1>3, SiloLocksStep
<1> QED BY <1>1, <1>2, <1>4 DEF SiloBase

-----------------------------------------------------------------------------
(* Silo: the steps that keep the data and the versions of the rows.        *)

SiloPcs == {"idle", "run"} \cup SiloCopying \cup SiloLocking \cup SiloInstalling
SiloRowType == [tid : Nat, lock : BOOLEAN, data : Copies]

\* A step of t within its transaction.
LEMMA SiloTypesStep ==
  ASSUME SiloTypes, NEW t \in Thread, NEW l \in SiloPcs, NEW w \in SiloLocalType,
         pc' = [pc EXCEPT ![t] = l], local' = [local EXCEPT ![t] = w],
         row' \in [Row -> SiloRowType],
         accesses' = accesses, tries' = tries, query' = query, hist' = hist, vers' = vers
  PROVE  SiloTypes' /\ OnlyThread(t) /\ pc'[t] = l /\ local'[t] = w
<1>1. pc \in [Thread -> SiloPcs] /\ local \in [Thread -> SiloLocalType]
  BY DEF SiloTypes, SiloPcs, SiloLocalType
<1>2. pc' \in [Thread -> SiloPcs] /\ local' \in [Thread -> SiloLocalType]
  BY <1>1
<1>3. FrameTypes'
  BY DEF SiloTypes, FrameTypes
<1>4. SiloTypes'
  BY <1>2, <1>3 DEF SiloTypes, SiloPcs, SiloLocalType, SiloRowType
<1>5. OnlyThread(t) /\ pc'[t] = l /\ local'[t] = w
  BY <1>1 DEF OnlyThread
<1> QED BY <1>4, <1>5

\* Its history is that of the versions and of the attempts.
LEMMA SiloSameHistory ==
  ASSUME SiloBase, NEW t \in Thread, OnlyThread(t), vers' = vers, hist' = hist, tries' = tries,
         pc[t] # "idle"
  PROVE  HistoryKept' /\ IdsUsed'
<1>1. HistoryKept /\ IdsUsed
  BY DEF SiloBase
<1>2. HistoryKept'
  BY <1>1 DEF HistoryKept, HasVersion, Replaced
<1>3. \A u \in Thread : pc'[u] # "idle" => pc[u] # "idle"
  BY DEF OnlyThread
<1>4. IdsUsed'
  BY <1>1, <1>3 DEF IdsUsed, HasVersion, Attempt
<1> QED BY <1>2, <1>4

LEMMA SiloReadWord ==
  ASSUME SiloBase, NEW t \in Thread, SI!ReadWord(t)
  PROVE  SiloBase'
<1>1. /\ pc[t] = "run" /\ HasRequest(t) /\ pc' = [pc EXCEPT ![t] = "copy1"]
      /\ local' = [local EXCEPT ![t] = [local[t] EXCEPT !.v = row[Request(t).row].tid]]
      /\ row' = row /\ accesses' = accesses /\ tries' = tries /\ query' = query
      /\ hist' = hist /\ vers' = vers
  BY SiloNames DEF SI!ReadWord, SI!Goto, SI!Set
<1>2. PICK r \in Row : r = Request(t).row
  BY <1>1, SiloRequest DEF SiloBase
<1>3. row[r].tid \in Nat /\ row \in [Row -> SiloRowType]
  BY DEF SiloBase, SiloTypes, SiloRowType
<1>4. [local[t] EXCEPT !.v = row[r].tid] \in SiloLocalType
  BY <1>3, SiloTyped DEF SiloBase, SiloLocalType
<1>5. SiloTypes' /\ OnlyThread(t) /\ pc'[t] = "copy1" /\ local'[t] = [local[t] EXCEPT !.v = row[r].tid]
  BY <1>1, <1>2, <1>3, <1>4, SiloTypesStep DEF SiloPcs, SiloCopying, SiloBase
<1>6. local'[t].v = row[r].tid
  BY <1>4, <1>5, SiloTyped DEF SiloLocalType, SiloBase
<1>7. SiloQuiet
  BY <1>1 DEF SiloQuiet
<1>8. Follows(t)' /\ SiloAccess(t)' /\ SiloFresh(t)'
  BY <1>1, <1>5, <1>7, SiloKeepTxn DEF SiloQuiet, SiloInstalling
<1>9. SiloLoop(t)'
  BY <1>1, <1>5 DEF SiloLoop, HasRequest, SiloCopying, SiloLocking, SiloInstalling
<1>10. SiloCopy(t)'
  <2>1. Request(t)'.row = r
    BY <1>1, <1>2 DEF Request
  <2>2. \A h \in 1..2 : ~Copied(t, h)'
    BY <1>5 DEF Copied
  <2> QED BY <1>1, <1>3, <1>6, <2>1, <2>2 DEF SiloCopy
<1>11. SiloCurrent(t)'
  BY <1>5 DEF SiloCurrent, SiloInstalling
<1>12. SiloHeld(t) = {} /\ SiloHeld(t)' = {}
  BY <1>1, <1>5 DEF SiloHeld, SiloLocking, SiloInstalling
<1>13. HistoryKept' /\ IdsUsed'
  BY <1>1, <1>5, SiloSameHistory
<1> QED BY <1>1, <1>5, <1>7, <1>8, <1>9, <1>10, <1>11, <1>12, <1>13, SiloQuietStep DEF SiloThread

LEMMA SiloCopyHalf ==
  ASSUME SiloBase, NEW t \in Thread, NEW h \in 1..2, SI!CopyHalf(t, h)
  PROVE  SiloBase'
<1> DEFINE from == <<"copy1", "copy2">>[h]
           to == <<"copy2", "check">>[h]
<1>1. /\ pc[t] = from /\ pc' = [pc EXCEPT ![t] = to]
      /\ local' = [local EXCEPT ![t] = [local[t] EXCEPT !.copy[h] = row[Request(t).row].data[h]]]
      /\ row' = row /\ accesses' = accesses /\ tries' = tries /\ query' = query
      /\ hist' = hist /\ vers' = vers
  BY SiloNames DEF SI!CopyHalf, SI!Goto, SI!Set
<1>2. \/ h = 1 /\ from = "copy1" /\ to = "copy2"
      \/ h = 2 /\ from = "copy2" /\ to = "check"
  OBVIOUS
<1> HIDE DEF from, to
<1>3. from \in SiloCopying /\ to \in SiloCopying /\ HasRequest(t) /\ SiloCopy(t)
  BY <1>1, <1>2 DEF SiloCopying, SiloBase, SiloThread, SiloLoop
<1>4. PICK r \in Row : r = Request(t).row
  BY <1>3, SiloRequest DEF SiloBase
<1>5. row[r].data[h] \in Ids /\ row \in [Row -> SiloRowType] /\ row[r].tid \in Nat
  BY DEF SiloBase, SiloTypes, SiloRowType, Copies
<1> DEFINE w == [local[t] EXCEPT !.copy[h] = row[r].data[h]]
<1>6. local[t] \in SiloLocalType /\ local[t].copy \in Copies
  BY SiloTyped DEF SiloBase
<1>7. /\ w \in SiloLocalType /\ w.v = local[t].v
      /\ \A g \in 1..2 : w.copy[g] = IF g = h THEN row[r].data[h] ELSE local[t].copy[g]
  BY <1>5, <1>6 DEF SiloLocalType, Copies
<1>8. local' = [local EXCEPT ![t] = w]
  BY <1>1, <1>4
<1> HIDE DEF w
<1>9. to \in SiloPcs
  BY <1>3 DEF SiloPcs
<1>10. SiloTypes' /\ OnlyThread(t) /\ pc'[t] = to /\ local'[t] = w
  <2>1. /\ SiloTypes /\ pc' = [pc EXCEPT ![t] = to] /\ row' \in [Row -> SiloRowType]
        /\ accesses' = accesses /\ tries' = tries /\ query' = query
        /\ hist' = hist /\ vers' = vers
    BY <1>1, <1>5 DEF SiloBase
  <2>2. w \in SiloLocalType
    BY <1>7
  <2> QED BY <1>8, <1>9, <2>1, <2>2, SiloTypesStep
<1>11. SiloQuiet
  BY <1>1 DEF SiloQuiet
<1>12. Follows(t)' /\ SiloAccess(t)' /\ SiloFresh(t)'
  BY <1>1, <1>2, <1>10, <1>11, SiloKeepTxn DEF SiloQuiet, SiloInstalling
<1>13. SiloLoop(t)'
  BY <1>1, <1>2, <1>3, <1>10 DEF SiloLoop, HasRequest, SiloCopying, SiloLocking, SiloInstalling
<1>14. SiloCopy(t)'
  <2>1. Request(t)'.row = r
    BY <1>1, <1>4 DEF Request
  <2>2. /\ local[t].v <= row[r].tid
        /\ row[r].tid = local[t].v /\ SiloClean(r) =>
              \A g \in 1..2 : Copied(t, g) => local[t].copy[g] = Latest(r)
    BY <1>1, <1>3, <1>4 DEF SiloCopy
  <2>3. SiloClean(r)' => SiloClean(r)
    <3>1. \A r2 : SiloDirty(t, r2)' <=> SiloDirty(t, r2)
      BY <1>1, <1>2, <1>10 DEF SiloDirty
    <3>2. \A u \in Thread : u # t => (SiloDirty(u, r)' <=> SiloDirty(u, r))
      BY <1>10, SiloOwn DEF OnlyThread
    <3> QED BY <3>1, <3>2 DEF SiloClean
  <2>4. SiloClean(r) => row[r].data[h] = Latest(r)
    BY DEF SiloBase, SiloRows
  <2>5. Latest(r)' = Latest(r)
    BY <1>1 DEF Latest
  <2>6. \A g \in 1..2 : Copied(t, g)' => g = h \/ Copied(t, g)
    BY <1>1, <1>2, <1>10 DEF Copied
  <2>7. row'[r].tid = local'[t].v /\ SiloClean(r)' =>
           \A g \in 1..2 : Copied(t, g)' => local'[t].copy[g] = Latest(r)'
    BY <1>1, <1>7, <1>10, <2>2, <2>3, <2>4, <2>5, <2>6
  <2>8. local'[t].v <= row'[r].tid
    BY <1>1, <1>7, <1>10, <2>2
  <2> QED BY <2>1, <2>7, <2>8 DEF SiloCopy
<1>15. SiloCurrent(t)'
  BY <1>2, <1>10 DEF SiloCurrent, SiloInstalling
<1>16. SiloHeld(t) = {} /\ SiloHeld(t)' = {}
  BY <1>1, <1>2, <1>10 DEF SiloHeld, SiloLocking, SiloInstalling
<1>17. HistoryKept' /\ IdsUsed'
  BY <1>1, <1>2, <1>10, SiloSameHistory
<1>18. pc[t] \notin {"install2", "word"} /\ pc'[t] \notin {"install2", "word"}
  BY <1>1, <1>2, <1>10
<1> QED BY <1>1, <1>10, <1>11, <1>12, <1>13, <1>14, <1>15, <1>16, <1>17, <1>18, SiloQuietStep DEF SiloThread

\* A row that a thread is writing is held by it.
LEMMA SiloDirtyHeld ==
  ASSUME SiloBase, NEW u \in Thread, NEW r, SiloDirty(u, r)
  PROVE  r \in SiloHeld(u)
<1>1. SiloLoop(u) /\ Follows(u)
  BY DEF SiloBase, SiloThread
<1>2. WN(u) \in Nat /\ local[u].i \in Nat
  BY <1>1, SiloRowsOK, WriteSetProps, SiloTyped DEF SiloBase
<1>3. pc[u] \in {"install2", "word"} /\ r = WRow(u, local[u].i + 1)
  BY DEF SiloDirty
<1>4. local[u].i + 1 \in (local[u].i + 1)..WN(u)
  BY <1>1, <1>2, <1>3 DEF SiloLoop, SiloInstalling
<1> QED BY <1>3, <1>4 DEF SiloHeld, SiloLocking, SiloInstalling, WRows

\* A row whose lock bit is clear is not being written.
LEMMA SiloUnlockedClean ==
  ASSUME SiloBase, NEW r \in Row, ~row[r].lock
  PROVE  SiloClean(r)
BY SiloDirtyHeld DEF SiloClean, SiloBase, SiloLocks

LEMMA SiloCheckWord ==
  ASSUME SiloBase, NEW t \in Thread, SI!CheckWord(t)
  PROVE  SiloBase'
<1>0. /\ SiloTypes /\ Follows(t) /\ SiloLoop(t) /\ SiloCopy(t) /\ SiloAccess(t) /\ SiloFresh(t)
  BY DEF SiloBase, SiloThread
<1>1. pc[t] = "check"
  BY DEF SI!CheckWord
<1>2. HasRequest(t)
  BY <1>0, <1>1 DEF SiloLoop, SiloCopying
<1>3. PICK r \in Row, ty \in {"RD", "WR"} : r = Request(t).row /\ ty = Request(t).type
  BY <1>0, <1>2, SiloRequest
<1> DEFINE a == [row |-> r, type |-> ty, data |-> local[t].copy, tid |-> local[t].v]
<1>4. /\ pc' = [pc EXCEPT ![t] = "run"]
      /\ \/ /\ row[r].tid = local[t].v /\ ~row[r].lock
            /\ accesses' = [accesses EXCEPT ![t] = Append(accesses[t], a)]
         \/ accesses' = accesses
      /\ row' = row /\ local' = local /\ tries' = tries /\ query' = query
      /\ hist' = hist /\ vers' = vers
  BY <1>3, SiloNames DEF SI!CheckWord, SI!Goto, SI!Granted, SI!SameWord
<1>5. local[t].v \in Nat /\ local[t].copy \in Copies /\ local[t] \in SiloLocalType
  BY <1>0, SiloTyped
<1>6. a \in SiloAccessType /\ a.row = r /\ a.type = ty /\ a.tid = local[t].v /\ a.data[1] = local[t].copy[1]
  BY <1>5 DEF SiloAccessType
<1> HIDE DEF a
<1>7. /\ accesses[t] \in Seq(SiloAccessType) /\ Len(accesses[t]) \in Nat
      /\ accesses \in [Thread -> Seq(SiloAccessType)]
      /\ \A i \in 1..Len(accesses[t]) : accesses[t][i] \in SiloAccessType
  BY <1>0, SiloTyped DEF SiloTypes, SiloAccessType
<1>8. accesses' \in [Thread -> Seq(SiloAccessType)]
  <2>1. Append(accesses[t], a) \in Seq(SiloAccessType)
    BY <1>6, <1>7
  <2>2. [accesses EXCEPT ![t] = Append(accesses[t], a)] \in [Thread -> Seq(SiloAccessType)]
    BY <1>7, <2>1
  <2> QED BY <1>4, <1>7, <2>2
<1>9. pc' \in [Thread -> SiloPcs] /\ pc'[t] = "run"
  BY <1>0, <1>4 DEF SiloTypes, SiloPcs
<1>10. SiloTypes'
  <2>1. FrameTypes'
    BY <1>0, <1>4 DEF SiloTypes, FrameTypes
  <2> QED BY <1>0, <1>4, <1>8, <1>9, <2>1 DEF SiloTypes, SiloPcs, SiloAccessType
<1>11. OnlyThread(t)
  BY <1>0, <1>4, <1>7 DEF OnlyThread, SiloTypes
<1>12. SiloQuiet
  BY <1>4 DEF SiloQuiet
<1>13. SiloLoop(t)' /\ SiloCopy(t)' /\ SiloCurrent(t)'
  BY <1>9 DEF SiloLoop, SiloCopy, SiloCurrent, SiloCopying, SiloLocking, SiloInstalling
<1>14. Follows(t)' /\ SiloAccess(t)' /\ SiloFresh(t)'
  <2>1. CASE accesses' = accesses
    BY <1>1, <1>4, <1>9, <1>12, <2>1, SiloKeepTxn DEF SiloQuiet, SiloInstalling
  <2>2. CASE /\ row[r].tid = local[t].v /\ ~row[r].lock
             /\ accesses' = [accesses EXCEPT ![t] = Append(accesses[t], a)]
    <3> DEFINE n == Len(accesses[t])
    <3>1. /\ accesses'[t] = Append(accesses[t], a) /\ Len(accesses'[t]) = n + 1
          /\ \A i \in 1..n : accesses'[t][i] = accesses[t][i]
          /\ accesses'[t][n + 1] = a
      BY <1>6, <1>7, <2>2
    <3>2. \A i \in 1..(n + 1) : i \in 1..n \/ i = n + 1
      BY <1>7
    <3>3. n + 1 \in 1..Len(query[t]) /\ query[t][n + 1] = Request(t) /\ Len(query[t]) \in Nat
      BY <1>0, <1>2, SiloRequest, SiloTyped DEF Request
    <3> HIDE DEF n
    <3>4. Follows(t)'
      <4>1. \A i \in 1..(n + 1) :
               accesses'[t][i].row = query[t][i].row /\ accesses'[t][i].type = query[t][i].type
        <5>1. \A i \in 1..n : accesses[t][i].row = query[t][i].row /\ accesses[t][i].type = query[t][i].type
          BY <1>0 DEF Follows, n
        <5> QED BY <1>3, <1>6, <3>1, <3>2, <3>3, <5>1
      <4>2. RowsDiffer(query[t]) /\ query[t] # <<>> /\ tries[t] > 0
        BY <1>0, <1>1 DEF Follows
      <4> QED BY <1>4, <1>9, <3>1, <3>3, <4>1, <4>2 DEF Follows
    <3>5. SiloClean(r)
      BY <2>2, SiloUnlockedClean
    <3>6. local[t].copy[1] = Latest(r)
      BY <1>0, <1>1, <1>3, <2>2, <3>5 DEF SiloCopy, SiloCopying, Copied
    <3>7. HasVersion(r, Latest(r))
      <4>1. vers[r] # <<>> /\ vers[r] \in Seq(Ids)
        BY <1>0 DEF SiloBase, HistoryKept, SiloTypes, FrameTypes
      <4>2. Len(vers[r]) \in 1..Len(vers[r])
        BY <4>1
      <4> QED BY <4>2 DEF HasVersion, Latest
    <3>8. \A y, x : /\ HasVersion(y, x)' <=> HasVersion(y, x)
                    /\ Latest(y)' = Latest(y)
      BY <1>4 DEF HasVersion, Latest
    <3>9. SiloAccess(t)'
      <4> SUFFICES ASSUME NEW i \in 1..(n + 1)
                   PROVE  LET b == accesses'[t][i] IN
                          /\ b.tid <= row[b.row].tid
                          /\ HasVersion(b.row, b.data[1])
                          /\ b.tid = row[b.row].tid => b.data[1] = Latest(b.row)
        BY <1>4, <3>1, <3>8 DEF SiloAccess, HasVersion, Latest
      <4>1. CASE i \in 1..n
        <5>1. accesses'[t][i] = accesses[t][i] /\ i \in 1..Len(accesses[t])
          BY <3>1, <4>1 DEF n
        <5> QED BY <1>0, <5>1 DEF SiloAccess
      <4>2. CASE i = n + 1
        <5>1. accesses'[t][i] = a
          BY <3>1, <4>2
        <5>2. a.tid <= row[a.row].tid
          BY <1>5, <1>6, <2>2
        <5> QED BY <1>6, <3>6, <3>7, <5>1, <5>2
      <4> QED BY <3>2, <4>1, <4>2
    <3>10. SiloFresh(t)'
      BY <1>0, <1>1, <1>4, <1>9 DEF SiloFresh, HasVersion, Attempt, SiloInstalling
    <3> QED BY <3>4, <3>9, <3>10
  <2> QED BY <1>4, <2>1, <2>2
<1>15. SiloHeld(t) = {} /\ SiloHeld(t)' = {}
  BY <1>1, <1>9 DEF SiloHeld, SiloLocking, SiloInstalling
<1>16. HistoryKept' /\ IdsUsed'
  BY <1>1, <1>4, <1>11, SiloSameHistory
<1> QED BY <1>1, <1>4, <1>9, <1>10, <1>11, <1>12, <1>13, <1>14, <1>15, <1>16, SiloQuietStep DEF SiloThread

LEMMA SiloBegin ==
  ASSUME SiloBase, NEW t \in Thread, SI!Begin(t)
  PROVE  SiloBase'
<1>0. /\ SiloTypes /\ Follows(t) /\ HistoryKept /\ IdsUsed /\ tries[t] \in Nat
  BY SiloTyped DEF SiloBase, SiloThread
<1>1. /\ pc[t] = "idle" /\ tries[t] < Len(Script[t])
      /\ tries' = [tries EXCEPT ![t] = tries[t] + 1] /\ pc' = [pc EXCEPT ![t] = "run"]
      /\ row' = row /\ accesses' = accesses /\ local' = local /\ hist' = hist /\ vers' = vers
  BY DEF SI!Begin, SI!Take, SI!Goto
<1>2. PICK q \in Script[t][tries[t] + 1] : query' = [query EXCEPT ![t] = q]
  BY DEF SI!Begin, SI!Take
<1>3. q \in Seq(Requests) /\ q # <<>> /\ RowsDiffer(q)
  <2>1. Script[t] \in Seq(SUBSET Seq(Requests))
    BY FrameAssumption DEF Requests
  <2>2. tries[t] + 1 \in 1..Len(Script[t])
    BY <1>0, <1>1, <2>1
  <2>3. Script[t][tries[t] + 1] \in SUBSET Seq(Requests)
    BY <2>1, <2>2
  <2>4. q # <<>> /\ \A i, j \in 1..Len(q) : q[i].row = q[j].row => i = j
    BY <2>2, FrameAssumption
  <2> QED BY <2>3, <2>4 DEF RowsDiffer
<1>4. /\ pc'[t] = "run" /\ query'[t] = q /\ tries'[t] = tries[t] + 1
      /\ accesses'[t] = <<>>
  BY <1>0, <1>1, <1>2 DEF SiloTypes, FrameTypes, Follows
<1>5. SiloTypes'
  <2>1. query' \in [Thread -> Seq(Requests)] /\ tries' \in [Thread -> Nat]
    BY <1>0, <1>1, <1>2, <1>3 DEF SiloTypes, FrameTypes
  <2>2. FrameTypes'
    BY <1>0, <1>1, <2>1 DEF SiloTypes, FrameTypes
  <2>3. pc' \in [Thread -> SiloPcs]
    BY <1>0, <1>1 DEF SiloTypes, SiloPcs
  <2> QED BY <1>0, <1>1, <2>2, <2>3 DEF SiloTypes, SiloPcs
<1>6. OnlyThread(t)
  BY <1>0, <1>1, <1>2 DEF OnlyThread, SiloTypes, FrameTypes
<1>7. SiloQuiet
  BY <1>1 DEF SiloQuiet
<1>8. Follows(t)'
  <2>1. Len(q) \in Nat /\ Len(accesses'[t]) = 0
    BY <1>3, <1>4
  <2>2. Len(accesses'[t]) <= Len(q) /\ \A i \in 1..Len(accesses'[t]) : FALSE
    BY <2>1
  <2> QED BY <1>0, <1>3, <1>4, <2>2 DEF Follows
<1>9. SiloLoop(t)' /\ SiloCopy(t)' /\ SiloCurrent(t)'
  BY <1>4 DEF SiloLoop, SiloCopy, SiloCurrent, SiloCopying, SiloLocking, SiloInstalling
<1>10. SiloAccess(t)'
  <2>1. Len(accesses'[t]) = 0
    BY <1>4
  <2> QED BY <2>1 DEF SiloAccess
<1>11. \A r \in Row : ~HasVersion(r, Attempt(t))'
  <2>1. Attempt(t)' = <<t, tries[t] + 1>>
    BY <1>4 DEF Attempt
  <2>2. \A r \in Row : ~HasVersion(r, <<t, tries[t] + 1>>)
    BY <1>0 DEF IdsUsed
  <2> QED BY <1>1, <2>1, <2>2 DEF HasVersion
<1>12. HistoryKept'
  BY <1>0, <1>1 DEF HistoryKept, HasVersion, Replaced
<1>13. IdsUsed'
  <2>1. \A u \in Thread : tries[u] \in Nat /\ tries'[u] \in Nat /\ tries[u] <= tries'[u]
    BY <1>0, <1>1 DEF SiloTypes, FrameTypes
  <2>2. \A u \in Thread, n \in Nat : n <= tries[u] => n <= tries'[u]
    BY <2>1
  <2>3. \A u \in Thread, n \in Nat, r \in Row : HasVersion(r, <<u, n>>)' => n <= tries'[u]
    BY <1>0, <1>1, <2>2 DEF IdsUsed, HasVersion
  <2>4. \A h \in hist : \A u \in Thread, n \in Nat : h.id = <<u, n>> => n <= tries'[u]
    BY <1>0, <2>2 DEF IdsUsed
  <2>5. ASSUME NEW h \in hist, NEW u \in Thread, pc'[u] # "idle" PROVE h.id # Attempt(u)'
    <3>1. CASE u = t
      <4>1. Attempt(u)' = <<t, tries[t] + 1>> /\ tries[t] + 1 \in Nat /\ ~(tries[t] + 1 <= tries[t])
        BY <1>0, <1>4, <3>1 DEF Attempt
      <4> QED BY <1>0, <4>1 DEF IdsUsed
    <3>2. CASE u # t
      <4>1. pc[u] # "idle" /\ Attempt(u)' = Attempt(u)
        BY <1>6, <2>5, <3>2 DEF OnlyThread, Attempt
      <4> QED BY <1>0, <4>1 DEF IdsUsed
    <3> QED BY <3>1, <3>2
  <2> QED BY <1>0, <1>1, <2>3, <2>4, <2>5 DEF IdsUsed
<1>14. SiloFresh(t)'
  BY <1>11 DEF SiloFresh
<1>15. SiloHeld(t) = {} /\ SiloHeld(t)' = {}
  BY <1>1, <1>4 DEF SiloHeld, SiloLocking, SiloInstalling
<1> QED BY <1>1, <1>4, <1>5, <1>6, <1>7, <1>8, <1>9, <1>10, <1>12, <1>13, <1>14, <1>15, SiloQuietStep DEF SiloThread

LEMMA SiloValidate ==
  ASSUME SiloBase, NEW t \in Thread, SI!Validate(t)
  PROVE  SiloBase'
<1>0. /\ SiloTypes /\ Follows(t) /\ row \in [Row -> SiloRowType] /\ local[t] \in SiloLocalType
  BY SiloTyped DEF SiloBase, SiloThread, SiloTypes, SiloRowType
<1>1. /\ pc[t] = "run" /\ ~HasRequest(t)
      /\ local' = [local EXCEPT ![t] = [local[t] EXCEPT !.num_locks = 0, !.i = 0]]
      /\ \E l \in {"lock", "abort"} : pc' = [pc EXCEPT ![t] = l]
      /\ row' = row /\ accesses' = accesses /\ tries' = tries /\ query' = query
      /\ hist' = hist /\ vers' = vers
  BY SiloNames DEF SI!Validate, SI!Goto, SI!Set
<1>2. PICK l \in {"lock", "abort"} : pc' = [pc EXCEPT ![t] = l]
  BY <1>1
<1> DEFINE w == [local[t] EXCEPT !.num_locks = 0, !.i = 0]
<1>3. w \in SiloLocalType /\ w.num_locks = 0
  BY <1>0 DEF SiloLocalType
<1>4. local' = [local EXCEPT ![t] = w]
  BY <1>1
<1> HIDE DEF w
<1>5. SiloTypes' /\ OnlyThread(t) /\ pc'[t] = l /\ local'[t] = w
  <2>1. l \in SiloPcs
    BY <1>2 DEF SiloPcs, SiloLocking
  <2> QED BY <1>0, <1>1, <1>2, <1>3, <1>4, <2>1, SiloTypesStep
<1>6. SiloQuiet
  BY <1>1 DEF SiloQuiet
<1>7. Follows(t)' /\ SiloAccess(t)' /\ SiloFresh(t)'
  BY <1>1, <1>5, <1>6, SiloKeepTxn DEF SiloQuiet, SiloInstalling
<1>8. WN(t)' = WN(t) /\ WN(t) \in Nat
  BY <1>0, <1>1, SiloRowsOK, SetsKept, WriteSetProps
<1>9. accesses[t] # <<>>
  <2>1. Len(accesses[t]) \in Nat /\ query[t] \in Seq(Requests)
    BY <1>0, SiloTyped
  <2>2. query[t] # <<>> /\ ~(Len(accesses[t]) < Len(query[t]))
    BY <1>0, <1>1 DEF Follows, HasRequest
  <2>3. Len(query[t]) \in Nat /\ Len(query[t]) # 0
    BY <2>1, <2>2
  <2>4. Len(accesses[t]) # 0
    BY <2>1, <2>2, <2>3
  <2> QED BY <2>4
<1>10. SiloLoop(t)'
  BY <1>1, <1>3, <1>5, <1>8, <1>9 DEF SiloLoop, SiloCopying, SiloLocking, SiloInstalling
<1>11. SiloCopy(t)'
  BY <1>5 DEF SiloCopy, SiloCopying
<1>12. SiloCurrent(t)'
  BY <1>3, <1>5 DEF SiloCurrent, SiloInstalling
<1>13. SiloHeld(t) = {} /\ SiloHeld(t)' = {}
  <2>1. SiloHeld(t)' = WRows(t, 1, 0)'
    BY <1>3, <1>5 DEF SiloHeld, SiloLocking
  <2>2. WRows(t, 1, 0)' = {}
    BY DEF WRows
  <2> QED BY <1>1, <2>1, <2>2 DEF SiloHeld, SiloLocking, SiloInstalling
<1>14. HistoryKept' /\ IdsUsed'
  BY <1>1, <1>5, SiloSameHistory
<1> QED BY <1>1, <1>5, <1>6, <1>7, <1>10, <1>11, <1>12, <1>13, <1>14, SiloQuietStep DEF SiloThread

\* The k-th row of the write set, and the rows up to it.
LEMMA WRowsTo ==
  ASSUME NEW t \in Thread, NEW n \in Nat
  PROVE  /\ WRows(t, 1, 0) = {}
         /\ WRows(t, 1, n + 1) = WRows(t, 1, n) \cup {WRow(t, n + 1)}
<1>1. WRows(t, 1, 0) = {}
  BY DEF WRows
<1>2. 1..(n + 1) = (1..n) \cup {n + 1}
  OBVIOUS
<1> QED BY <1>1, <1>2 DEF WRows

LEMMA SiloTryLock ==
  ASSUME SiloBase, NEW t \in Thread, SI!TryLock(t)
  PROVE  SiloBase'
<1>0. /\ SiloTypes /\ Follows(t) /\ SiloLoop(t) /\ SiloCurrent(t)
      /\ row \in [Row -> SiloRowType] /\ local[t] \in SiloLocalType
      /\ accesses[t] \in Seq(SiloAccessType)
  BY SiloTyped DEF SiloBase, SiloThread, SiloTypes, SiloRowType
<1>1. RowsOK(t)
  BY <1>0, SiloRowsOK
<1>2. PICK n \in Nat : n = local[t].num_locks
  BY <1>0 DEF SiloLocalType
<1>3. pc[t] = "lock" /\ n < WN(t) /\ WN(t) \in Nat
  BY <1>1, <1>2, WriteSetProps, SiloNames DEF SI!TryLock
<1>4. n + 1 \in 1..WN(t) /\ n + 1 \in Nat
  BY <1>2, <1>3
<1>5. PICK i \in 1..Len(accesses[t]), r \in Row : i = WriteSet(t)[n + 1] /\ r = WRow(t, n + 1) /\ r = accesses[t][i].row
  BY <1>1, <1>4, WriteSetProps DEF WRow
<1>6. /\ ~row[r].lock
      /\ row' = [row EXCEPT ![r].lock = TRUE]
      /\ local' = [local EXCEPT ![t] = [local[t] EXCEPT !.num_locks = local[t].num_locks + 1]]
      /\ pc' = [pc EXCEPT ![t] = IF SI!TidUnchanged(t, i) THEN "lock" ELSE "abort"]
      /\ accesses' = accesses /\ tries' = tries /\ query' = query
      /\ hist' = hist /\ vers' = vers
  BY <1>2, <1>5, SiloNames DEF SI!TryLock, SI!Goto, SI!Set
<1>7. PICK l \in {"lock", "abort"} :
         /\ pc' = [pc EXCEPT ![t] = l]
         /\ l = "lock" => accesses[t][i].tid = row[r].tid
  <2>1. SI!TidUnchanged(t, i) <=> row[r].tid = accesses[t][i].tid
    BY <1>5 DEF SI!TidUnchanged
  <2>2. CASE SI!TidUnchanged(t, i)
    BY <1>6, <2>1, <2>2
  <2>3. CASE ~SI!TidUnchanged(t, i)
    BY <1>6, <2>1, <2>3
  <2> QED BY <2>2, <2>3
<1> DEFINE w == [local[t] EXCEPT !.num_locks = local[t].num_locks + 1]
<1>8. w \in SiloLocalType /\ w.num_locks = n + 1
  BY <1>0, <1>2, <1>4 DEF SiloLocalType
<1>9. local' = [local EXCEPT ![t] = w]
  BY <1>6
<1> HIDE DEF w
<1>10. /\ row' \in [Row -> SiloRowType]
       /\ \A y \in Row : row'[y].tid = row[y].tid /\ row'[y].data = row[y].data
       /\ \A y \in Row : row'[y].lock <=> row[y].lock \/ y = r
  BY <1>0, <1>6 DEF SiloRowType
<1>11. SiloTypes' /\ OnlyThread(t) /\ pc'[t] = l /\ local'[t] = w
  <2>1. l \in SiloPcs
    BY <1>7 DEF SiloPcs, SiloLocking
  <2>2. /\ accesses' = accesses /\ tries' = tries /\ query' = query
        /\ hist' = hist /\ vers' = vers /\ pc' = [pc EXCEPT ![t] = l]
    BY <1>6, <1>7
  <2> QED BY <1>0, <1>8, <1>9, <1>10, <2>1, <2>2, SiloTypesStep
<1>12. SiloQuiet
  BY <1>6, <1>10 DEF SiloQuiet
<1>13. Follows(t)' /\ SiloAccess(t)' /\ SiloFresh(t)'
  BY <1>3, <1>6, <1>7, <1>11, <1>12, SiloKeepTxn DEF SiloQuiet, SiloInstalling
<1>14. /\ WN(t)' = WN(t) /\ WriteSet(t)' = WriteSet(t)
       /\ \A k : WRow(t, k)' = WRow(t, k)
       /\ \A a, b : WRows(t, a, b)' = WRows(t, a, b)
  BY <1>6, SetsKept
<1>15. SiloLoop(t)'
  <2>1. accesses[t] # <<>>
    BY <1>0, <1>3 DEF SiloLoop, SiloLocking
  <2>2. local'[t].num_locks <= WN(t)' /\ accesses'[t] # <<>> /\ pc'[t] \in {"lock", "abort"}
    <3>1. n + 1 <= WN(t)
      BY <1>3, <1>4
    <3>2. local'[t].num_locks = n + 1 /\ WN(t)' = WN(t) /\ accesses'[t] = accesses[t]
      BY <1>6, <1>8, <1>11, <1>14
    <3> QED BY <1>7, <1>11, <2>1, <3>1, <3>2
  <2> QED BY <2>2 DEF SiloLoop, SiloCopying, SiloLocking, SiloInstalling
<1>16. SiloCopy(t)'
  BY <1>7, <1>11 DEF SiloCopy, SiloCopying
<1>17. SiloCurrent(t)'
  <2> SUFFICES ASSUME l = "lock", NEW k \in 1..(n + 1)
               PROVE  accesses'[t][WriteSet(t)'[k]].tid = row'[WRow(t, k)'].tid
    BY <1>7, <1>8, <1>11 DEF SiloCurrent, SiloInstalling
  <2>1. k \in 1..WN(t)
    BY <1>3, <1>4
  <2>2. WRow(t, k) \in Row
    BY <1>1, <2>1, WriteSetProps
  <2>3. accesses[t][WriteSet(t)[k]].tid = row[WRow(t, k)].tid
    <3>1. CASE k \in 1..n
      BY <1>0, <1>2, <1>3, <3>1 DEF SiloCurrent
    <3>2. CASE k = n + 1
      BY <1>5, <1>7, <3>2
    <3> QED BY <1>2, <3>1, <3>2
  <2> QED BY <1>6, <1>10, <1>14, <2>2, <2>3
<1>18. SiloHeld(t) = WRows(t, 1, n) /\ SiloHeld(t)' = WRows(t, 1, n) \cup {r}
  <2>1. SiloHeld(t) = WRows(t, 1, n)
    BY <1>2, <1>3 DEF SiloHeld, SiloLocking
  <2>2. SiloHeld(t)' = WRows(t, 1, n + 1)'
    BY <1>7, <1>8, <1>11 DEF SiloHeld, SiloLocking
  <2> QED BY <1>5, <1>14, <2>1, <2>2, WRowsTo
<1>19. HistoryKept' /\ IdsUsed'
  BY <1>3, <1>6, <1>11, SiloSameHistory
<1>20. \A y \in Row : y \in SiloHeld(t)' => y \in SiloHeld(t) \/ ~row[y].lock
  BY <1>6, <1>18
<1>21. \A y \in Row : row'[y].lock <=> (row[y].lock /\ y \notin SiloHeld(t)) \/ y \in SiloHeld(t)'
  <2>1. \A y \in Row : y \in SiloHeld(t) => row[y].lock
    BY DEF SiloBase, SiloLocks
  <2> QED BY <1>10, <1>18, <2>1
<1>22. pc[t] \notin {"install2", "word"} /\ pc'[t] \notin {"install2", "word"}
  BY <1>3, <1>7, <1>11
<1> QED BY <1>11, <1>12, <1>13, <1>15, <1>16, <1>17, <1>19, <1>20, <1>21, <1>22, SiloQuietStep DEF SiloThread

LEMMA SiloLockBusy ==
  ASSUME SiloBase, NEW t \in Thread, SI!LockBusy(t)
  PROVE  SiloBase'
<1>0. /\ SiloTypes /\ SiloLoop(t) /\ row \in [Row -> SiloRowType] /\ local[t] \in SiloLocalType
      /\ local \in [Thread -> SiloLocalType]
  BY SiloTyped DEF SiloBase, SiloThread, SiloTypes, SiloRowType, SiloLocalType
<1>1. /\ pc[t] = "lock" /\ pc' = [pc EXCEPT ![t] = "backoff"]
      /\ row' = row /\ accesses' = accesses /\ local' = local /\ tries' = tries /\ query' = query
      /\ hist' = hist /\ vers' = vers
  BY DEF SI!LockBusy, SI!Goto
<1>2. local' = [local EXCEPT ![t] = local[t]]
  BY <1>0, <1>1
<1>3. SiloTypes' /\ OnlyThread(t) /\ pc'[t] = "backoff" /\ local'[t] = local[t]
  <2>1. "backoff" \in SiloPcs
    BY DEF SiloPcs, SiloLocking
  <2>2. row' \in [Row -> SiloRowType]
    BY <1>0, <1>1
  <2> QED BY <1>0, <1>1, <1>2, <2>1, <2>2, SiloTypesStep
<1>4. SiloQuiet
  BY <1>1 DEF SiloQuiet
<1>5. Follows(t)' /\ SiloAccess(t)' /\ SiloFresh(t)'
  BY <1>1, <1>3, <1>4, SiloKeepTxn DEF SiloQuiet, SiloInstalling
<1>6. WN(t)' = WN(t) /\ \A a, b : WRows(t, a, b)' = WRows(t, a, b)
  BY <1>1, SetsKept
<1>7. SiloLoop(t)'
  BY <1>0, <1>1, <1>3, <1>6 DEF SiloLoop, SiloCopying, SiloLocking, SiloInstalling
<1>8. SiloCopy(t)' /\ SiloCurrent(t)'
  BY <1>3 DEF SiloCopy, SiloCopying, SiloCurrent, SiloInstalling
<1>9. SiloHeld(t)' = SiloHeld(t)
  BY <1>1, <1>3, <1>6 DEF SiloHeld, SiloLocking
<1>10. HistoryKept' /\ IdsUsed'
  BY <1>1, <1>3, SiloSameHistory
<1>11. \A r \in Row : row'[r].lock <=> (row[r].lock /\ r \notin SiloHeld(t)) \/ r \in SiloHeld(t)'
  <2>1. \A r \in Row : r \in SiloHeld(t) => row[r].lock
    BY DEF SiloBase, SiloLocks
  <2> QED BY <1>1, <1>9, <2>1
<1> QED BY <1>1, <1>3, <1>4, <1>5, <1>7, <1>8, <1>9, <1>10, <1>11, SiloQuietStep DEF SiloThread

\* The rows with the locks of thread t given back.
SiloUnlocked(t) ==
    [r \in Row |-> IF r \in WRows(t, 1, local[t].num_locks)
                   THEN [row[r] EXCEPT !.lock = FALSE] ELSE row[r]]

LEMMA SiloUnlock ==
  ASSUME SiloTypes, NEW t \in Thread, row' = SiloUnlocked(t), pc[t] \in SiloLocking
  PROVE  /\ row' \in [Row -> SiloRowType]
         /\ \A r \in Row : row'[r].tid = row[r].tid /\ row'[r].data = row[r].data
         /\ \A r \in Row : row'[r].lock <=> row[r].lock /\ r \notin SiloHeld(t)
<1>1. row \in [Row -> SiloRowType]
  BY DEF SiloTypes, SiloRowType
<1>2. SiloHeld(t) = WRows(t, 1, local[t].num_locks)
  BY DEF SiloHeld
<1>3. row' = [r \in Row |-> IF r \in SiloHeld(t) THEN [row[r] EXCEPT !.lock = FALSE] ELSE row[r]]
  BY <1>2 DEF SiloUnlocked
<1>4. \A r \in Row : row[r] \in SiloRowType
  BY <1>1
<1>5. \A r \in Row : r \in SiloHeld(t) =>
         /\ row'[r] \in SiloRowType /\ row'[r].tid = row[r].tid /\ row'[r].data = row[r].data
         /\ row'[r].lock = FALSE
  BY <1>3, <1>4 DEF SiloRowType
<1>6. \A r \in Row : r \notin SiloHeld(t) => row'[r] = row[r]
  BY <1>3
<1>7. row' \in [Row -> SiloRowType]
  <2>1. \A r \in Row : row'[r] \in SiloRowType
    BY <1>4, <1>5, <1>6
  <2>2. row' = [r \in Row |-> row'[r]]
    BY <1>3
  <2> QED BY <2>1, <2>2
<1> QED BY <1>5, <1>6, <1>7

LEMMA SiloBackoff ==
  ASSUME SiloBase, NEW t \in Thread, SI!Backoff(t)
  PROVE  SiloBase'
<1>0. /\ SiloTypes /\ SiloLoop(t) /\ Follows(t) /\ local[t] \in SiloLocalType
  BY SiloTyped DEF SiloBase, SiloThread
<1>1. /\ pc[t] = "backoff" /\ row' = SiloUnlocked(t)
      /\ local' = [local EXCEPT ![t] = [local[t] EXCEPT !.num_locks = 0]]
      /\ \E l \in {"lock", "abort"} : pc' = [pc EXCEPT ![t] = l]
      /\ accesses' = accesses /\ tries' = tries /\ query' = query
      /\ hist' = hist /\ vers' = vers
  BY SiloNames DEF SI!Backoff, SI!Goto, SI!Set, SiloUnlocked
<1>2. PICK l \in {"lock", "abort"} : pc' = [pc EXCEPT ![t] = l]
  BY <1>1
<1>3. /\ row' \in [Row -> SiloRowType]
      /\ \A r \in Row : row'[r].tid = row[r].tid /\ row'[r].data = row[r].data
      /\ \A r \in Row : row'[r].lock <=> row[r].lock /\ r \notin SiloHeld(t)
  BY <1>0, <1>1, SiloUnlock DEF SiloLocking
<1> DEFINE w == [local[t] EXCEPT !.num_locks = 0]
<1>4. w \in SiloLocalType /\ w.num_locks = 0
  BY <1>0 DEF SiloLocalType
<1>5. local' = [local EXCEPT ![t] = w]
  BY <1>1
<1> HIDE DEF w
<1>6. SiloTypes' /\ OnlyThread(t) /\ pc'[t] = l /\ local'[t] = w
  <2>1. l \in SiloPcs
    BY <1>2 DEF SiloPcs, SiloLocking
  <2>2. accesses' = accesses /\ tries' = tries /\ query' = query /\ hist' = hist /\ vers' = vers
    BY <1>1
  <2> QED BY <1>0, <1>2, <1>3, <1>4, <1>5, <2>1, <2>2, SiloTypesStep
<1>7. SiloQuiet
  BY <1>1, <1>3 DEF SiloQuiet
<1>8. Follows(t)' /\ SiloAccess(t)' /\ SiloFresh(t)'
  BY <1>1, <1>6, <1>7, SiloKeepTxn DEF SiloQuiet, SiloInstalling
<1>9. WN(t)' = WN(t) /\ WN(t) \in Nat
  BY <1>0, <1>1, SiloRowsOK, SetsKept, WriteSetProps
<1>10. SiloLoop(t)'
  <2>1. accesses'[t] # <<>> /\ local'[t].num_locks <= WN(t)' /\ pc'[t] \in {"lock", "abort"}
    BY <1>0, <1>1, <1>2, <1>4, <1>6, <1>9 DEF SiloLoop, SiloLocking
  <2> QED BY <2>1 DEF SiloLoop, SiloCopying, SiloLocking, SiloInstalling
<1>11. SiloCopy(t)'
  BY <1>2, <1>6 DEF SiloCopy, SiloCopying
<1>12. SiloCurrent(t)'
  BY <1>2, <1>4, <1>6 DEF SiloCurrent, SiloInstalling
<1>13. SiloHeld(t)' = {}
  <2>1. SiloHeld(t)' = WRows(t, 1, 0)'
    BY <1>2, <1>4, <1>6 DEF SiloHeld, SiloLocking
  <2> QED BY <2>1 DEF WRows
<1>14. HistoryKept' /\ IdsUsed'
  BY <1>1, <1>6, SiloSameHistory
<1>15. pc[t] \notin {"install2", "word"} /\ pc'[t] \notin {"install2", "word"}
  BY <1>1, <1>2, <1>6
<1> QED BY <1>3, <1>6, <1>7, <1>8, <1>10, <1>11, <1>12, <1>13, <1>14, <1>15, SiloQuietStep DEF SiloThread

LEMMA SiloAllLocked ==
  ASSUME SiloBase, NEW t \in Thread, SI!AllLocked(t)
  PROVE  SiloBase'
<1>0. /\ SiloTypes /\ SiloLoop(t) /\ Follows(t) /\ SiloCurrent(t)
      /\ row \in [Row -> SiloRowType] /\ local[t] \in SiloLocalType
  BY SiloTyped DEF SiloBase, SiloThread, SiloTypes, SiloRowType
<1>1. /\ pc[t] = "lock" /\ local[t].num_locks = Len(WriteSet(t))
      /\ local' = [local EXCEPT ![t] = [local[t] EXCEPT !.i = 0]]
      /\ pc' = [pc EXCEPT ![t] = "reads"]
      /\ row' = row /\ accesses' = accesses /\ tries' = tries /\ query' = query
      /\ hist' = hist /\ vers' = vers
  BY SiloNames DEF SI!AllLocked, SI!Goto, SI!Set
<1>2. RowsOK(t)
  BY <1>0, SiloRowsOK
<1>3. local[t].num_locks = WN(t) /\ WN(t) \in Nat /\ RN(t) \in Nat
  BY <1>1, <1>2, WriteSetProps, ReadSetProps
<1> DEFINE w == [local[t] EXCEPT !.i = 0]
<1>4. w \in SiloLocalType /\ w.num_locks = local[t].num_locks /\ w.i = 0
  BY <1>0 DEF SiloLocalType
<1>5. local' = [local EXCEPT ![t] = w]
  BY <1>1
<1> HIDE DEF w
<1>6. SiloTypes' /\ OnlyThread(t) /\ pc'[t] = "reads" /\ local'[t] = w
  <2>1. "reads" \in SiloPcs /\ row' \in [Row -> SiloRowType]
    BY <1>0, <1>1 DEF SiloPcs, SiloLocking
  <2>2. /\ accesses' = accesses /\ tries' = tries /\ query' = query /\ hist' = hist /\ vers' = vers
        /\ pc' = [pc EXCEPT ![t] = "reads"]
    BY <1>1
  <2> QED BY <1>0, <1>4, <1>5, <2>1, <2>2, SiloTypesStep
<1>7. SiloQuiet
  BY <1>1 DEF SiloQuiet
<1>8. Follows(t)' /\ SiloAccess(t)' /\ SiloFresh(t)'
  BY <1>1, <1>6, <1>7, SiloKeepTxn DEF SiloQuiet, SiloInstalling
<1>9. /\ WN(t)' = WN(t) /\ RN(t)' = RN(t) /\ WriteSet(t)' = WriteSet(t)
      /\ \A k : WRow(t, k)' = WRow(t, k)
      /\ \A a, b : WRows(t, a, b)' = WRows(t, a, b)
  BY <1>1, SetsKept
<1>10. SiloLoop(t)'
  <2>1. /\ accesses'[t] # <<>> /\ local'[t].num_locks = WN(t)' /\ local'[t].i <= RN(t)'
        /\ local'[t].num_locks <= WN(t)'
    BY <1>0, <1>1, <1>3, <1>4, <1>6, <1>9 DEF SiloLoop, SiloLocking
  <2> QED BY <1>6, <2>1 DEF SiloLoop, SiloCopying, SiloLocking, SiloInstalling
<1>11. SiloCopy(t)'
  BY <1>6 DEF SiloCopy, SiloCopying
<1>12. SiloCurrent(t)'
  BY <1>0, <1>1, <1>4, <1>6, <1>9 DEF SiloCurrent, SiloInstalling
<1>13. SiloHeld(t)' = SiloHeld(t)
  BY <1>1, <1>4, <1>6, <1>9 DEF SiloHeld, SiloLocking
<1>14. HistoryKept' /\ IdsUsed'
  BY <1>1, <1>6, SiloSameHistory
<1>15. \A r \in Row : row'[r].lock <=> (row[r].lock /\ r \notin SiloHeld(t)) \/ r \in SiloHeld(t)'
  <2>1. \A r \in Row : r \in SiloHeld(t) => row[r].lock
    BY DEF SiloBase, SiloLocks
  <2> QED BY <1>1, <1>13, <2>1
<1> QED BY <1>1, <1>6, <1>7, <1>8, <1>10, <1>11, <1>12, <1>13, <1>14, <1>15, SiloQuietStep DEF SiloThread

LEMMA SiloValidateRead ==
  ASSUME SiloBase, NEW t \in Thread, SI!ValidateRead(t)
  PROVE  SiloBase'
<1>0. /\ SiloTypes /\ SiloLoop(t) /\ Follows(t) /\ SiloCurrent(t)
      /\ row \in [Row -> SiloRowType] /\ local[t] \in SiloLocalType
  BY SiloTyped DEF SiloBase, SiloThread, SiloTypes, SiloRowType
<1>1. /\ pc[t] = "reads" /\ local[t].i < Len(ReadSet(t))
      /\ local' = [local EXCEPT ![t] = [local[t] EXCEPT !.i = local[t].i + 1]]
      /\ \E l \in {"reads", "abort"} : pc' = [pc EXCEPT ![t] = l]
      /\ row' = row /\ accesses' = accesses /\ tries' = tries /\ query' = query
      /\ hist' = hist /\ vers' = vers
  BY SiloNames DEF SI!ValidateRead, SI!Goto, SI!Set
<1>2. PICK l \in {"reads", "abort"} : pc' = [pc EXCEPT ![t] = l]
  BY <1>1
<1>3. local[t].i < RN(t) /\ RN(t) \in Nat
  BY <1>0, <1>1, SiloRowsOK, ReadSetProps
<1> DEFINE w == [local[t] EXCEPT !.i = local[t].i + 1]
<1>4. /\ w \in SiloLocalType /\ w.num_locks = local[t].num_locks /\ w.i = local[t].i + 1
      /\ w.i <= RN(t)
  BY <1>0, <1>3 DEF SiloLocalType
<1>5. local' = [local EXCEPT ![t] = w]
  BY <1>1
<1> HIDE DEF w
<1>6. SiloTypes' /\ OnlyThread(t) /\ pc'[t] = l /\ local'[t] = w
  <2>1. l \in SiloPcs /\ row' \in [Row -> SiloRowType]
    BY <1>0, <1>1, <1>2 DEF SiloPcs, SiloLocking
  <2>2. accesses' = accesses /\ tries' = tries /\ query' = query /\ hist' = hist /\ vers' = vers
    BY <1>1
  <2> QED BY <1>0, <1>2, <1>4, <1>5, <2>1, <2>2, SiloTypesStep
<1>7. SiloQuiet
  BY <1>1 DEF SiloQuiet
<1>8. Follows(t)' /\ SiloAccess(t)' /\ SiloFresh(t)'
  BY <1>1, <1>2, <1>6, <1>7, SiloKeepTxn DEF SiloQuiet, SiloInstalling
<1>9. /\ WN(t)' = WN(t) /\ RN(t)' = RN(t) /\ WriteSet(t)' = WriteSet(t)
      /\ \A k : WRow(t, k)' = WRow(t, k)
      /\ \A a, b : WRows(t, a, b)' = WRows(t, a, b)
  BY <1>1, SetsKept
<1>10. SiloLoop(t)'
  <2>1. /\ accesses'[t] # <<>> /\ local'[t].num_locks = WN(t)' /\ local'[t].i <= RN(t)'
        /\ local'[t].num_locks <= WN(t)'
    BY <1>0, <1>1, <1>4, <1>6, <1>9 DEF SiloLoop, SiloLocking
  <2> QED BY <1>2, <1>6, <2>1 DEF SiloLoop, SiloCopying, SiloLocking, SiloInstalling
<1>11. SiloCopy(t)'
  BY <1>2, <1>6 DEF SiloCopy, SiloCopying
<1>12. SiloCurrent(t)'
  BY <1>0, <1>1, <1>2, <1>4, <1>6, <1>9 DEF SiloCurrent, SiloInstalling
<1>13. SiloHeld(t)' = SiloHeld(t)
  BY <1>1, <1>2, <1>4, <1>6, <1>9 DEF SiloHeld, SiloLocking
<1>14. HistoryKept' /\ IdsUsed'
  BY <1>1, <1>6, SiloSameHistory
<1>15. \A r \in Row : row'[r].lock <=> (row[r].lock /\ r \notin SiloHeld(t)) \/ r \in SiloHeld(t)'
  <2>1. \A r \in Row : r \in SiloHeld(t) => row[r].lock
    BY DEF SiloBase, SiloLocks
  <2> QED BY <1>1, <1>13, <2>1
<1>16. pc[t] \notin {"install2", "word"} /\ pc'[t] \notin {"install2", "word"}
  BY <1>1, <1>2, <1>6
<1> QED BY <1>6, <1>7, <1>8, <1>10, <1>11, <1>12, <1>13, <1>14, <1>15, <1>16, SiloQuietStep DEF SiloThread

\* A finite set of numbers that is not empty has a greatest element.
LEMMA FiniteHasMax ==
  ASSUME NEW T \in SUBSET Nat, T # {}, IsFiniteSet(T)
  PROVE  \E x \in T : \A y \in T : y <= x
<1> DEFINE Above(x) == {y \in T : y >= x}
           Sizes == {Cardinality(Above(x)) : x \in T}
<1>1. ASSUME NEW x \in T PROVE IsFiniteSet(Above(x)) /\ Cardinality(Above(x)) \in Nat
  <2>1. Above(x) \in SUBSET T
    OBVIOUS
  <2> HIDE DEF Above
  <2>2. IsFiniteSet(Above(x))
    BY <2>1, FS_Subset
  <2> QED BY <2>2, FS_CardinalityType
<1>2. Sizes \in SUBSET Nat /\ Sizes # {}
  <2> HIDE DEF Above
  <2> QED BY <1>1
<1>3. Min(Sizes) \in Sizes /\ \A c \in Sizes : Min(Sizes) <= c
  <2> HIDE DEF Sizes
  <2> QED BY <1>2, MinNat
<1>4. PICK x \in T : Min(Sizes) = Cardinality(Above(x))
  <2> HIDE DEF Above
  <2> QED BY <1>3
<1>5. ASSUME NEW y \in T, ~(y <= x) PROVE FALSE
  <2>1. x \in Nat /\ y \in Nat /\ y > x
    BY <1>5
  <2>2. Above(y) \in SUBSET Above(x) /\ x \in Above(x) /\ x \notin Above(y)
    <3>1. \A z \in T : z \in Nat
      OBVIOUS
    <3>2. x \in Above(x) /\ x \notin Above(y)
      BY <2>1
    <3>3. ASSUME NEW z \in T, z >= y PROVE z >= x
      BY <2>1, <3>1, <3>3
    <3>4. \A z \in Above(y) : z \in T /\ z >= y
      OBVIOUS
    <3> QED BY <3>2, <3>3, <3>4
  <2>3. Cardinality(Above(x)) <= Cardinality(Above(y))
    <3> HIDE DEF Above
    <3>1. Cardinality(Above(y)) \in Sizes
      OBVIOUS
    <3> HIDE DEF Sizes
    <3> QED BY <1>3, <1>4, <3>1
  <2>4. /\ Cardinality(Above(y)) <= Cardinality(Above(x))
        /\ Cardinality(Above(x)) = Cardinality(Above(y)) => Above(x) = Above(y)
    <3> HIDE DEF Above
    <3> QED BY <1>1, <2>2, FS_Subset
  <2>5. Above(x) # Above(y)
    BY <2>2
  <2> HIDE DEF Above
  <2> QED BY <1>1, <2>3, <2>4, <2>5
<1> QED BY <1>5

\* The number a commit chooses is above the numbers of its rows.
LEMMA SiloNextTid ==
  ASSUME SiloTypes, NEW t \in Thread, accesses[t] # <<>>
  PROVE  /\ SI!NextTid(t) \in Nat
         /\ \A i \in 1..Len(accesses[t]) : accesses[t][i].tid < SI!NextTid(t)
<1> DEFINE n == Len(accesses[t])
           S == {accesses[t][i].tid : i \in 1..n}
<1>1. /\ accesses[t] \in Seq(SiloAccessType) /\ n \in Nat
      /\ \A i \in 1..n : accesses[t][i].tid \in Nat
      /\ local[t].cur_tid \in Nat
  BY SiloTyped
<1>2. n # 0
  BY <1>1
<1>3. S \in SUBSET Nat /\ S # {}
  <2>1. 1 \in 1..n
    BY <1>1, <1>2
  <2>2. accesses[t][1].tid \in S
    BY <2>1
  <2> QED BY <1>1, <2>2
<1>4. IsFiniteSet(S)
  <2>1. IsFiniteSet(1..n)
    <3> HIDE DEF n
    <3> QED BY <1>1, FS_Interval
  <2> DEFINE f == [i \in 1..n |-> accesses[t][i].tid]
  <2>2. f \in Surjection(1..n, S)
    <3>1. f \in [1..n -> S] /\ \A x \in S : \E i \in 1..n : f[i] = x
      <4> HIDE DEF n
      <4> QED OBVIOUS
    <3> QED BY <3>1 DEF Surjection
  <2> HIDE DEF f, S, n
  <2> QED BY <2>1, <2>2, FS_Surjection
<1>5. PICK x \in S : \A y \in S : y <= x
  <2> HIDE DEF S
  <2> QED BY <1>3, <1>4, FiniteHasMax
<1>6. SI!MaxTid(t) \in S /\ \A y \in S : y <= SI!MaxTid(t)
  <2>1. SI!MaxTid(t) = CHOOSE z \in S : \A y \in S : y <= z
    BY DEF SI!MaxTid
  <2> HIDE DEF S
  <2> QED BY <1>5, <2>1
<1>7. SI!MaxTid(t) \in Nat
  <2> HIDE DEF S
  <2> QED BY <1>3, <1>6
<1>8. /\ SI!NextTid(t) \in Nat /\ SI!MaxTid(t) < SI!NextTid(t)
  BY <1>1, <1>7 DEF SI!NextTid
<1> SUFFICES ASSUME NEW i \in 1..n PROVE accesses[t][i].tid < SI!NextTid(t)
  BY <1>8
<1>9. accesses[t][i].tid \in S
  OBVIOUS
<1>10. accesses[t][i].tid <= SI!MaxTid(t) /\ accesses[t][i].tid \in Nat
  <2> HIDE DEF S
  <2> QED BY <1>1, <1>6, <1>9
<1> HIDE DEF S, n
<1> QED BY <1>7, <1>8, <1>10

LEMMA SiloValidateWrites ==
  ASSUME SiloBase, NEW t \in Thread, SI!ValidateWrites(t)
  PROVE  SiloBase'
<1>0. /\ SiloTypes /\ SiloLoop(t) /\ Follows(t) /\ SiloCurrent(t)
      /\ row \in [Row -> SiloRowType] /\ local[t] \in SiloLocalType
      /\ local \in [Thread -> SiloLocalType]
  BY SiloTyped DEF SiloBase, SiloThread, SiloTypes, SiloRowType, SiloLocalType
<1>1. pc[t] = "reads" /\ local[t].i = Len(ReadSet(t)) /\ RowsOK(t)
  BY <1>0, SiloNames, SiloRowsOK DEF SI!ValidateWrites
<1>2. accesses[t] # <<>> /\ local[t].num_locks = WN(t) /\ WN(t) \in Nat
  BY <1>0, <1>1, WriteSetProps DEF SiloLoop, SiloLocking
<1> DEFINE d == SI!NextTid(t)
           w == [local[t] EXCEPT !.cur_tid = d, !.i = 0]
<1>3. /\ row' = row /\ accesses' = accesses /\ tries' = tries /\ query' = query
      /\ hist' = hist /\ vers' = vers
      /\ \/ local' = [local EXCEPT ![t] = w] /\ pc' = [pc EXCEPT ![t] = "install1"]
         \/ local' = local /\ pc' = [pc EXCEPT ![t] = "abort"]
  BY SiloNames DEF SI!ValidateWrites, SI!Goto, SI!Set
<1>4. d \in Nat /\ \A i \in 1..Len(accesses[t]) : accesses[t][i].tid < d
  BY <1>0, <1>2, SiloNextTid
<1> HIDE DEF d
<1>5. w \in SiloLocalType /\ w.i = 0 /\ w.cur_tid = d /\ w.num_locks = local[t].num_locks
  BY <1>0, <1>4 DEF SiloLocalType
<1> HIDE DEF w
<1>6. PICK l \in {"install1", "abort"}, z \in SiloLocalType :
         /\ pc' = [pc EXCEPT ![t] = l] /\ local' = [local EXCEPT ![t] = z]
         /\ l = "install1" => z.i = 0 /\ z.cur_tid = d
         /\ l = "abort" => z = local[t]
  <2>1. CASE local' = [local EXCEPT ![t] = w] /\ pc' = [pc EXCEPT ![t] = "install1"]
    BY <1>5, <2>1
  <2>2. CASE local' = local /\ pc' = [pc EXCEPT ![t] = "abort"]
    <3>1. local' = [local EXCEPT ![t] = local[t]]
      BY <1>0, <2>2
    <3> QED BY <1>0, <2>2, <3>1
  <2> QED BY <1>3, <2>1, <2>2
<1>7. SiloTypes' /\ OnlyThread(t) /\ pc'[t] = l /\ local'[t] = z
  <2>1. l \in SiloPcs /\ row' \in [Row -> SiloRowType]
    BY <1>0, <1>3, <1>6 DEF SiloPcs, SiloLocking, SiloInstalling
  <2>2. accesses' = accesses /\ tries' = tries /\ query' = query /\ hist' = hist /\ vers' = vers
    BY <1>3
  <2> QED BY <1>0, <1>6, <2>1, <2>2, SiloTypesStep
<1>8. SiloQuiet
  BY <1>3 DEF SiloQuiet
<1>9. Follows(t)' /\ SiloAccess(t)' /\ SiloFresh(t)'
  BY <1>1, <1>3, <1>6, <1>7, <1>8, SiloKeepTxn DEF SiloQuiet, SiloInstalling
<1>10. /\ WN(t)' = WN(t) /\ RN(t)' = RN(t) /\ WriteSet(t)' = WriteSet(t)
       /\ \A k : WRow(t, k)' = WRow(t, k)
       /\ \A a, b : WRows(t, a, b)' = WRows(t, a, b)
  BY <1>3, SetsKept
<1>11. SiloLoop(t)'
  <2>1. accesses'[t] # <<>> /\ WN(t)' = WN(t)
    BY <1>2, <1>3, <1>10
  <2>2. pc'[t] = "install1" => local'[t].i <= WN(t)
    BY <1>2, <1>6, <1>7
  <2>3. pc'[t] = "abort" => local'[t].num_locks <= WN(t)
    BY <1>2, <1>6, <1>7
  <2> QED BY <1>6, <1>7, <2>1, <2>2, <2>3 DEF SiloLoop, SiloCopying, SiloLocking, SiloInstalling
<1>12. SiloCopy(t)'
  BY <1>6, <1>7 DEF SiloCopy, SiloCopying
<1>13. SiloCurrent(t)'
  <2> SUFFICES ASSUME l = "install1" PROVE SiloCurrent(t)'
    BY <1>6, <1>7 DEF SiloCurrent, SiloInstalling
  <2>1. SiloDone(t)' = 0
    BY <1>6, <1>7 DEF SiloDone, SiloInstalling
  <2>2. ASSUME NEW k \in 1..WN(t)
        PROVE  /\ accesses'[t][WriteSet(t)'[k]].tid = row'[WRow(t, k)'].tid
               /\ local'[t].cur_tid > row'[WRow(t, k)'].tid
    <3>1. accesses[t][WriteSet(t)[k]].tid = row[WRow(t, k)].tid
      BY <1>0, <1>1, <1>2 DEF SiloCurrent
    <3>2. WriteSet(t)[k] \in 1..Len(accesses[t])
      BY <1>1, WriteSetProps
    <3>3. accesses[t][WriteSet(t)[k]].tid \in Nat
      BY <1>0, <3>2, SiloTyped
    <3>4. local'[t].cur_tid > accesses[t][WriteSet(t)[k]].tid
      BY <1>4, <1>6, <1>7, <3>2, <3>3
    <3> QED BY <1>3, <1>10, <3>1, <3>4
  <2>3. (SiloDone(t)' + 1)..WN(t)' = 1..WN(t) /\ 1..SiloDone(t)' = {}
    BY <1>2, <1>10, <2>1
  <2>4. pc'[t] = "install1"
    BY <1>7
  <2> QED BY <2>2, <2>3, <2>4 DEF SiloCurrent
<1>14. SiloHeld(t)' = SiloHeld(t)
  <2>1. SiloHeld(t) = WRows(t, 1, WN(t))
    BY <1>1, <1>2 DEF SiloHeld, SiloLocking
  <2>2. CASE l = "install1"
    <3>1. local'[t].i + 1 = 1
      BY <1>6, <1>7, <2>2
    <3> QED BY <1>7, <1>10, <2>1, <2>2, <3>1 DEF SiloHeld, SiloLocking, SiloInstalling
  <2>3. CASE l = "abort"
    <3>1. pc'[t] = "abort" /\ local'[t].num_locks = WN(t)
      BY <1>2, <1>6, <1>7, <2>3
    <3>2. SiloHeld(t)' = WRows(t, 1, WN(t))
      BY <1>10, <3>1 DEF SiloHeld, SiloLocking
    <3> QED BY <2>1, <3>2
  <2> QED BY <2>2, <2>3
<1>15. HistoryKept' /\ IdsUsed'
  BY <1>1, <1>3, <1>7, SiloSameHistory
<1>16. \A r \in Row : row'[r].lock <=> (row[r].lock /\ r \notin SiloHeld(t)) \/ r \in SiloHeld(t)'
  <2>1. \A r \in Row : r \in SiloHeld(t) => row[r].lock
    BY DEF SiloBase, SiloLocks
  <2> QED BY <1>3, <1>14, <2>1
<1>17. pc[t] \notin {"install2", "word"} /\ pc'[t] \notin {"install2", "word"}
  BY <1>1, <1>6, <1>7
<1> QED BY <1>7, <1>8, <1>9, <1>11, <1>12, <1>13, <1>14, <1>15, <1>16, <1>17, SiloQuietStep DEF SiloThread

-----------------------------------------------------------------------------
(* Silo: the steps that install and the end of an attempt.                 *)

\* The row a thread that installs is at.
LEMMA SiloInstallingRow ==
  ASSUME SiloBase, NEW t \in Thread, pc[t] \in SiloInstalling, local[t].i < WN(t)
  PROVE  /\ local[t].i + 1 \in 1..WN(t) /\ WN(t) \in Nat
         /\ WRow(t, local[t].i + 1) \in Row
         /\ WRow(t, local[t].i + 1) \in SiloHeld(t)
         /\ SiloHeld(t) = WRows(t, local[t].i + 1, WN(t))
         /\ row[WRow(t, local[t].i + 1)].lock
         /\ \A u \in Thread : WRow(t, local[t].i + 1) \in SiloHeld(u) => u = t
<1>1. RowsOK(t) /\ local[t].i \in Nat
  BY SiloRowsOK, SiloTyped DEF SiloBase, SiloThread
<1>2. WN(t) \in Nat
  BY <1>1, WriteSetProps
<1>3. local[t].i + 1 \in 1..WN(t) /\ local[t].i + 1 \in (local[t].i + 1)..WN(t)
  BY <1>1, <1>2
<1>4. WRow(t, local[t].i + 1) \in Row
  BY <1>1, <1>3, WriteSetProps
<1>5. SiloHeld(t) = WRows(t, local[t].i + 1, WN(t))
  BY DEF SiloHeld, SiloLocking, SiloInstalling
<1>6. WRow(t, local[t].i + 1) \in SiloHeld(t)
  BY <1>3, <1>5 DEF WRows
<1> QED BY <1>2, <1>3, <1>4, <1>5, <1>6 DEF SiloBase, SiloLocks

LEMMA SiloRelease ==
  ASSUME SiloBase, NEW t \in Thread, SI!ReleaseInstalled(t)
  PROVE  SiloBase'
<1>0. /\ SiloTypes /\ SiloLoop(t) /\ Follows(t) /\ SiloCurrent(t)
      /\ row \in [Row -> SiloRowType] /\ local[t] \in SiloLocalType
  BY SiloTyped DEF SiloBase, SiloThread, SiloTypes, SiloRowType
<1>1. PICK n \in Nat, r \in Row : n = local[t].i /\ r = WRow(t, n + 1)
  <2>1. pc[t] \in SiloInstalling /\ local[t].i < WN(t)
    BY <1>0 DEF SI!ReleaseInstalled, SiloInstalling, SiloLoop
  <2> QED BY <1>0, <2>1, SiloInstallingRow DEF SiloLocalType
<1>2. /\ pc[t] = "release" /\ pc' = [pc EXCEPT ![t] = "install1"]
      /\ row' = [row EXCEPT ![r].lock = FALSE]
      /\ local' = [local EXCEPT ![t] = [local[t] EXCEPT !.i = local[t].i + 1]]
      /\ accesses' = accesses /\ tries' = tries /\ query' = query
      /\ hist' = hist /\ vers' = vers
  BY <1>1, SiloNames DEF SI!ReleaseInstalled, SI!Goto, SI!Set
<1>3. /\ n + 1 \in 1..WN(t) /\ WN(t) \in Nat
      /\ r \in SiloHeld(t) /\ SiloHeld(t) = WRows(t, n + 1, WN(t))
  <2>1. pc[t] \in SiloInstalling /\ local[t].i < WN(t)
    BY <1>0, <1>2 DEF SiloInstalling, SiloLoop
  <2> QED BY <1>1, <2>1, SiloInstallingRow
<1> DEFINE w == [local[t] EXCEPT !.i = local[t].i + 1]
<1>4. w \in SiloLocalType /\ w.i = n + 1 /\ w.cur_tid = local[t].cur_tid
  BY <1>0, <1>1 DEF SiloLocalType
<1>5. local' = [local EXCEPT ![t] = w]
  BY <1>2
<1> HIDE DEF w
<1>6. /\ row' \in [Row -> SiloRowType]
      /\ \A y \in Row : row'[y].tid = row[y].tid /\ row'[y].data = row[y].data
      /\ \A y \in Row : row'[y].lock <=> row[y].lock /\ y # r
  BY <1>0, <1>2 DEF SiloRowType
<1>7. SiloTypes' /\ OnlyThread(t) /\ pc'[t] = "install1" /\ local'[t] = w
  <2>1. "install1" \in SiloPcs
    BY DEF SiloPcs, SiloInstalling
  <2>2. /\ accesses' = accesses /\ tries' = tries /\ query' = query
        /\ hist' = hist /\ vers' = vers /\ pc' = [pc EXCEPT ![t] = "install1"]
    BY <1>2
  <2> QED BY <1>0, <1>4, <1>5, <1>6, <2>1, <2>2, SiloTypesStep
<1>8. SiloQuiet
  BY <1>2, <1>6 DEF SiloQuiet
<1>9. Follows(t)' /\ SiloAccess(t)' /\ SiloFresh(t)'
  BY <1>2, <1>7, <1>8, SiloKeepTxn DEF SiloQuiet, SiloInstalling
<1>10. /\ WN(t)' = WN(t) /\ RN(t)' = RN(t) /\ WriteSet(t)' = WriteSet(t)
       /\ \A k : WRow(t, k)' = WRow(t, k)
       /\ \A a, b : WRows(t, a, b)' = WRows(t, a, b)
  BY <1>2, SetsKept
<1>11. SiloLoop(t)'
  <2>1. accesses'[t] # <<>>
    BY <1>0, <1>2 DEF SiloLoop, SiloInstalling
  <2>2. n + 1 <= WN(t)
    BY <1>3
  <2>3. local'[t].i <= WN(t)'
    BY <1>4, <1>7, <1>10, <2>2
  <2> QED BY <1>7, <2>1, <2>3 DEF SiloLoop, SiloCopying, SiloLocking, SiloInstalling
<1>12. SiloCopy(t)'
  BY <1>7 DEF SiloCopy, SiloCopying
<1>13. SiloDone(t) = n + 1 /\ SiloDone(t)' = n + 1
  BY <1>1, <1>2, <1>4, <1>7 DEF SiloDone, SiloInstalling
<1>14. SiloCurrent(t)'
  <2>1. ASSUME NEW k \in (n + 1 + 1)..WN(t)
        PROVE  /\ accesses'[t][WriteSet(t)'[k]].tid = row'[WRow(t, k)'].tid
               /\ local'[t].cur_tid > row'[WRow(t, k)'].tid
    <3>1. /\ accesses[t][WriteSet(t)[k]].tid = row[WRow(t, k)].tid
          /\ local[t].cur_tid > row[WRow(t, k)].tid
      BY <1>0, <1>2, <1>13 DEF SiloCurrent, SiloInstalling
    <3>2. k \in 1..WN(t)
      BY <1>1, <1>3
    <3>3. WRow(t, k) \in Row
      BY <1>0, <3>2, SiloRowsOK, WriteSetProps
    <3> QED BY <1>2, <1>4, <1>6, <1>7, <1>10, <3>1, <3>3
  <2>2. ASSUME NEW k \in 1..(n + 1)
        PROVE  Replaced(WRow(t, k), accesses[t][WriteSet(t)[k]].data[1], Attempt(t))'
    <3>1. Replaced(WRow(t, k), accesses[t][WriteSet(t)[k]].data[1], Attempt(t))
      BY <1>0, <1>2, <1>13 DEF SiloCurrent, SiloInstalling
    <3> QED BY <1>2, <1>10, <3>1 DEF Replaced, Attempt
  <2>3. pc'[t] \notin {"lock", "reads"}
    BY <1>7
  <2> QED BY <1>10, <1>13, <2>1, <2>2, <2>3 DEF SiloCurrent
<1>15. SiloHeld(t)' = WRows(t, n + 2, WN(t))
  <2>1. local'[t].i + 1 = n + 2
    BY <1>1, <1>4, <1>7
  <2> QED BY <1>7, <1>10, <2>1 DEF SiloHeld, SiloLocking, SiloInstalling
<1>16. \A y : y \in SiloHeld(t)' <=> y \in SiloHeld(t) /\ y # r
  <2>1. \A k \in (n + 2)..WN(t) : k \in (n + 1)..WN(t) /\ k \in 1..WN(t) /\ k # n + 1
    BY <1>1, <1>3
  <2>2. \A k \in (n + 1)..WN(t) : k = n + 1 \/ k \in (n + 2)..WN(t)
    BY <1>1, <1>3
  <2>3. \A k \in 1..WN(t) : WRow(t, k) = WRow(t, n + 1) => k = n + 1
    BY <1>0, <1>3, SiloRowsOK, WriteSetProps
  <2> QED BY <1>1, <1>3, <1>15, <2>1, <2>2, <2>3 DEF WRows
<1>17. HistoryKept' /\ IdsUsed'
  BY <1>2, <1>7, SiloSameHistory
<1>18. \A y \in Row : row'[y].lock <=> (row[y].lock /\ y \notin SiloHeld(t)) \/ y \in SiloHeld(t)'
  <2>1. \A y \in Row : y \in SiloHeld(t) => row[y].lock
    BY DEF SiloBase, SiloLocks
  <2> QED BY <1>3, <1>6, <1>16, <2>1
<1> QED BY <1>2, <1>7, <1>8, <1>9, <1>11, <1>12, <1>14, <1>16, <1>17, <1>18, SiloQuietStep DEF SiloThread

\* What is left to show of a step of t besides its effect on the others.
LEMMA SiloLoudStep ==
  ASSUME SiloBase, SiloTypes', NEW t \in Thread, SiloEffect(t), SiloRows', SiloLocks',
         SiloThread(t)', HistoryKept', IdsUsed'
  PROVE  SiloBase'
<1>1. \A u \in Thread : SiloThread(u)'
  <2> TAKE u \in Thread
  <2>1. CASE u = t
    BY <2>1
  <2>2. CASE u # t
    BY <2>2, SiloOthers
  <2> QED BY <2>1, <2>2
<1> QED BY <1>1 DEF SiloBase

LEMMA SiloInstallHalf ==
  ASSUME SiloBase, NEW t \in Thread, NEW h \in 1..2, SI!InstallHalf(t, h)
  PROVE  SiloBase'
<1> DEFINE from == <<"install1", "install2">>[h]
           to == <<"install2", "word">>[h]
<1>0. /\ SiloTypes /\ SiloLoop(t) /\ Follows(t) /\ SiloCurrent(t) /\ SiloRows
      /\ row \in [Row -> SiloRowType] /\ local[t] \in SiloLocalType
      /\ local \in [Thread -> SiloLocalType] /\ Attempt(t) \in Ids
  BY SiloTyped DEF SiloBase, SiloThread, SiloTypes, SiloRowType, SiloLocalType
<1>1. \/ h = 1 /\ from = "install1" /\ to = "install2"
      \/ h = 2 /\ from = "install2" /\ to = "word"
  OBVIOUS
<1>2. /\ pc[t] = from /\ local[t].i < WN(t) /\ pc' = [pc EXCEPT ![t] = to]
      /\ row' = [row EXCEPT ![WRow(t, local[t].i + 1)].data[h] = Attempt(t)]
      /\ local' = local /\ accesses' = accesses /\ tries' = tries /\ query' = query
      /\ hist' = hist /\ vers' = vers
  <2>1. RowsOK(t)
    BY <1>0, SiloRowsOK
  <2>2. Len(WriteSet(t)) = WN(t)
    BY <2>1, WriteSetProps
  <2> QED BY <2>2, SiloNames DEF SI!InstallHalf, SI!Goto
<1> HIDE DEF from, to
<1>3. from \in SiloInstalling /\ to \in SiloInstalling
  BY <1>1 DEF SiloInstalling
<1>4. PICK n \in Nat, r \in Row, id \in Ids : n = local[t].i /\ r = WRow(t, n + 1) /\ id = Attempt(t)
  BY <1>0, <1>2, <1>3, SiloInstallingRow DEF SiloLocalType
<1>5. /\ n + 1 \in 1..WN(t) /\ WN(t) \in Nat
      /\ r \in SiloHeld(t) /\ SiloHeld(t) = WRows(t, n + 1, WN(t))
      /\ \A u \in Thread : r \in SiloHeld(u) => u = t
  BY <1>2, <1>3, <1>4, SiloInstallingRow
<1>6. /\ row' \in [Row -> SiloRowType]
      /\ \A y \in Row : row'[y].tid = row[y].tid /\ row'[y].lock = row[y].lock
      /\ \A y \in Row : y # r => row'[y] = row[y]
      /\ row'[r].data[h] = id
      /\ \A g \in 1..2 : g # h => row'[r].data[g] = row[r].data[g]
  <2>1. row' = [row EXCEPT ![r].data[h] = id]
    BY <1>2, <1>4
  <2> QED BY <1>0, <2>1 DEF SiloRowType, Copies
<1>7. SiloTypes' /\ OnlyThread(t) /\ pc'[t] = to /\ local'[t] = local[t]
  <2>1. to \in SiloPcs /\ local' = [local EXCEPT ![t] = local[t]]
    BY <1>0, <1>2, <1>3 DEF SiloPcs
  <2>2. /\ accesses' = accesses /\ tries' = tries /\ query' = query
        /\ hist' = hist /\ vers' = vers /\ pc' = [pc EXCEPT ![t] = to]
    BY <1>2
  <2> QED BY <1>0, <1>6, <2>1, <2>2, SiloTypesStep
<1>8. pc[t] # "idle" /\ pc'[t] # "idle"
  BY <1>1, <1>2, <1>7
<1>9. Follows(t)' /\ SiloAccess(t)' /\ SiloFresh(t)'
  BY <1>2, <1>3, <1>6, <1>7, <1>8, SiloKeepTxn
<1>10. /\ WN(t)' = WN(t) /\ RN(t)' = RN(t) /\ WriteSet(t)' = WriteSet(t)
       /\ \A k : WRow(t, k)' = WRow(t, k)
       /\ \A a, b : WRows(t, a, b)' = WRows(t, a, b)
  BY <1>2, SetsKept
<1>11. SiloLoop(t)' /\ SiloCopy(t)'
  BY <1>0, <1>1, <1>2, <1>3, <1>7, <1>10 DEF SiloLoop, SiloCopy, SiloCopying, SiloLocking, SiloInstalling
<1>12. SiloDone(t) = n /\ SiloDone(t)' = n
  BY <1>1, <1>2, <1>3, <1>4, <1>7 DEF SiloDone
<1>13. SiloCurrent(t)'
  <2>1. ASSUME NEW k \in (n + 1)..WN(t)
        PROVE  /\ accesses'[t][WriteSet(t)'[k]].tid = row'[WRow(t, k)'].tid
               /\ local'[t].cur_tid > row'[WRow(t, k)'].tid
    <3>1. /\ accesses[t][WriteSet(t)[k]].tid = row[WRow(t, k)].tid
          /\ local[t].cur_tid > row[WRow(t, k)].tid
      BY <1>0, <1>2, <1>3, <1>12 DEF SiloCurrent
    <3>2. k \in 1..WN(t)
      BY <1>4, <1>5
    <3>3. WRow(t, k) \in Row
      BY <1>0, <3>2, SiloRowsOK, WriteSetProps
    <3> QED BY <1>2, <1>6, <1>10, <3>1, <3>3
  <2>2. ASSUME NEW k \in 1..n
        PROVE  Replaced(WRow(t, k), accesses[t][WriteSet(t)[k]].data[1], Attempt(t))'
    <3>1. Replaced(WRow(t, k), accesses[t][WriteSet(t)[k]].data[1], Attempt(t))
      BY <1>0, <1>2, <1>3, <1>12 DEF SiloCurrent
    <3> QED BY <1>2, <1>10, <3>1 DEF Replaced, Attempt
  <2>3. pc'[t] \notin {"lock", "reads"}
    BY <1>1, <1>7
  <2> QED BY <1>10, <1>12, <2>1, <2>2, <2>3 DEF SiloCurrent
<1>14. SiloHeld(t)' = SiloHeld(t)
  <2>1. SiloHeld(t)' = WRows(t, n + 1, WN(t))
    BY <1>1, <1>4, <1>7, <1>10 DEF SiloHeld, SiloLocking, SiloInstalling
  <2> QED BY <1>5, <2>1
<1>15. SiloLocks'
  <2>1. SiloHeld(t)' \subseteq Row
    BY <1>14, SiloHeldRows DEF SiloBase, SiloThread
  <2>2. \A y \in Row : y \in SiloHeld(t) => row[y].lock
    BY DEF SiloBase, SiloLocks
  <2>3. \A y \in Row : row'[y].lock <=> (row[y].lock /\ y \notin SiloHeld(t)) \/ y \in SiloHeld(t)'
    BY <1>6, <1>14, <2>2
  <2> QED BY <1>7, <1>14, <2>1, <2>3, SiloLocksStep
<1>16. /\ \A y : SiloDirty(t, y)' <=> y = r
       /\ \A y : SiloDirty(t, y) <=> h = 2 /\ y = r
  BY <1>1, <1>2, <1>4, <1>7, <1>10 DEF SiloDirty
<1>17. \A u \in Thread : u # t => \A y : SiloDirty(u, y)' <=> SiloDirty(u, y)
  BY <1>7, SiloOwn DEF OnlyThread
<1>18. \A u \in Thread : u # t => ~SiloDirty(u, r)
  BY <1>5, SiloDirtyHeld
<1>19. SiloRows'
  <2>1. ASSUME NEW y \in Row, SiloClean(y)'
        PROVE  \A g \in 1..2 : row'[y].data[g] = Latest(y)'
    <3>1. y # r
      BY <1>16, <2>1 DEF SiloClean
    <3>2. SiloClean(y)
      BY <1>16, <1>17, <2>1, <3>1 DEF SiloClean
    <3>3. row'[y] = row[y] /\ Latest(y)' = Latest(y)
      BY <1>2, <1>6, <3>1 DEF Latest
    <3>4. \A g \in 1..2 : row[y].data[g] = Latest(y)
      BY <1>0, <3>2 DEF SiloRows
    <3> QED BY <3>3, <3>4
  <2>2. ASSUME NEW u \in Thread, NEW y \in Row, SiloDirty(u, y)'
        PROVE  row'[y].data[1] = Attempt(u)' /\ (pc'[u] = "word" => row'[y].data[2] = Attempt(u)')
    <3>1. CASE u = t
      <4>1. y = r /\ Attempt(u)' = id
        BY <1>2, <1>4, <1>16, <2>2, <3>1 DEF Attempt
      <4>2. CASE h = 1
        BY <1>1, <1>6, <1>7, <3>1, <4>1, <4>2
      <4>3. CASE h = 2
        <5>1. row[r].data[1] = id
          BY <1>0, <1>4, <1>16, <4>3 DEF SiloRows
        <5> QED BY <1>1, <1>6, <1>7, <3>1, <4>1, <4>3, <5>1
      <4> QED BY <4>2, <4>3
    <3>2. CASE u # t
      <4>1. SiloDirty(u, y) /\ y # r
        BY <1>17, <1>18, <2>2, <3>2
      <4>2. pc'[u] = pc[u] /\ Attempt(u)' = Attempt(u)
        BY <1>7, <3>2 DEF OnlyThread, Attempt
      <4> QED BY <1>0, <1>6, <4>1, <4>2 DEF SiloRows
    <3> QED BY <3>1, <3>2
  <2> QED BY <2>1, <2>2 DEF SiloRows
<1>20. SiloEffect(t)
  <2>1. VersionsGrow
    <3>1. \A y \in Row : Len(vers[y]) \in Nat
      BY <1>0 DEF SiloTypes, FrameTypes
    <3> QED BY <1>2, <3>1 DEF VersionsGrow
  <2>2. \A y \in Row : row[y].tid \in Nat
    BY <1>0 DEF SiloRowType
  <2>3. \A u \in Thread \ {t} : \A y \in SiloHeld(u) : row'[y].tid = row[y].tid
    BY <1>6, SiloHeldRows DEF SiloBase, SiloThread
  <2>4. \A y : SiloDirty(t, y) => SiloDirty(t, y)'
    BY <1>16
  <2> QED BY <1>2, <1>6, <1>7, <2>1, <2>2, <2>3, <2>4 DEF SiloEffect
<1>21. HistoryKept' /\ IdsUsed'
  BY <1>2, <1>7, <1>8, SiloSameHistory
<1>22. SiloThread(t)'
  BY <1>9, <1>11, <1>13 DEF SiloThread
<1> QED BY <1>7, <1>15, <1>19, <1>20, <1>21, <1>22, SiloLoudStep

\* Appending a version.
LEMMA AppendVersion ==
  ASSUME FrameTypes, NEW r \in Row, NEW id \in Ids, vers' = [vers EXCEPT ![r] = Append(vers[r], id)]
  PROVE  /\ vers' \in [Row -> Seq(Ids)] /\ VersionsGrow
         /\ Len(vers[r]) \in Nat /\ Len(vers'[r]) = Len(vers[r]) + 1
         /\ vers'[r][Len(vers[r]) + 1] = id
         /\ Latest(r)' = id
         /\ \A m \in 1..Len(vers[r]) : vers'[r][m] = vers[r][m]
         /\ \A y \in Row : y # r => vers'[y] = vers[y]
         /\ \A m \in 1..Len(vers'[r]) : m \in 1..Len(vers[r]) \/ m = Len(vers[r]) + 1
         /\ \A y \in Row : \A x : HasVersion(y, x)' => HasVersion(y, x) \/ (y = r /\ x = id)
         /\ vers[r] # <<>> => \A x : x = Latest(r) => Replaced(r, x, id)'
<1>1. vers \in [Row -> Seq(Ids)] /\ vers[r] \in Seq(Ids) /\ Len(vers[r]) \in Nat
  BY DEF FrameTypes
<1>2. vers' \in [Row -> Seq(Ids)]
  BY <1>1
<1>3. /\ vers'[r] = Append(vers[r], id) /\ Len(vers'[r]) = Len(vers[r]) + 1
      /\ vers'[r][Len(vers[r]) + 1] = id
      /\ \A m \in 1..Len(vers[r]) : vers'[r][m] = vers[r][m]
  BY <1>1
<1>4. \A y \in Row : y # r => vers'[y] = vers[y]
  BY <1>1
<1>5. \A m \in 1..Len(vers'[r]) : m \in 1..Len(vers[r]) \/ m = Len(vers[r]) + 1
  BY <1>1, <1>3
<1>6. VersionsGrow
  <2> SUFFICES ASSUME NEW y \in Row
               PROVE  Len(vers[y]) <= Len(vers'[y]) /\ \A m \in 1..Len(vers[y]) : vers'[y][m] = vers[y][m]
    BY DEF VersionsGrow
  <2>1. Len(vers[y]) \in Nat
    BY <1>1
  <2>2. CASE y = r
    BY <1>3, <2>1, <2>2
  <2>3. CASE y # r
    BY <1>4, <2>1, <2>3
  <2> QED BY <2>2, <2>3
<1>7. Latest(r)' = id
  BY <1>3 DEF Latest
<1>8. ASSUME NEW y \in Row, NEW x, HasVersion(y, x)' PROVE HasVersion(y, x) \/ (y = r /\ x = id)
  BY <1>3, <1>4, <1>5, <1>8 DEF HasVersion
<1>9. ASSUME vers[r] # <<>>, NEW x, x = Latest(r) PROVE Replaced(r, x, id)'
  <2> DEFINE m == Len(vers[r])
  <2>1. m # 0
    BY <1>1, <1>9
  <2>2. m \in 1..(Len(vers'[r]) - 1) /\ m \in 1..Len(vers[r])
    BY <1>1, <1>3, <2>1
  <2>3. vers'[r][m] = x /\ vers'[r][m + 1] = id
    BY <1>3, <1>9, <2>2 DEF Latest
  <2> HIDE DEF m
  <2> QED BY <2>2, <2>3 DEF Replaced
<1> QED BY <1>1, <1>2, <1>3, <1>4, <1>5, <1>6, <1>7, <1>8, <1>9

LEMMA SiloInstallWord ==
  ASSUME SiloBase, NEW t \in Thread, SI!InstallWord(t)
  PROVE  SiloBase'
<1>0. /\ SiloTypes /\ SiloLoop(t) /\ Follows(t) /\ SiloCurrent(t) /\ SiloRows /\ SiloAccess(t)
      /\ row \in [Row -> SiloRowType] /\ local[t] \in SiloLocalType
      /\ local \in [Thread -> SiloLocalType] /\ Attempt(t) \in Ids /\ FrameTypes
      /\ HistoryKept /\ IdsUsed
  BY SiloTyped DEF SiloBase, SiloThread, SiloTypes, SiloRowType, SiloLocalType
<1>1. /\ pc[t] = "word" /\ pc' = [pc EXCEPT ![t] = "release"]
      /\ row' = [row EXCEPT ![WRow(t, local[t].i + 1)].tid = local[t].cur_tid]
      /\ vers' = [vers EXCEPT ![WRow(t, local[t].i + 1)] = Append(vers[WRow(t, local[t].i + 1)], Attempt(t))]
      /\ local' = local /\ accesses' = accesses /\ tries' = tries /\ query' = query
      /\ hist' = hist
  BY SiloNames DEF SI!InstallWord, SI!Goto
<1>2. pc[t] \in SiloInstalling /\ local[t].i < WN(t)
  BY <1>0, <1>1 DEF SiloInstalling, SiloLoop
<1>3. PICK n \in Nat, r \in Row, id \in Ids, d \in Nat :
         n = local[t].i /\ r = WRow(t, n + 1) /\ id = Attempt(t) /\ d = local[t].cur_tid
  BY <1>0, <1>1, <1>2, SiloInstallingRow DEF SiloLocalType
<1>4. /\ n + 1 \in 1..WN(t) /\ WN(t) \in Nat
      /\ r \in SiloHeld(t) /\ SiloHeld(t) = WRows(t, n + 1, WN(t))
      /\ \A u \in Thread : r \in SiloHeld(u) => u = t
  BY <1>2, <1>3, SiloInstallingRow
<1>5. RowsOK(t)
  BY <1>0, SiloRowsOK
<1>6. /\ row' = [row EXCEPT ![r].tid = d]
      /\ vers' = [vers EXCEPT ![r] = Append(vers[r], id)]
  BY <1>1, <1>3
<1>7. /\ row' \in [Row -> SiloRowType]
      /\ \A y \in Row : row'[y].data = row[y].data /\ row'[y].lock = row[y].lock
      /\ \A y \in Row : y # r => row'[y] = row[y]
      /\ row'[r].tid = d
      /\ \A y \in Row : row[y].tid \in Nat
  BY <1>0, <1>6 DEF SiloRowType
<1>8. /\ vers' \in [Row -> Seq(Ids)] /\ VersionsGrow
      /\ Latest(r)' = id
      /\ \A y \in Row : y # r => vers'[y] = vers[y]
      /\ \A m \in 1..Len(vers'[r]) : m \in 1..Len(vers[r]) \/ m = Len(vers[r]) + 1
      /\ vers'[r][Len(vers[r]) + 1] = id
      /\ \A y \in Row : \A x : HasVersion(y, x)' => HasVersion(y, x) \/ (y = r /\ x = id)
      /\ \A x : x = Latest(r) => Replaced(r, x, id)'
  <2>1. vers[r] # <<>>
    BY <1>0 DEF HistoryKept
  <2> QED BY <1>0, <1>6, <2>1, AppendVersion
<1>9. pc'[t] = "release" /\ SiloTypes' /\ OnlyThread(t) /\ FrameTypes'
  <2>1. pc' \in [Thread -> SiloPcs] /\ pc'[t] = "release"
    BY <1>0, <1>1 DEF SiloTypes, SiloPcs, SiloInstalling
  <2>2. FrameTypes'
    BY <1>0, <1>1, <1>8 DEF FrameTypes
  <2>3. OnlyThread(t)
    BY <1>0, <1>1 DEF OnlyThread, SiloTypes
  <2> QED BY <1>0, <1>1, <1>7, <2>1, <2>2, <2>3 DEF SiloTypes, SiloPcs, SiloRowType
<1>10. /\ WN(t)' = WN(t) /\ RN(t)' = RN(t) /\ WriteSet(t)' = WriteSet(t)
       /\ \A k : WRow(t, k)' = WRow(t, k)
       /\ \A a, b : WRows(t, a, b)' = WRows(t, a, b)
  BY <1>1, SetsKept
<1>11. SiloDone(t) = n /\ SiloDone(t)' = n + 1
  BY <1>1, <1>3, <1>9 DEF SiloDone, SiloInstalling
<1>12. d > row[r].tid
  <2>1. n + 1 \in (SiloDone(t) + 1)..WN(t)
    BY <1>3, <1>4, <1>11
  <2> QED BY <1>0, <1>2, <1>3, <2>1 DEF SiloCurrent
<1>14. \A y \in Row : \A x : HasVersion(y, x) => HasVersion(y, x)'
  BY <1>0, <1>8, <1>9, VersionLemma
<1>15. \A y \in Row : \A x, z : Replaced(y, x, z) => Replaced(y, x, z)'
  BY <1>0, <1>8, <1>9, VersionLemma
<1>16. Follows(t)' /\ SiloLoop(t)' /\ SiloCopy(t)' /\ SiloFresh(t)'
  <2>1. pc'[t] \in SiloInstalling /\ pc'[t] \notin SiloCopying /\ pc'[t] \notin SiloLocking
    BY <1>9 DEF SiloInstalling, SiloCopying, SiloLocking
  <2>2. Follows(t)'
    BY <1>0, <1>1, <1>9 DEF Follows
  <2>3. SiloLoop(t)'
    BY <1>0, <1>1, <1>2, <1>9, <1>10, <2>1 DEF SiloLoop
  <2> QED BY <2>1, <2>2, <2>3 DEF SiloCopy, SiloFresh
<1>17. SiloAccess(t)'
  <2> SUFFICES ASSUME NEW i \in 1..Len(accesses[t])
               PROVE  /\ accesses[t][i].tid <= row'[accesses[t][i].row].tid
                      /\ HasVersion(accesses[t][i].row, accesses[t][i].data[1])'
                      /\ accesses[t][i].tid = row'[accesses[t][i].row].tid =>
                            accesses[t][i].data[1] = Latest(accesses[t][i].row)'
    BY <1>1 DEF SiloAccess
  <2>1. PICK y \in Row, x \in Ids, c \in Nat :
           y = accesses[t][i].row /\ x = accesses[t][i].data[1] /\ c = accesses[t][i].tid
    BY <1>0, SiloTyped
  <2>2. c <= row[y].tid /\ HasVersion(y, x) /\ (c = row[y].tid => x = Latest(y))
    BY <1>0, <2>1 DEF SiloAccess
  <2>3. y = accesses'[t][i].row /\ x = accesses'[t][i].data[1]
    BY <1>1, <2>1
  <2>4. HasVersion(y, x)'
    BY <1>14, <2>2
  <2>5. CASE y = r
    <3>1. c <= row'[y].tid /\ c # row'[y].tid
      BY <1>7, <1>12, <2>2, <2>5
    <3> QED BY <2>1, <2>3, <2>4, <3>1
  <2>6. CASE y # r
    <3>1. row'[y] = row[y] /\ Latest(y)' = Latest(y)
      BY <1>7, <1>8, <2>6 DEF Latest
    <3> QED BY <2>1, <2>2, <2>3, <2>4, <3>1
  <2> QED BY <2>5, <2>6
<1>18. SiloCurrent(t)'
  <2>1. ASSUME NEW k \in (n + 1 + 1)..WN(t)
        PROVE  /\ accesses'[t][WriteSet(t)'[k]].tid = row'[WRow(t, k)'].tid
               /\ local'[t].cur_tid > row'[WRow(t, k)'].tid
    <3>1. k \in (SiloDone(t) + 1)..WN(t) /\ k \in 1..WN(t) /\ k # n + 1
      BY <1>3, <1>4, <1>11
    <3>2. /\ accesses[t][WriteSet(t)[k]].tid = row[WRow(t, k)].tid
          /\ local[t].cur_tid > row[WRow(t, k)].tid
      BY <1>0, <1>2, <3>1 DEF SiloCurrent
    <3>3. WRow(t, k) \in Row /\ WRow(t, k) # r
      BY <1>3, <1>4, <1>5, <3>1, WriteSetProps
    <3> QED BY <1>1, <1>7, <1>10, <3>2, <3>3
  <2>2. ASSUME NEW k \in 1..(n + 1)
        PROVE  Replaced(WRow(t, k), accesses[t][WriteSet(t)[k]].data[1], Attempt(t))'
    <3>1. k \in 1..WN(t)
      BY <1>3, <1>4
    <3>2. PICK y \in Row, x \in Ids : y = WRow(t, k) /\ x = accesses[t][WriteSet(t)[k]].data[1]
      BY <1>0, <1>5, <3>1, WriteSetProps, SiloTyped
    <3>3. y = WRow(t, k)' /\ x = accesses'[t][WriteSet(t)'[k]].data[1] /\ Attempt(t)' = id
      BY <1>1, <1>3, <1>10, <3>2 DEF Attempt
    <3>4. Replaced(y, x, id)'
      <4>1. CASE k \in 1..n
        <5>1. Replaced(y, x, id)
          BY <1>0, <1>2, <1>3, <1>11, <3>2, <4>1 DEF SiloCurrent
        <5> QED BY <1>15, <5>1
      <4>2. CASE k = n + 1
        <5>1. k \in (SiloDone(t) + 1)..WN(t)
          BY <1>3, <1>4, <1>11, <4>2
        <5>2. accesses[t][WriteSet(t)[k]].tid = row[y].tid /\ y = r
          BY <1>0, <1>2, <1>3, <3>2, <4>2, <5>1 DEF SiloCurrent
        <5>3. WriteSet(t)[k] \in 1..Len(accesses[t]) /\ accesses[t][WriteSet(t)[k]].row = y
          BY <1>5, <3>1, <3>2, WriteSetProps DEF WRow
        <5>4. x = Latest(r)
          BY <1>0, <3>2, <5>2, <5>3 DEF SiloAccess
        <5> QED BY <1>8, <5>2, <5>4
      <4> QED BY <1>3, <4>1, <4>2
    <3> QED BY <3>2, <3>3, <3>4
  <2>3. pc'[t] \notin {"lock", "reads"}
    BY <1>9
  <2> QED BY <1>10, <1>11, <2>1, <2>2, <2>3 DEF SiloCurrent
<1>19. SiloHeld(t)' = SiloHeld(t)
  <2>1. SiloHeld(t)' = WRows(t, n + 1, WN(t))
    BY <1>1, <1>3, <1>9, <1>10 DEF SiloHeld, SiloLocking, SiloInstalling
  <2> QED BY <1>4, <2>1
<1>20. SiloLocks'
  <2>1. SiloHeld(t)' \subseteq Row
    BY <1>19, SiloHeldRows DEF SiloBase, SiloThread
  <2>2. \A y \in Row : y \in SiloHeld(t) => row[y].lock
    BY DEF SiloBase, SiloLocks
  <2>3. \A y \in Row : row'[y].lock <=> (row[y].lock /\ y \notin SiloHeld(t)) \/ y \in SiloHeld(t)'
    BY <1>7, <1>19, <2>2
  <2> QED BY <1>9, <1>19, <2>1, <2>3, SiloLocksStep
<1>21. /\ \A y : ~SiloDirty(t, y)'
       /\ \A y : SiloDirty(t, y) <=> y = r
  BY <1>1, <1>3, <1>9 DEF SiloDirty
<1>22. \A u \in Thread : u # t => \A y : SiloDirty(u, y)' <=> SiloDirty(u, y)
  BY <1>9, SiloOwn DEF OnlyThread
<1>23. \A u \in Thread : u # t => ~SiloDirty(u, r)
  BY <1>4, SiloDirtyHeld
<1>24. SiloRows'
  <2>1. ASSUME NEW y \in Row, SiloClean(y)'
        PROVE  \A g \in 1..2 : row'[y].data[g] = Latest(y)'
    <3>1. CASE y = r
      <4>1. row[r].data[1] = id /\ row[r].data[2] = id
        BY <1>0, <1>1, <1>3, <1>21 DEF SiloRows
      <4>2. row'[r].data[1] = id /\ row'[r].data[2] = id
        BY <1>7, <4>1
      <4> QED BY <1>8, <3>1, <4>2
    <3>2. CASE y # r
      <4>1. SiloClean(y)
        BY <1>21, <1>22, <2>1, <3>2 DEF SiloClean
      <4>2. row'[y] = row[y] /\ Latest(y)' = Latest(y)
        BY <1>7, <1>8, <3>2 DEF Latest
      <4>3. \A g \in 1..2 : row[y].data[g] = Latest(y)
        BY <1>0, <4>1 DEF SiloRows
      <4> QED BY <4>2, <4>3
    <3> QED BY <3>1, <3>2
  <2>2. ASSUME NEW u \in Thread, NEW y \in Row, SiloDirty(u, y)'
        PROVE  row'[y].data[1] = Attempt(u)' /\ (pc'[u] = "word" => row'[y].data[2] = Attempt(u)')
    <3>1. u # t
      BY <1>21, <2>2
    <3>2. SiloDirty(u, y)
      BY <1>22, <2>2, <3>1
    <3>3. pc'[u] = pc[u] /\ Attempt(u)' = Attempt(u)
      BY <1>9, <3>1 DEF OnlyThread, Attempt
    <3> QED BY <1>0, <1>7, <3>2, <3>3 DEF SiloRows
  <2> QED BY <2>1, <2>2 DEF SiloRows
<1>25. SiloEffect(t)
  <2>1. \A y \in Row : row'[y].tid >= row[y].tid
    BY <1>3, <1>7, <1>12
  <2>2. \A y \in Row : row'[y].tid = row[y].tid => y # r
    BY <1>3, <1>7, <1>12
  <2>3. \A u \in Thread \ {t} : \A y \in SiloHeld(u) : row'[y].tid = row[y].tid
    <3> SUFFICES ASSUME NEW u \in Thread, u # t, NEW y \in SiloHeld(u) PROVE row'[y].tid = row[y].tid
      OBVIOUS
    <3>1. y \in Row /\ y # r
      BY <1>4, SiloHeldRows DEF SiloBase, SiloThread
    <3> QED BY <1>7, <3>1
  <2>4. \A y \in Row : \A m \in 1..Len(vers'[y]) : m \in 1..Len(vers[y]) \/ vers'[y][m] = Attempt(t)
    BY <1>3, <1>8
  <2>5. \A y \in Row : row'[y].tid = row[y].tid => vers'[y] = vers[y] /\ ~SiloDirty(t, y)
    BY <1>8, <1>21, <2>2
  <2> QED BY <1>8, <1>9, <2>1, <2>3, <2>4, <2>5 DEF SiloEffect
<1>26. HistoryKept'
  <2>1. \A y \in Row : vers'[y] # <<>>
    <3> SUFFICES ASSUME NEW y \in Row PROVE vers'[y] # <<>>
      OBVIOUS
    <3>1. vers[y] # <<>> /\ Len(vers[y]) \in Nat /\ vers[y] \in Seq(Ids)
      BY <1>0 DEF HistoryKept, FrameTypes
    <3>2. Len(vers[y]) # 0 /\ Len(vers[y]) <= Len(vers'[y]) /\ Len(vers'[y]) \in Nat
      BY <1>8, <3>1 DEF VersionsGrow
    <3>3. Len(vers'[y]) # 0
      BY <3>1, <3>2
    <3> QED BY <3>3
  <2>2. \A h \in hist : h \in [id : Ids, reads : SUBSET (Row \X Ids), writes : SUBSET Row]
    BY <1>0 DEF FrameTypes
  <2>3. \A h \in hist : \A y \in h.writes : y \in Row
    BY <2>2
  <2>4. \A h \in hist : \A y \in Row, x \in Ids : <<y, x>> \in h.reads => HasVersion(y, x)'
    BY <1>0, <1>14 DEF HistoryKept
  <2>5. ASSUME NEW h \in hist, NEW y \in h.writes
        PROVE  \E x \in Ids : <<y, x>> \in h.reads /\ Replaced(y, x, h.id)'
    <3>1. PICK x \in Ids : <<y, x>> \in h.reads /\ Replaced(y, x, h.id)
      BY <1>0 DEF HistoryKept
    <3>2. y \in Row
      BY <2>3
    <3>3. Replaced(y, x, h.id)'
      BY <1>15, <3>1, <3>2
    <3> QED BY <3>1, <3>3
  <2>6. \A h, k \in hist : h.id = k.id => h = k
    BY <1>0 DEF HistoryKept
  <2> QED BY <1>1, <2>1, <2>4, <2>5, <2>6 DEF HistoryKept
<1>27. IdsUsed'
  <2>1. \A u \in Thread, m \in Nat, y \in Row : HasVersion(y, <<u, m>>)' => m <= tries[u]
    <3> SUFFICES ASSUME NEW u \in Thread, NEW m \in Nat, NEW y \in Row, HasVersion(y, <<u, m>>)'
                 PROVE  m <= tries[u]
      OBVIOUS
    <3>1. HasVersion(y, <<u, m>>) \/ <<u, m>> = Attempt(t)
      BY <1>3, <1>8
    <3>2. CASE HasVersion(y, <<u, m>>)
      BY <1>0, <3>2 DEF IdsUsed
    <3>3. CASE <<u, m>> = Attempt(t)
      BY <3>3 DEF Attempt
    <3> QED BY <3>1, <3>2, <3>3
  <2>2. \A u \in Thread : pc'[u] # "idle" => pc[u] # "idle" /\ Attempt(u)' = Attempt(u)
    BY <1>1, <1>9 DEF OnlyThread, Attempt
  <2> QED BY <1>0, <1>1, <2>1, <2>2 DEF IdsUsed
<1>28. SiloThread(t)'
  BY <1>16, <1>17, <1>18 DEF SiloThread
<1> QED BY <1>9, <1>20, <1>24, <1>25, <1>26, <1>27, <1>28, SiloLoudStep

\* What a commit records.
Entry(t) ==
    [id |-> Attempt(t),
     reads |-> {<<accesses[t][i].row, accesses[t][i].data[1]>> : i \in 1..Len(accesses[t])},
     writes |-> {accesses[t][i].row : i \in Of(t, "WR")}]

Entries == [id : Ids, reads : SUBSET (Row \X Ids), writes : SUBSET Row]

\* A commit whose reads are versions and whose writes replaced what it read
\* keeps the history.
LEMMA CommitKeepsHistory ==
  ASSUME FrameTypes, HistoryKept, IdsUsed, NEW t \in Thread, OnlyThread(t),
         hist' = hist \cup {Entry(t)}, tries' = tries, vers' = vers,
         tries[t] > 0, pc[t] # "idle", pc'[t] = "idle",
         \A i \in 1..Len(accesses[t]) :
             /\ accesses[t][i].row \in Row /\ accesses[t][i].data[1] \in Ids
             /\ HasVersion(accesses[t][i].row, accesses[t][i].data[1]),
         \A i \in Of(t, "WR") : Replaced(accesses[t][i].row, accesses[t][i].data[1], Attempt(t))
  PROVE  HistoryKept' /\ IdsUsed' /\ hist' \subseteq Entries
<1>1. tries[t] \in Nat
  BY DEF FrameTypes
<1>2. PICK id \in Ids : id = Attempt(t) /\ id = <<t, tries[t]>>
  BY <1>1 DEF Attempt, Ids
<1> DEFINE reads == {<<accesses[t][i].row, accesses[t][i].data[1]>> : i \in 1..Len(accesses[t])}
           writes == {accesses[t][i].row : i \in Of(t, "WR")}
<1>3. \A i \in Of(t, "WR") : i \in 1..Len(accesses[t])
  BY DEF Of
<1>4. reads \in SUBSET (Row \X Ids) /\ writes \in SUBSET Row
  BY <1>3
<1>5. \A r \in Row, x \in Ids : <<r, x>> \in reads => HasVersion(r, x)
  <2> SUFFICES ASSUME NEW r \in Row, NEW x \in Ids, <<r, x>> \in reads PROVE HasVersion(r, x)
    OBVIOUS
  <2>1. PICK i \in 1..Len(accesses[t]) : <<r, x>> = <<accesses[t][i].row, accesses[t][i].data[1]>>
    OBVIOUS
  <2>2. r = accesses[t][i].row /\ x = accesses[t][i].data[1]
    BY <2>1
  <2> QED BY <2>2
<1>6. \A r \in writes : \E x \in Ids : <<r, x>> \in reads /\ Replaced(r, x, id)
  <2> SUFFICES ASSUME NEW i \in Of(t, "WR")
               PROVE  \E x \in Ids : <<accesses[t][i].row, x>> \in reads /\ Replaced(accesses[t][i].row, x, id)
    OBVIOUS
  <2>1. i \in 1..Len(accesses[t])
    BY <1>3
  <2>2. <<accesses[t][i].row, accesses[t][i].data[1]>> \in reads /\ accesses[t][i].data[1] \in Ids
    BY <2>1
  <2> QED BY <1>2, <2>2
<1> HIDE DEF reads, writes
<1>7. PICK e \in Entries : e = Entry(t) /\ e.id = id /\ e.reads = reads /\ e.writes = writes
  <2>1. [id |-> id, reads |-> reads, writes |-> writes] \in Entries
    BY <1>2, <1>4 DEF Entries
  <2>2. Entry(t) = [id |-> id, reads |-> reads, writes |-> writes]
    BY <1>2 DEF Entry, reads, writes
  <2> QED BY <2>1, <2>2
<1>8. hist' = hist \cup {e} /\ hist \subseteq Entries
  BY <1>7 DEF FrameTypes, Entries
<1>9. \A h \in hist : h.id # id
  BY <1>2 DEF IdsUsed
<1>10. HistoryKept'
  <2>1. \A r \in Row : vers'[r] # <<>>
    BY DEF HistoryKept
  <2>2. \A h \in hist' : \A r \in Row, x \in Ids : <<r, x>> \in h.reads => HasVersion(r, x)'
    BY <1>5, <1>7, <1>8 DEF HistoryKept, HasVersion
  <2>3. \A h \in hist' : \A r \in h.writes : \E x \in Ids : <<r, x>> \in h.reads /\ Replaced(r, x, h.id)
    BY <1>6, <1>7, <1>8 DEF HistoryKept
  <2>4. \A h \in hist' : \A r \in h.writes : \E x \in Ids : <<r, x>> \in h.reads /\ Replaced(r, x, h.id)'
    BY <2>3 DEF Replaced
  <2>5. \A h, k \in hist' : h.id = k.id => h = k
    BY <1>7, <1>8, <1>9 DEF HistoryKept
  <2> QED BY <2>1, <2>2, <2>4, <2>5 DEF HistoryKept
<1>11. IdsUsed'
  <2>1. \A u \in Thread, n \in Nat : id = <<u, n>> => n <= tries[u]
    BY <1>1, <1>2
  <2>2. id # Loaded
    BY <1>1, <1>2 DEF Loaded
  <2>3. \A u \in Thread : pc'[u] # "idle" => pc[u] # "idle" /\ Attempt(u)' = Attempt(u) /\ id # Attempt(u)
    BY <1>2 DEF OnlyThread, Attempt
  <2>4. \A h \in hist' : \A u \in Thread, n \in Nat : h.id = <<u, n>> => n <= tries[u]
    BY <1>7, <1>8, <2>1 DEF IdsUsed
  <2>5. \A h \in hist' : h.id # Loaded
    BY <1>7, <1>8, <2>2 DEF IdsUsed
  <2>6. \A h \in hist' : \A u \in Thread : pc'[u] # "idle" => h.id # Attempt(u)'
    BY <1>7, <1>8, <2>3 DEF IdsUsed
  <2>7. \A u \in Thread, n \in Nat, r \in Row : HasVersion(r, <<u, n>>)' => n <= tries'[u]
    BY DEF IdsUsed, HasVersion
  <2> QED BY <2>4, <2>5, <2>6, <2>7 DEF IdsUsed
<1> QED BY <1>8, <1>10, <1>11

\* The end of an attempt.
LEMMA SiloFinished ==
  ASSUME SiloTypes, NEW t \in Thread, NEW w \in SiloLocalType,
         pc' = [pc EXCEPT ![t] = "idle"], local' = [local EXCEPT ![t] = w],
         accesses' = [accesses EXCEPT ![t] = <<>>], query' = [query EXCEPT ![t] = <<>>],
         row' \in [Row -> SiloRowType], tries' = tries, vers' = vers, hist' \subseteq Entries
  PROVE  SiloTypes' /\ OnlyThread(t) /\ pc'[t] = "idle" /\ SiloHeld(t)' = {} /\ SiloThread(t)'
<1>1. pc \in [Thread -> SiloPcs] /\ local \in [Thread -> SiloLocalType]
      /\ accesses \in [Thread -> Seq(SiloAccessType)] /\ query \in [Thread -> Seq(Requests)]
  BY DEF SiloTypes, FrameTypes, SiloPcs, SiloLocalType, SiloAccessType
<1>2. /\ pc' \in [Thread -> SiloPcs] /\ local' \in [Thread -> SiloLocalType]
      /\ accesses' \in [Thread -> Seq(SiloAccessType)] /\ query' \in [Thread -> Seq(Requests)]
  <2>1. <<>> \in Seq(SiloAccessType) /\ <<>> \in Seq(Requests) /\ "idle" \in SiloPcs
    BY DEF SiloPcs
  <2> QED BY <1>1, <2>1
<1>3. FrameTypes'
  BY <1>2 DEF SiloTypes, FrameTypes, Entries
<1>4. SiloTypes'
  BY <1>2, <1>3 DEF SiloTypes, SiloPcs, SiloLocalType, SiloRowType, SiloAccessType
<1>5. OnlyThread(t) /\ pc'[t] = "idle" /\ accesses'[t] = <<>> /\ query'[t] = <<>>
  BY <1>1 DEF OnlyThread
<1>6. Follows(t)' /\ SiloAccess(t)'
  <2>1. Len(accesses'[t]) = 0 /\ Len(query'[t]) = 0
    BY <1>5
  <2>2. 1..Len(accesses'[t]) = {} /\ 1..Len(query'[t]) = {} /\ Len(accesses'[t]) <= Len(query'[t])
    BY <2>1
  <2> QED BY <1>5, <2>2 DEF Follows, SiloAccess, RowsDiffer
<1>7. SiloLoop(t)' /\ SiloCopy(t)' /\ SiloCurrent(t)' /\ SiloFresh(t)'
  BY <1>5 DEF SiloLoop, SiloCopy, SiloCurrent, SiloFresh, SiloCopying, SiloLocking, SiloInstalling
<1>8. SiloHeld(t)' = {}
  BY <1>5 DEF SiloHeld, SiloLocking, SiloInstalling
<1> QED BY <1>4, <1>5, <1>6, <1>7, <1>8 DEF SiloThread

\* What cleanup leaves in the thread.
LEMMA SiloReset ==
  ASSUME SiloTypes, NEW t \in Thread
  PROVE  [SI!InitialLocal EXCEPT !.cur_tid = local[t].cur_tid] \in SiloLocalType
<1>1. local[t].cur_tid \in Nat
  BY SiloTyped
<1>2. [h \in SI!Half |-> SI!Loaded] \in Copies
  BY SiloNames DEF Copies, Ids
<1>3. SI!InitialLocal \in SiloLocalType
  BY <1>2 DEF SI!InitialLocal, SiloLocalType
<1> QED BY <1>1, <1>3 DEF SiloLocalType

LEMMA SiloCommit ==
  ASSUME SiloBase, NEW t \in Thread, SI!Commit(t)
  PROVE  SiloBase' /\ hist' = hist \cup {Entry(t)}
<1>0. /\ SiloTypes /\ SiloLoop(t) /\ Follows(t) /\ SiloCurrent(t) /\ SiloAccess(t)
      /\ row \in [Row -> SiloRowType] /\ FrameTypes /\ HistoryKept /\ IdsUsed
      /\ hist \subseteq Entries
  BY DEF SiloBase, SiloThread, SiloTypes, SiloRowType, FrameTypes, Entries
<1>1. RowsOK(t)
  BY <1>0, SiloRowsOK
<1> DEFINE w == [SI!InitialLocal EXCEPT !.cur_tid = local[t].cur_tid]
<1>2. /\ pc[t] = "install1" /\ local[t].i = WN(t) /\ pc' = [pc EXCEPT ![t] = "idle"]
      /\ accesses' = [accesses EXCEPT ![t] = <<>>] /\ query' = [query EXCEPT ![t] = <<>>]
      /\ local' = [local EXCEPT ![t] = w]
      /\ row' = row /\ tries' = tries /\ vers' = vers
  <2>1. Len(WriteSet(t)) = WN(t)
    BY <1>1, WriteSetProps
  <2> QED BY <2>1, SiloNames DEF SI!Commit, SI!Committed, SI!Finished, SI!Goto, SI!Set
<1>3. hist' = hist \cup {Entry(t)}
  BY SiloNames DEF SI!Commit, SI!Committed, Entry
<1>4. w \in SiloLocalType
  BY <1>0, SiloReset
<1> HIDE DEF w
<1>5. tries[t] > 0 /\ pc[t] # "idle"
  BY <1>0, <1>2 DEF Follows
<1>6. pc'[t] = "idle" /\ OnlyThread(t)
  BY <1>0, <1>2 DEF SiloTypes, FrameTypes, OnlyThread
<1>7. \A i \in 1..Len(accesses[t]) :
         /\ accesses[t][i].row \in Row /\ accesses[t][i].data[1] \in Ids
         /\ HasVersion(accesses[t][i].row, accesses[t][i].data[1])
  BY <1>0, SiloTyped DEF SiloAccess
<1>8. WN(t) \in Nat /\ SiloDone(t) = WN(t)
  BY <1>1, <1>2, WriteSetProps DEF SiloDone, SiloInstalling
<1>9. ASSUME NEW i \in Of(t, "WR")
      PROVE  Replaced(accesses[t][i].row, accesses[t][i].data[1], Attempt(t))
  <2>1. PICK a \in 1..WN(t) : WriteSet(t)[a] = i
    BY <1>1, WriteSetProps
  <2>2. Replaced(WRow(t, a), accesses[t][WriteSet(t)[a]].data[1], Attempt(t))
    BY <1>0, <1>2, <1>8 DEF SiloCurrent, SiloInstalling
  <2> QED BY <2>1, <2>2 DEF WRow
<1>10. HistoryKept' /\ IdsUsed' /\ hist' \subseteq Entries
  BY <1>0, <1>2, <1>3, <1>5, <1>6, <1>7, <1>9, CommitKeepsHistory
<1>11. SiloTypes' /\ SiloHeld(t)' = {} /\ SiloThread(t)'
  BY <1>0, <1>2, <1>4, <1>10, SiloFinished
<1>12. SiloQuiet
  BY <1>2 DEF SiloQuiet
<1>13. SiloHeld(t) = {}
  <2>1. (WN(t) + 1)..WN(t) = {}
    BY <1>8
  <2> QED BY <1>2, <2>1 DEF SiloHeld, SiloLocking, SiloInstalling, WRows
<1> QED BY <1>2, <1>3, <1>6, <1>10, <1>11, <1>12, <1>13, SiloQuietStep

LEMMA SiloAbort ==
  ASSUME SiloBase, NEW t \in Thread, SI!Abort(t)
  PROVE  SiloBase'
<1>0. SiloTypes /\ FrameTypes /\ hist \subseteq Entries
  BY DEF SiloBase, SiloTypes, FrameTypes, Entries
<1> DEFINE w == [SI!InitialLocal EXCEPT !.cur_tid = local[t].cur_tid]
<1>1. /\ pc[t] = "abort" /\ row' = SiloUnlocked(t) /\ pc' = [pc EXCEPT ![t] = "idle"]
      /\ accesses' = [accesses EXCEPT ![t] = <<>>] /\ query' = [query EXCEPT ![t] = <<>>]
      /\ local' = [local EXCEPT ![t] = w]
      /\ tries' = tries /\ vers' = vers /\ hist' = hist
  BY SiloNames DEF SI!Abort, SI!Aborted, SI!Finished, SI!Goto, SI!Set, SiloUnlocked
<1>2. w \in SiloLocalType
  BY <1>0, SiloReset
<1> HIDE DEF w
<1>3. /\ row' \in [Row -> SiloRowType]
      /\ \A r \in Row : row'[r].tid = row[r].tid /\ row'[r].data = row[r].data
      /\ \A r \in Row : row'[r].lock <=> row[r].lock /\ r \notin SiloHeld(t)
  BY <1>0, <1>1, SiloUnlock DEF SiloLocking
<1>4. SiloTypes' /\ OnlyThread(t) /\ pc'[t] = "idle" /\ SiloHeld(t)' = {} /\ SiloThread(t)'
  BY <1>0, <1>1, <1>2, <1>3, SiloFinished
<1>5. SiloQuiet
  BY <1>1, <1>3 DEF SiloQuiet
<1>6. HistoryKept' /\ IdsUsed'
  BY <1>1, <1>4, SiloSameHistory
<1> QED BY <1>1, <1>3, <1>4, <1>5, <1>6, SiloQuietStep

-----------------------------------------------------------------------------
(* Silo: the first part of the invariant holds in every reachable state.   *)

LEMMA SiloStart ==
  ASSUME SI!Init
  PROVE  SiloBase /\ SiloOrder([x \in Ids |-> 0], 1)
<1>1. /\ row = [r \in Row |-> [tid |-> 0, lock |-> FALSE, data |-> [h \in 1..2 |-> Loaded]]]
      /\ pc = [t \in Thread |-> "idle"] /\ tries = [t \in Thread |-> 0]
      /\ query = [t \in Thread |-> <<>>] /\ accesses = [t \in Thread |-> <<>>]
      /\ local = [t \in Thread |-> [v |-> 0, copy |-> [h \in 1..2 |-> Loaded], num_locks |-> 0,
                                    i |-> 0, cur_tid |-> 0]]
      /\ hist = {} /\ vers = [r \in Row |-> <<Loaded>>]
  BY SiloNames DEF SI!Init, SI!FrameInit, SI!InitialRow, SI!InitialLocal
<1>2. Loaded \in Ids /\ [h \in 1..2 |-> Loaded] \in Copies
  BY DEF Ids, Copies
<1>3. SiloTypes
  <2>1. /\ <<>> \in Seq(Requests) /\ <<Loaded>> \in Seq(Ids)
        /\ <<>> \in Seq([row : Row, type : {"RD", "WR"}, data : Copies, tid : Nat])
    BY <1>2
  <2>2. FrameTypes
    BY <1>1, <2>1 DEF FrameTypes
  <2> QED BY <1>1, <1>2, <2>1, <2>2 DEF SiloTypes
<1>4. \A r \in Row : vers[r] = <<Loaded>> /\ Len(vers[r]) = 1 /\ vers[r][1] = Loaded
  BY <1>1
<1>5. \A r \in Row : Latest(r) = Loaded /\ \A x : HasVersion(r, x) => x = Loaded
  BY <1>4 DEF Latest, HasVersion
<1>6. \A t \in Thread :
         /\ pc[t] = "idle" /\ accesses[t] = <<>> /\ query[t] = <<>> /\ tries[t] = 0
         /\ Len(accesses[t]) = 0 /\ Len(query[t]) = 0
  BY <1>1
<1>7. HistoryKept
  <2>1. \A r \in Row : vers[r] # <<>>
    BY <1>4
  <2> QED BY <1>1, <2>1 DEF HistoryKept
<1>8. IdsUsed
  <2>1. \A t \in Thread, n \in Nat, r \in Row : HasVersion(r, <<t, n>>) => n <= tries[t]
    <3> SUFFICES ASSUME NEW t \in Thread, NEW n \in Nat, NEW r \in Row, HasVersion(r, <<t, n>>)
                 PROVE  n <= tries[t]
      OBVIOUS
    <3>1. <<t, n>> = Loaded
      BY <1>5
    <3>2. n = 0
      BY <3>1 DEF Loaded
    <3> QED BY <1>6, <3>2
  <2> QED BY <1>1, <2>1 DEF IdsUsed
<1>9. \A t \in Thread : SiloHeld(t) = {} /\ ~SiloDecided(t) /\ \A r : ~SiloDirty(t, r)
  BY <1>6 DEF SiloHeld, SiloDecided, SiloDirty, SiloLocking, SiloInstalling
<1>10. SiloLocks
  <2>1. \A r \in Row : ~row[r].lock
    BY <1>1
  <2> QED BY <1>9, <2>1 DEF SiloLocks
<1>11. SiloRows
  <2>1. \A r \in Row : \A h \in 1..2 : row[r].data[h] = Loaded
    BY <1>1
  <2> QED BY <1>5, <1>9, <2>1 DEF SiloRows
<1>12. ASSUME NEW t \in Thread PROVE SiloThread(t)
  <2>1. 1..Len(accesses[t]) = {} /\ 1..Len(query[t]) = {} /\ Len(accesses[t]) <= Len(query[t])
    BY <1>6
  <2>2. Follows(t) /\ SiloAccess(t)
    BY <1>6, <2>1 DEF Follows, SiloAccess, RowsDiffer
  <2>3. SiloLoop(t) /\ SiloCopy(t) /\ SiloCurrent(t) /\ SiloFresh(t)
    BY <1>6 DEF SiloLoop, SiloCopy, SiloCurrent, SiloFresh, SiloCopying, SiloLocking, SiloInstalling
  <2> QED BY <2>2, <2>3 DEF SiloThread
<1>13. SiloOrder([x \in Ids |-> 0], 1)
  <2> DEFINE rank == [x \in Ids |-> 0]
  <2>1. rank[Loaded] = 0
    BY <1>2
  <2>2. \A t \in Thread : \A r, x : ~SiloValidated(t, r, x)
    BY <1>9 DEF SiloValidated
  <2>3. \A r \in Row : \A m \in 1..Len(vers[r]) : m = 1 /\ vers[r][m] = Loaded
    BY <1>4
  <2>4. \A r \in Row : \A m \in 1..Len(vers[r]) : rank[vers[r][m]] < 1
    BY <2>1, <2>3
  <2>5. \A r \in Row : \A m, j \in 1..Len(vers[r]) : ~(m < j)
    BY <2>3
  <2> HIDE DEF rank
  <2>6. SiloOrder(rank, 1)
    BY <1>1, <1>9, <2>2, <2>4, <2>5 DEF SiloOrder
  <2> QED BY <2>6 DEF rank
<1> QED BY <1>3, <1>7, <1>8, <1>10, <1>11, <1>12, <1>13 DEF SiloBase

LEMMA SiloBaseStep ==
  ASSUME SiloBase, NEW t \in Thread, SI!Step(t)
  PROVE  SiloBase'
<1>1. ASSUME NEW h \in SI!Half, SI!CopyHalf(t, h) \/ SI!InstallHalf(t, h) PROVE SiloBase'
  <2>1. h \in 1..2
    BY SiloNames
  <2> QED BY <1>1, <2>1, SiloCopyHalf, SiloInstallHalf
<1> QED BY <1>1, SiloBegin, SiloReadWord, SiloCheckWord, SiloValidate, SiloTryLock, SiloLockBusy,
           SiloBackoff, SiloAllLocked, SiloValidateRead, SiloValidateWrites, SiloInstallWord,
           SiloRelease, SiloCommit, SiloAbort DEF SI!Step

-----------------------------------------------------------------------------
(* Silo: the serial order.                                                 *)

\* A step is one of a single thread.
LEMMA SiloOnly ==
  ASSUME SiloTypes, NEW t \in Thread, SI!Step(t)
  PROVE  OnlyThread(t)
<1> USE DEF SiloTypes, FrameTypes, OnlyThread, SI!Goto, SI!Set
<1>1. CASE SI!Begin(t)
  BY <1>1 DEF SI!Begin, SI!Take
<1>2. CASE SI!ReadWord(t)
  BY <1>2 DEF SI!ReadWord
<1>3. CASE \E h \in SI!Half : SI!CopyHalf(t, h)
  BY <1>3 DEF SI!CopyHalf
<1>4. CASE SI!CheckWord(t)
  BY <1>4 DEF SI!CheckWord, SI!Granted
<1>5. CASE SI!Validate(t)
  BY <1>5 DEF SI!Validate
<1>6. CASE SI!TryLock(t)
  BY <1>6 DEF SI!TryLock
<1>7. CASE SI!LockBusy(t)
  BY <1>7 DEF SI!LockBusy
<1>8. CASE SI!Backoff(t)
  BY <1>8 DEF SI!Backoff
<1>9. CASE SI!AllLocked(t)
  BY <1>9 DEF SI!AllLocked
<1>10. CASE SI!ValidateRead(t)
  BY <1>10 DEF SI!ValidateRead
<1>11. CASE SI!ValidateWrites(t)
  BY <1>11 DEF SI!ValidateWrites
<1>12. CASE \E h \in SI!Half : SI!InstallHalf(t, h)
  BY <1>12 DEF SI!InstallHalf
<1>13. CASE SI!InstallWord(t)
  BY <1>13 DEF SI!InstallWord
<1>14. CASE SI!ReleaseInstalled(t)
  BY <1>14 DEF SI!ReleaseInstalled
<1>15. CASE SI!Commit(t)
  BY <1>15 DEF SI!Commit, SI!Committed, SI!Finished
<1>16. CASE SI!Abort(t)
  BY <1>16 DEF SI!Abort, SI!Aborted, SI!Finished
<1> QED BY <1>1, <1>2, <1>3, <1>4, <1>5, <1>6, <1>7, <1>8, <1>9, <1>10, <1>11, <1>12, <1>13,
           <1>14, <1>15, <1>16 DEF SI!Step

\* What a thread leaves of its part in the order.
SiloKeeps(u) ==
    SiloDecided(u)' =>
        /\ SiloDecided(u) /\ Attempt(u)' = Attempt(u) /\ accesses'[u] = accesses[u]
        /\ SiloPending(u)' \subseteq SiloPending(u)

LEMMA SiloOthersKeep ==
  ASSUME NEW t \in Thread, OnlyThread(t), NEW u \in Thread, u # t
  PROVE  /\ SiloKeeps(u) /\ SiloPending(u)' = SiloPending(u) /\ Attempt(u)' = Attempt(u)
         /\ SiloDecided(u)' <=> SiloDecided(u)
         /\ \A r, x : SiloValidated(u, r, x)' <=> SiloValidated(u, r, x)
BY SiloOwn DEF OnlyThread, SiloKeeps

\* The rows a decided thread has still to install are locked by it.
LEMMA SiloPendingHeld ==
  ASSUME SiloBase, NEW u \in Thread, SiloDecided(u)
  PROVE  SiloPending(u) \subseteq SiloHeld(u)
<1>1. SiloLoop(u) /\ RowsOK(u) /\ local[u].i \in Nat
  BY SiloRowsOK, SiloTyped DEF SiloBase, SiloThread
<1>2. WN(u) \in Nat
  BY <1>1, WriteSetProps
<1>3. CASE pc[u] = "reads"
  <2>1. SiloDone(u) + 1 = 1 /\ local[u].num_locks = WN(u)
    BY <1>1, <1>3 DEF SiloDone, SiloInstalling, SiloLoop
  <2> QED BY <1>3, <2>1 DEF SiloPending, SiloHeld, SiloLocking
<1>4. CASE pc[u] \in SiloInstalling
  <2>1. SiloDone(u) \in Nat /\ local[u].i <= SiloDone(u)
    BY <1>1, <1>4 DEF SiloDone
  <2>2. \A k \in (SiloDone(u) + 1)..WN(u) : k \in (local[u].i + 1)..WN(u)
    BY <1>1, <1>2, <2>1
  <2>3. SiloHeld(u) = WRows(u, local[u].i + 1, WN(u))
    BY <1>4 DEF SiloHeld, SiloLocking, SiloInstalling
  <2> QED BY <2>2, <2>3 DEF SiloPending, WRows
<1> QED BY <1>3, <1>4 DEF SiloDecided

\* The version of a row that is read stays where it is.
LEMMA ReadBeforeKept ==
  ASSUME NEW rank, NEW id, NEW r \in Row, NEW x, ReadBefore(rank, id, r, x),
         vers' = vers, \A u \in Thread : SiloKeeps(u)
  PROVE  ReadBefore(rank, id, r, x)'
BY DEF ReadBefore, SiloKeeps

\* A step that installs nothing and decides nothing keeps the order.
LEMMA SiloOrderKept ==
  ASSUME SiloBase, NEW t \in Thread, OnlyThread(t), vers' = vers, hist' = hist, SiloKeeps(t),
         \A r \in Row, x \in Ids : SiloValidated(t, r, x)' => SiloValidated(t, r, x),
         NEW rank \in [Ids -> Nat], NEW n \in Nat, SiloOrder(rank, n)
  PROVE  SiloOrder(rank, n)'
<1>1. \A u \in Thread : SiloKeeps(u)
  BY SiloOthersKeep
<1>2. \A u \in Thread, r \in Row, x \in Ids : SiloValidated(u, r, x)' => SiloValidated(u, r, x)
  BY SiloOthersKeep
<1>3. \A r \in Row, x \in Ids : \A id : ReadBefore(rank, id, r, x) => ReadBefore(rank, id, r, x)'
  BY <1>1, ReadBeforeKept
<1>4. \A h \in hist' : \A r \in Row, x \in Ids : <<r, x>> \in h.reads => ReadBefore(rank, h.id, r, x)'
  BY <1>3 DEF SiloOrder
<1>5. ASSUME NEW u \in Thread, NEW r \in Row, NEW x \in Ids, SiloValidated(u, r, x)'
      PROVE  ReadBefore(rank, Attempt(u), r, x)'
  <2>1. SiloDecided(u)'
    BY <1>5 DEF SiloValidated
  <2>2. PICK id : id = Attempt(u) /\ id = Attempt(u)'
    BY <1>1, <2>1 DEF SiloKeeps
  <2>3. ReadBefore(rank, id, r, x)
    BY <1>2, <1>5, <2>2 DEF SiloOrder
  <2>4. ReadBefore(rank, id, r, x)'
    BY <1>3, <2>3
  <2> QED BY <2>2, <2>4 DEF ReadBefore
<1>6. /\ \A r \in Row : \A m \in 1..Len(vers'[r]) : rank[vers'[r][m]] < n
      /\ \A h \in hist' : rank[h.id] < n
      /\ \A r \in Row : \A m, j \in 1..Len(vers'[r]) : m < j => rank[vers'[r][m]] < rank[vers'[r][j]]
  BY DEF SiloOrder
<1>7. \A u \in Thread : SiloDecided(u)' => rank[Attempt(u)'] < n
  BY <1>1 DEF SiloOrder, SiloKeeps
<1>8. \A u \in Thread, r \in Row : SiloDecided(u)' /\ r \in SiloPending(u)' =>
         \A m \in 1..Len(vers'[r]) : rank[vers'[r][m]] < rank[Attempt(u)']
  BY <1>1 DEF SiloOrder, SiloKeeps
<1>9. \A u \in Thread : SiloDecided(u)' =>
         \A i \in 1..Len(accesses'[u]) : rank[accesses'[u][i].data[1]] < rank[Attempt(u)']
  BY <1>1 DEF SiloOrder, SiloKeeps
<1> QED BY <1>4, <1>5, <1>6, <1>7, <1>8, <1>9 DEF SiloOrder

\* The thread's own part when it has not decided.
LEMMA SiloUndecided ==
  ASSUME NEW t \in Thread, ~SiloDecided(t)'
  PROVE  SiloKeeps(t) /\ \A r, x : ~SiloValidated(t, r, x)'
BY DEF SiloKeeps, SiloValidated

\* The steps up to the locking, and the abort.
LEMMA SiloOrderBefore ==
  ASSUME SiloBase, NEW t \in Thread,
         \/ SI!Begin(t) \/ SI!ReadWord(t) \/ (\E h \in SI!Half : SI!CopyHalf(t, h)) \/ SI!CheckWord(t)
         \/ SI!Validate(t) \/ SI!TryLock(t) \/ SI!LockBusy(t) \/ SI!Backoff(t) \/ SI!Abort(t),
         NEW rank \in [Ids -> Nat], NEW n \in Nat, SiloOrder(rank, n)
  PROVE  SiloOrder(rank, n)'
<1>1. OnlyThread(t)
  BY SiloOnly DEF SI!Step, SiloBase
<1>2. pc \in [Thread -> SiloPcs]
  BY DEF SiloBase, SiloTypes, SiloPcs
<1>3. ASSUME NEW l, pc' = [pc EXCEPT ![t] = l], l \in {"idle", "run", "copy1", "copy2", "check", "lock", "abort", "backoff"}
      PROVE  ~SiloDecided(t)'
  BY <1>2, <1>3 DEF SiloDecided, SiloInstalling
<1>4. ~SiloDecided(t)' /\ vers' = vers /\ hist' = hist
  <2> USE DEF SI!Goto
  <2>1. CASE SI!Begin(t)
    BY <1>3, <2>1 DEF SI!Begin, SI!Take
  <2>2. CASE SI!ReadWord(t)
    BY <1>3, <2>2 DEF SI!ReadWord
  <2>3. ASSUME NEW h \in SI!Half, SI!CopyHalf(t, h) PROVE ~SiloDecided(t)' /\ vers' = vers /\ hist' = hist
    <3>1. h \in 1..2
      BY SiloNames
    <3>2. <<"copy2", "check">>[h] \in {"copy2", "check"}
      BY <3>1
    <3> QED BY <1>3, <2>3, <3>2 DEF SI!CopyHalf
  <2>4. CASE SI!CheckWord(t)
    BY <1>3, <2>4 DEF SI!CheckWord
  <2>5. CASE SI!Validate(t)
    BY <1>3, <2>5 DEF SI!Validate
  <2>6. CASE SI!TryLock(t)
    <3>1. \E l \in {"lock", "abort"} : pc' = [pc EXCEPT ![t] = l]
      BY <2>6 DEF SI!TryLock
    <3> QED BY <1>3, <2>6, <3>1 DEF SI!TryLock
  <2>7. CASE SI!LockBusy(t)
    BY <1>3, <2>7 DEF SI!LockBusy
  <2>8. CASE SI!Backoff(t)
    BY <1>3, <2>8 DEF SI!Backoff
  <2>9. CASE SI!Abort(t)
    BY <1>3, <2>9 DEF SI!Abort, SI!Aborted, SI!Finished
  <2> QED BY <2>1, <2>2, <2>3, <2>4, <2>5, <2>6, <2>7, <2>8, <2>9
<1>5. SiloKeeps(t) /\ \A r, x : ~SiloValidated(t, r, x)'
  BY <1>4, SiloUndecided
<1> QED BY <1>1, <1>4, <1>5, SiloOrderKept

\* The steps that neither validate a read nor store a number.
LEMMA SiloOrderInstalls ==
  ASSUME SiloBase, NEW t \in Thread,
         \/ SI!ValidateWrites(t) \/ (\E h \in SI!Half : SI!InstallHalf(t, h)) \/ SI!ReleaseInstalled(t),
         NEW rank \in [Ids -> Nat], NEW n \in Nat, SiloOrder(rank, n)
  PROVE  SiloOrder(rank, n)'
<1>0. /\ SiloTypes /\ pc \in [Thread -> SiloPcs] /\ local \in [Thread -> SiloLocalType] /\ RowsOK(t)
      /\ local[t] \in SiloLocalType /\ local[t].i \in Nat
  BY SiloRowsOK, SiloTyped DEF SiloBase, SiloTypes, SiloPcs, SiloLocalType, SiloThread
<1>1. OnlyThread(t)
  BY SiloOnly DEF SI!Step, SiloBase
<1>2. /\ vers' = vers /\ hist' = hist /\ tries' = tries /\ accesses' = accesses
      /\ pc[t] \in {"reads"} \cup SiloInstalling
      /\ \/ pc'[t] = "abort"
         \/ /\ pc'[t] \in SiloInstalling
            /\ SiloDone(t)' = SiloDone(t)
            /\ pc[t] = "reads" => local[t].i = RN(t)
  <2>1. CASE SI!ValidateWrites(t)
    <3>1. local[t].i = RN(t)
      BY <1>0, <2>1, ReadSetProps, SiloNames DEF SI!ValidateWrites
    <3>2. pc'[t] = "abort" \/ (pc'[t] = "install1" /\ local'[t] = [local[t] EXCEPT !.cur_tid = SI!NextTid(t), !.i = 0])
      BY <1>0, <2>1 DEF SI!ValidateWrites, SI!Goto, SI!Set
    <3>3. pc'[t] = "abort" \/ (pc'[t] = "install1" /\ local'[t].i = 0)
      BY <1>0, <3>2 DEF SiloLocalType
    <3>4. pc[t] = "reads" /\ vers' = vers /\ hist' = hist /\ tries' = tries /\ accesses' = accesses
      BY <2>1 DEF SI!ValidateWrites
    <3> QED BY <3>1, <3>3, <3>4 DEF SiloInstalling, SiloDone
  <2>2. ASSUME NEW h \in SI!Half, SI!InstallHalf(t, h)
        PROVE  /\ vers' = vers /\ hist' = hist /\ tries' = tries /\ accesses' = accesses
               /\ pc[t] \in SiloInstalling /\ pc'[t] \in SiloInstalling
               /\ SiloDone(t)' = SiloDone(t)
    <3>1. h \in 1..2
      BY SiloNames
    <3>2. /\ <<"install1", "install2">>[h] \in {"install1", "install2"}
          /\ <<"install2", "word">>[h] \in {"install2", "word"}
      BY <3>1
    <3>3. pc[t] \in {"install1", "install2"} /\ pc'[t] \in {"install2", "word"} /\ local' = local
      BY <1>0, <2>2, <3>2 DEF SI!InstallHalf, SI!Goto
    <3> QED BY <2>2, <3>3 DEF SI!InstallHalf, SiloInstalling, SiloDone
  <2>3. CASE SI!ReleaseInstalled(t)
    <3>1. /\ pc[t] = "release" /\ pc'[t] = "install1"
          /\ local'[t] = [local[t] EXCEPT !.i = local[t].i + 1]
          /\ vers' = vers /\ hist' = hist /\ tries' = tries /\ accesses' = accesses
      BY <1>0, <2>3 DEF SI!ReleaseInstalled, SI!Goto, SI!Set
    <3>2. local'[t].i = local[t].i + 1
      BY <1>0, <3>1 DEF SiloLocalType
    <3> QED BY <3>1, <3>2 DEF SiloInstalling, SiloDone
  <2> QED BY <2>1, <2>2, <2>3 DEF SiloInstalling
<1>3. CASE pc'[t] = "abort"
  <2>1. ~SiloDecided(t)'
    BY <1>3 DEF SiloDecided, SiloInstalling
  <2> QED BY <1>1, <1>2, <2>1, SiloUndecided, SiloOrderKept
<1>4. CASE pc'[t] \in SiloInstalling /\ SiloDone(t)' = SiloDone(t) /\ (pc[t] = "reads" => local[t].i = RN(t))
  <2>1. /\ WN(t)' = WN(t) /\ RN(t)' = RN(t) /\ ReadSet(t)' = ReadSet(t)
        /\ \A a, b : WRows(t, a, b)' = WRows(t, a, b)
    BY <1>2, SetsKept
  <2>2. SiloKeeps(t)
    BY <1>2, <1>4, <2>1 DEF SiloKeeps, SiloDecided, SiloPending, Attempt
  <2>3. ASSUME NEW r \in Row, NEW x \in Ids, SiloValidated(t, r, x)' PROVE SiloValidated(t, r, x)
    <3>1. RN(t) \in Nat
      BY <1>0, ReadSetProps
    <3>2. PICK k \in 1..RN(t) : accesses[t][ReadSet(t)[k]].row = r /\ accesses[t][ReadSet(t)[k]].data[1] = x
      BY <1>2, <2>1, <2>3 DEF SiloValidated
    <3>3. pc[t] = "reads" => k <= local[t].i
      BY <1>4, <3>1
    <3> QED BY <1>2, <3>2, <3>3 DEF SiloValidated, SiloDecided
  <2> QED BY <1>1, <1>2, <2>2, <2>3, SiloOrderKept
<1> QED BY <1>2, <1>3, <1>4

\* A version is at one place of its row's versions.
LEMMA SiloPlaces ==
  ASSUME SiloTypes, NEW rank \in [Ids -> Nat], NEW n \in Nat, SiloOrder(rank, n), NEW r \in Row,
         NEW m \in 1..Len(vers[r]), NEW j \in 1..Len(vers[r]), vers[r][m] = vers[r][j]
  PROVE  m = j
<1>1. vers[r] \in Seq(Ids) /\ Len(vers[r]) \in Nat /\ vers[r][m] \in Ids
  BY DEF SiloTypes, FrameTypes
<1>2. rank[vers[r][m]] \in Nat /\ rank[vers[r][j]] = rank[vers[r][m]]
  BY <1>1
<1>3. ~(rank[vers[r][m]] < rank[vers[r][j]]) /\ ~(rank[vers[r][j]] < rank[vers[r][m]])
  BY <1>2
<1>4. ~(m < j) /\ ~(j < m)
  BY <1>3 DEF SiloOrder
<1> QED BY <1>1, <1>4

\* A read is validated: its row is not locked, so nobody is about to replace it,
\* and nobody has.
LEMMA SiloOrderRead ==
  ASSUME SiloBase, NEW t \in Thread, SI!ValidateRead(t),
         NEW rank \in [Ids -> Nat], NEW n \in Nat, SiloOrder(rank, n)
  PROVE  SiloOrder(rank, n)'
<1>0. /\ SiloTypes /\ pc \in [Thread -> SiloPcs] /\ local \in [Thread -> SiloLocalType] /\ RowsOK(t)
      /\ local[t] \in SiloLocalType /\ SiloAccess(t)
  BY SiloRowsOK, SiloTyped DEF SiloBase, SiloTypes, SiloPcs, SiloLocalType, SiloThread
<1>1. OnlyThread(t)
  BY SiloOnly DEF SI!Step, SiloBase
<1>2. PICK l \in Nat : l = local[t].i
  BY <1>0 DEF SiloLocalType
<1>3. /\ pc[t] = "reads" /\ l < RN(t) /\ RN(t) \in Nat
      /\ local'[t].i = l + 1
      /\ row' = row /\ accesses' = accesses /\ tries' = tries /\ vers' = vers /\ hist' = hist
  BY <1>0, <1>2, SiloNames, ReadSetProps DEF SI!ValidateRead, SI!Set, SiloLocalType
<1>4. l + 1 \in 1..RN(t)
  BY <1>2, <1>3
<1>5. PICK i \in 1..Len(accesses[t]) : i = ReadSet(t)[l + 1]
  BY <1>0, <1>4, ReadSetProps
<1>6. PICK y \in Row, z \in Ids : y = accesses[t][i].row /\ z = accesses[t][i].data[1]
  BY <1>0, SiloTyped
<1>7. \/ pc'[t] = "abort"
      \/ pc'[t] = "reads" /\ ~row[y].lock /\ row[y].tid = accesses[t][i].tid
  BY <1>0, <1>2, <1>5, <1>6, SiloNames DEF SI!ValidateRead, SI!Goto, SI!ReadValid, SI!TidUnchanged
<1>8. CASE pc'[t] = "abort"
  <2>1. ~SiloDecided(t)'
    BY <1>8 DEF SiloDecided, SiloInstalling
  <2> QED BY <1>1, <1>3, <2>1, SiloUndecided, SiloOrderKept
<1>9. CASE pc'[t] = "reads" /\ ~row[y].lock /\ row[y].tid = accesses[t][i].tid
  <2>1. /\ WN(t)' = WN(t) /\ RN(t)' = RN(t) /\ ReadSet(t)' = ReadSet(t)
        /\ \A a, b : WRows(t, a, b)' = WRows(t, a, b)
    BY <1>3, SetsKept
  <2>2. SiloDone(t)' = SiloDone(t)
    BY <1>3, <1>9 DEF SiloDone, SiloInstalling
  <2>3. SiloKeeps(t)
    BY <1>3, <1>9, <2>1, <2>2 DEF SiloKeeps, SiloDecided, SiloPending, Attempt
  <2>4. PICK id \in Ids : id = Attempt(t) /\ id = Attempt(t)'
    BY <1>0, <1>3, SiloTyped DEF Attempt
  <2>5. SiloDecided(t) /\ SiloDecided(t)'
    BY <1>3, <1>9 DEF SiloDecided
  <2>6. z = Latest(y)
    BY <1>0, <1>6, <1>9 DEF SiloAccess
  <2>7. ReadBefore(rank, id, y, z)
    <3>1. rank[z] < rank[id]
      BY <1>6, <2>4, <2>5 DEF SiloOrder
    <3>2. ASSUME NEW m \in 1..Len(vers[y]), NEW j \in 1..Len(vers[y]), vers[y][m] = z, j > m PROVE FALSE
      <4>1. Len(vers[y]) \in Nat
        BY <1>0 DEF SiloTypes, FrameTypes
      <4>2. Len(vers[y]) \in 1..Len(vers[y]) /\ vers[y][Len(vers[y])] = z
        BY <2>6, <3>2, <4>1 DEF Latest
      <4>3. m = Len(vers[y])
        BY <1>0, <3>2, <4>2, SiloPlaces
      <4> QED BY <3>2, <4>1, <4>3
    <3>3. ASSUME NEW u \in Thread, SiloDecided(u), y \in SiloPending(u) PROVE FALSE
      <4>1. y \in SiloHeld(u)
        BY <3>3, SiloPendingHeld
      <4> QED BY <1>9, <4>1 DEF SiloBase, SiloLocks
    <3> QED BY <3>1, <3>2, <3>3 DEF ReadBefore
  <2>8. ASSUME NEW r \in Row, NEW x \in Ids, SiloValidated(t, r, x)'
        PROVE  SiloValidated(t, r, x) \/ (r = y /\ x = z)
    <3>1. PICK k \in 1..RN(t) :
             k <= l + 1 /\ accesses[t][ReadSet(t)[k]].row = r /\ accesses[t][ReadSet(t)[k]].data[1] = x
      BY <1>3, <1>9, <2>1, <2>8 DEF SiloValidated
    <3>2. CASE k = l + 1
      BY <1>5, <1>6, <3>1, <3>2
    <3>3. CASE k # l + 1
      <4>1. k <= l
        BY <1>2, <1>3, <3>1, <3>3
      <4> QED BY <1>2, <2>5, <3>1, <4>1 DEF SiloValidated
    <3> QED BY <3>2, <3>3
  <2>9. \A u \in Thread : SiloKeeps(u)
    BY <1>1, <2>3, SiloOthersKeep
  <2>10. \A r \in Row, x \in Ids : \A w : ReadBefore(rank, w, r, x) => ReadBefore(rank, w, r, x)'
    BY <1>3, <2>9, ReadBeforeKept
  <2>11. \A h \in hist' : \A r \in Row, x \in Ids : <<r, x>> \in h.reads => ReadBefore(rank, h.id, r, x)'
    BY <1>3, <2>10 DEF SiloOrder
  <2>12. ASSUME NEW u \in Thread, NEW r \in Row, NEW x \in Ids, SiloValidated(u, r, x)'
         PROVE  ReadBefore(rank, Attempt(u), r, x)'
    <3>1. PICK w : w = Attempt(u) /\ w = Attempt(u)'
      BY <1>3 DEF Attempt
    <3>2. SiloValidated(u, r, x) \/ (w = id /\ r = y /\ x = z)
      BY <1>1, <2>4, <2>8, <2>12, <3>1, SiloOthersKeep
    <3>3. ReadBefore(rank, w, r, x)
      BY <2>7, <3>1, <3>2 DEF SiloOrder
    <3>4. ReadBefore(rank, w, r, x)'
      BY <2>10, <3>3
    <3> QED BY <3>1, <3>4 DEF ReadBefore
  <2>13. /\ \A r \in Row : \A m \in 1..Len(vers'[r]) : rank[vers'[r][m]] < n
         /\ \A h \in hist' : rank[h.id] < n
         /\ \A r \in Row : \A m, j \in 1..Len(vers'[r]) : m < j => rank[vers'[r][m]] < rank[vers'[r][j]]
    BY <1>3 DEF SiloOrder
  <2>14. \A u \in Thread : SiloDecided(u)' => rank[Attempt(u)'] < n
    BY <2>9 DEF SiloOrder, SiloKeeps
  <2>15. \A u \in Thread, r \in Row : SiloDecided(u)' /\ r \in SiloPending(u)' =>
            \A m \in 1..Len(vers'[r]) : rank[vers'[r][m]] < rank[Attempt(u)']
    BY <1>3, <2>9 DEF SiloOrder, SiloKeeps
  <2>16. \A u \in Thread : SiloDecided(u)' =>
            \A j \in 1..Len(accesses'[u]) : rank[accesses'[u][j].data[1]] < rank[Attempt(u)']
    BY <2>9 DEF SiloOrder, SiloKeeps
  <2> QED BY <2>11, <2>12, <2>13, <2>14, <2>15, <2>16 DEF SiloOrder
<1> QED BY <1>7, <1>8, <1>9

\* The attempts of other threads have other identities.
LEMMA SiloIdentities ==
  ASSUME SiloBase, NEW t \in Thread, pc[t] # "idle"
  PROVE  /\ \A u \in Thread : u # t => Attempt(u) # Attempt(t)
         /\ \A h \in hist : h.id # Attempt(t)
         /\ pc[t] \notin SiloInstalling => \A r \in Row : ~HasVersion(r, Attempt(t))
<1>1. \A u \in Thread : u # t => Attempt(u) # Attempt(t)
  BY DEF Attempt
<1>2. \A h \in hist : h.id # Attempt(t)
  BY DEF SiloBase, IdsUsed
<1>3. pc[t] \notin SiloInstalling => \A r \in Row : ~HasVersion(r, Attempt(t))
  BY DEF SiloBase, SiloThread, SiloFresh
<1> QED BY <1>1, <1>2, <1>3

\* All locks are held: the attempt takes the next place in the serial order.
LEMMA SiloOrderLocked ==
  ASSUME SiloBase, NEW t \in Thread, SI!AllLocked(t),
         NEW rank \in [Ids -> Nat], NEW n \in Nat, SiloOrder(rank, n)
  PROVE  \E rk \in [Ids -> Nat], k \in Nat : SiloOrder(rk, k)'
<1>0. /\ SiloTypes /\ pc \in [Thread -> SiloPcs] /\ local[t] \in SiloLocalType
      /\ local \in [Thread -> SiloLocalType] /\ FrameTypes /\ HistoryKept
      /\ \A u \in Thread : SiloAccess(u)
  BY SiloTyped DEF SiloBase, SiloTypes, SiloPcs, SiloLocalType, SiloThread
<1>1. OnlyThread(t)
  BY SiloOnly DEF SI!Step, SiloBase
<1>2. /\ pc[t] = "lock" /\ pc'[t] = "reads" /\ local'[t].i = 0
      /\ row' = row /\ accesses' = accesses /\ tries' = tries /\ vers' = vers /\ hist' = hist
  BY <1>0 DEF SI!AllLocked, SI!Goto, SI!Set, SiloLocalType
<1>3. PICK id \in Ids : id = Attempt(t) /\ id = Attempt(t)'
  BY <1>0, <1>2, SiloTyped DEF Attempt
<1>4. /\ \A u \in Thread : u # t => Attempt(u) # id
      /\ \A h \in hist : h.id # id
      /\ \A r \in Row : ~HasVersion(r, id)
  BY <1>2, <1>3, SiloIdentities DEF SiloInstalling
<1>5. PICK rk \in [Ids -> Nat] : rk[id] = n /\ \A x \in Ids : x # id => rk[x] = rank[x]
  <2>1. [rank EXCEPT ![id] = n] \in [Ids -> Nat]
    OBVIOUS
  <2> QED BY <2>1
<1>6. \A r \in Row, x \in Ids : HasVersion(r, x) => rk[x] = rank[x] /\ rank[x] < n
  <2> SUFFICES ASSUME NEW r \in Row, NEW x \in Ids, HasVersion(r, x) PROVE rk[x] = rank[x] /\ rank[x] < n
    OBVIOUS
  <2>1. rank[x] < n
    BY DEF HasVersion, SiloOrder
  <2> QED BY <1>4, <1>5, <2>1
<1>7. \A r \in Row : \A m \in 1..Len(vers[r]) :
         vers[r][m] \in Ids /\ rk[vers[r][m]] = rank[vers[r][m]] /\ rank[vers[r][m]] < n
  <2> SUFFICES ASSUME NEW r \in Row, NEW m \in 1..Len(vers[r])
               PROVE  vers[r][m] \in Ids /\ rk[vers[r][m]] = rank[vers[r][m]] /\ rank[vers[r][m]] < n
    OBVIOUS
  <2>1. vers[r] \in Seq(Ids)
    BY <1>0 DEF FrameTypes
  <2>2. vers[r][m] \in Ids
    BY <2>1
  <2> QED BY <1>6, <2>2 DEF HasVersion
<1>8. \A h \in hist : h.id \in Ids /\ rk[h.id] = rank[h.id] /\ rank[h.id] < n
  <2>1. \A h \in hist : h.id \in Ids
    BY <1>0 DEF FrameTypes
  <2> QED BY <1>4, <1>5, <2>1 DEF SiloOrder
<1>9. \A u \in Thread : u # t /\ SiloDecided(u) =>
         Attempt(u) \in Ids /\ rk[Attempt(u)] = rank[Attempt(u)] /\ rank[Attempt(u)] < n
  <2>1. \A u \in Thread : Attempt(u) \in Ids
    BY <1>0, SiloTyped
  <2> QED BY <1>4, <1>5, <2>1 DEF SiloOrder
<1>10. \A u \in Thread : u # t => /\ Attempt(u)' = Attempt(u) /\ (SiloDecided(u)' <=> SiloDecided(u))
                                  /\ SiloPending(u)' = SiloPending(u)
                                  /\ \A r, x : SiloValidated(u, r, x)' <=> SiloValidated(u, r, x)
  BY <1>1, SiloOthersKeep
<1>11. \A r, x : ~SiloValidated(t, r, x)'
  <2>1. RN(t)' = RN(t)
    BY <1>2, SetsKept
  <2>2. RN(t) \in Nat
    BY <1>0, SiloRowsOK, ReadSetProps DEF SiloBase, SiloThread
  <2>3. \A k \in 1..RN(t)' : ~(k <= local'[t].i)
    BY <1>2, <2>1, <2>2
  <2> QED BY <1>2, <2>3 DEF SiloValidated
<1>12. \A u \in Thread : \A i \in 1..Len(accesses[u]) :
          rk[accesses[u][i].data[1]] = rank[accesses[u][i].data[1]] /\ rank[accesses[u][i].data[1]] < n
  <2> SUFFICES ASSUME NEW u \in Thread, NEW i \in 1..Len(accesses[u])
               PROVE  rk[accesses[u][i].data[1]] = rank[accesses[u][i].data[1]] /\ rank[accesses[u][i].data[1]] < n
    OBVIOUS
  <2>1. accesses[u][i].row \in Row /\ accesses[u][i].data[1] \in Ids
    BY <1>0, SiloTyped
  <2>2. HasVersion(accesses[u][i].row, accesses[u][i].data[1])
    BY <1>0 DEF SiloAccess
  <2> QED BY <1>6, <2>1, <2>2
<1>13. ASSUME NEW r \in Row, NEW x \in Ids, NEW w \in Ids, rk[w] = rank[w], rank[w] < n, HasVersion(r, x),
              ReadBefore(rank, w, r, x)
       PROVE  ReadBefore(rk, w, r, x)'
  <2>1. rk[x] < rk[w]
    BY <1>6, <1>13 DEF ReadBefore
  <2>2. ASSUME NEW m \in 1..Len(vers'[r]), NEW j \in 1..Len(vers'[r]), vers'[r][m] = x, j > m
        PROVE  vers'[r][j] = w \/ rk[w] < rk[vers'[r][j]]
    BY <1>2, <1>7, <1>13, <2>2 DEF ReadBefore
  <2>3. ASSUME NEW u \in Thread, SiloDecided(u)', r \in SiloPending(u)', Attempt(u)' # w
        PROVE  rk[w] < rk[Attempt(u)']
    <3>1. CASE u = t
      BY <1>3, <1>5, <1>13, <3>1
    <3>2. CASE u # t
      <4>1. SiloDecided(u) /\ r \in SiloPending(u) /\ Attempt(u) # w /\ Attempt(u)' = Attempt(u)
        BY <1>10, <2>3, <3>2
      <4> QED BY <1>9, <1>13, <3>2, <4>1 DEF ReadBefore
    <3> QED BY <3>1, <3>2
  <2> QED BY <2>1, <2>2, <2>3 DEF ReadBefore
<1>14. \A r \in Row : \A m \in 1..Len(vers'[r]) : rk[vers'[r][m]] < n + 1
  BY <1>2, <1>5, <1>7
<1>15. \A u \in Thread : SiloDecided(u)' => rk[Attempt(u)'] < n + 1
  <2> SUFFICES ASSUME NEW u \in Thread, SiloDecided(u)' PROVE rk[Attempt(u)'] < n + 1
    OBVIOUS
  <2>1. CASE u = t
    BY <1>3, <1>5, <2>1
  <2>2. CASE u # t
    BY <1>9, <1>10, <2>2
  <2> QED BY <2>1, <2>2
<1>16. \A h \in hist' : rk[h.id] < n + 1
  BY <1>2, <1>8
<1>17. \A r \in Row : \A m, j \in 1..Len(vers'[r]) : m < j => rk[vers'[r][m]] < rk[vers'[r][j]]
  BY <1>2, <1>7 DEF SiloOrder
<1>18. ASSUME NEW u \in Thread, NEW r \in Row, SiloDecided(u)', r \in SiloPending(u)',
              NEW m \in 1..Len(vers'[r])
       PROVE  rk[vers'[r][m]] < rk[Attempt(u)']
  <2>1. CASE u = t
    BY <1>2, <1>3, <1>5, <1>7, <2>1
  <2>2. CASE u # t
    <3>1. SiloDecided(u) /\ r \in SiloPending(u) /\ Attempt(u)' = Attempt(u)
      BY <1>10, <1>18, <2>2
    <3>2. rank[vers[r][m]] < rank[Attempt(u)]
      BY <1>2, <3>1 DEF SiloOrder
    <3> QED BY <1>2, <1>7, <1>9, <2>2, <3>1, <3>2
  <2> QED BY <2>1, <2>2
<1>19. ASSUME NEW u \in Thread, SiloDecided(u)', NEW i \in 1..Len(accesses'[u])
       PROVE  rk[accesses'[u][i].data[1]] < rk[Attempt(u)']
  <2>1. CASE u = t
    BY <1>2, <1>3, <1>5, <1>12, <2>1
  <2>2. CASE u # t
    <3>1. SiloDecided(u) /\ Attempt(u)' = Attempt(u)
      BY <1>10, <1>19, <2>2
    <3>2. rank[accesses[u][i].data[1]] < rank[Attempt(u)]
      BY <1>2, <3>1 DEF SiloOrder
    <3> QED BY <1>2, <1>9, <1>12, <2>2, <3>1, <3>2
  <2> QED BY <2>1, <2>2
<1>20. ASSUME NEW h \in hist', NEW r \in Row, NEW x \in Ids, <<r, x>> \in h.reads
       PROVE  ReadBefore(rk, h.id, r, x)'
  <2>1. PICK w \in Ids : w = h.id
    BY <1>2, <1>8
  <2>2. HasVersion(r, x)
    BY <1>0, <1>2, <1>20 DEF HistoryKept
  <2>3. ReadBefore(rank, w, r, x)
    BY <1>2, <1>20, <2>1 DEF SiloOrder
  <2>4. ReadBefore(rk, w, r, x)'
    BY <1>2, <1>8, <1>13, <2>1, <2>2, <2>3
  <2> QED BY <2>1, <2>4
<1>21. ASSUME NEW u \in Thread, NEW r \in Row, NEW x \in Ids, SiloValidated(u, r, x)'
       PROVE  ReadBefore(rk, Attempt(u), r, x)'
  <2>1. u # t
    BY <1>11, <1>21
  <2>2. SiloValidated(u, r, x) /\ SiloDecided(u)
    BY <1>10, <1>21, <2>1 DEF SiloValidated
  <2>3. PICK w \in Ids : w = Attempt(u) /\ w = Attempt(u)'
    BY <1>9, <1>10, <2>1, <2>2
  <2>4. HasVersion(r, x)
    <3>1. PICK k \in 1..RN(u) : accesses[u][ReadSet(u)[k]].row = r /\ accesses[u][ReadSet(u)[k]].data[1] = x
      BY <2>2 DEF SiloValidated
    <3>2. ReadSet(u)[k] \in 1..Len(accesses[u])
      BY <1>0, SiloRowsOK, ReadSetProps DEF SiloBase, SiloThread
    <3> QED BY <1>0, <3>1, <3>2 DEF SiloAccess
  <2>5. ReadBefore(rank, w, r, x)
    BY <2>2, <2>3 DEF SiloOrder
  <2>6. ReadBefore(rk, w, r, x)'
    BY <1>9, <1>13, <2>1, <2>2, <2>3, <2>4, <2>5
  <2> QED BY <2>3, <2>6 DEF ReadBefore
<1>22. SiloOrder(rk, n + 1)'
  BY <1>14, <1>15, <1>16, <1>17, <1>18, <1>19, <1>20, <1>21 DEF SiloOrder
<1> QED BY <1>22

\* The number of a row is stored: the attempt was last of those that had to do
\* with the version before.
LEMMA SiloOrderWord ==
  ASSUME SiloBase, NEW t \in Thread, SI!InstallWord(t),
         NEW rank \in [Ids -> Nat], NEW n \in Nat, SiloOrder(rank, n)
  PROVE  SiloOrder(rank, n)'
<1>0. /\ SiloTypes /\ SiloLoop(t) /\ pc \in [Thread -> SiloPcs] /\ local[t] \in SiloLocalType
      /\ RowsOK(t) /\ FrameTypes /\ HistoryKept
  BY SiloTyped, SiloRowsOK DEF SiloBase, SiloTypes, SiloPcs, SiloLocalType, SiloThread
<1>1. OnlyThread(t)
  BY SiloOnly DEF SI!Step, SiloBase
<1>2. /\ pc[t] = "word" /\ pc'[t] = "release"
      /\ vers' = [vers EXCEPT ![WRow(t, local[t].i + 1)] = Append(vers[WRow(t, local[t].i + 1)], Attempt(t))]
      /\ local' = local /\ accesses' = accesses /\ tries' = tries /\ hist' = hist
  BY <1>0, SiloNames DEF SI!InstallWord, SI!Goto
<1>3. pc[t] \in SiloInstalling /\ local[t].i < WN(t)
  BY <1>0, <1>2 DEF SiloInstalling, SiloLoop
<1>4. PICK l \in Nat, r \in Row, id \in Ids :
         l = local[t].i /\ r = WRow(t, l + 1) /\ id = Attempt(t) /\ id = Attempt(t)'
  BY <1>0, <1>2, <1>3, SiloInstallingRow, SiloTyped DEF SiloLocalType, Attempt
<1>5. /\ l + 1 \in 1..WN(t) /\ WN(t) \in Nat /\ \A u \in Thread : r \in SiloHeld(u) => u = t
  BY <1>3, <1>4, SiloInstallingRow
<1>6. /\ Len(vers[r]) \in Nat /\ Len(vers'[r]) = Len(vers[r]) + 1
      /\ vers'[r][Len(vers[r]) + 1] = id
      /\ \A m \in 1..Len(vers[r]) : vers'[r][m] = vers[r][m]
      /\ \A y \in Row : y # r => vers'[y] = vers[y]
      /\ \A m \in 1..Len(vers'[r]) : m \in 1..Len(vers[r]) \/ m = Len(vers[r]) + 1
  <2>1. vers' = [vers EXCEPT ![r] = Append(vers[r], id)]
    BY <1>2, <1>4
  <2> QED BY <1>0, <2>1, AppendVersion
<1>7. SiloDone(t) = l /\ SiloDone(t)' = l + 1
  BY <1>2, <1>4 DEF SiloDone, SiloInstalling
<1>8. /\ WN(t)' = WN(t) /\ RN(t)' = RN(t) /\ ReadSet(t)' = ReadSet(t)
      /\ \A a, b : WRows(t, a, b)' = WRows(t, a, b)
  BY <1>2, SetsKept
<1>9. SiloDecided(t) /\ SiloDecided(t)'
  BY <1>2 DEF SiloDecided, SiloInstalling
<1>10. r \in SiloPending(t) /\ \A y \in SiloPending(t)' : y \in SiloPending(t) /\ y # r
  <2>1. l + 1 \in (l + 1)..WN(t)
    BY <1>4, <1>5
  <2>2. \A k \in (l + 1 + 1)..WN(t) : k \in (l + 1)..WN(t) /\ k \in 1..WN(t) /\ k # l + 1
    BY <1>4, <1>5
  <2>3. \A k \in 1..WN(t) : WRow(t, k) = r => k = l + 1
    BY <1>0, <1>4, <1>5, WriteSetProps
  <2>4. SiloPending(t) = WRows(t, l + 1, WN(t)) /\ SiloPending(t)' = WRows(t, l + 1 + 1, WN(t))
    BY <1>7, <1>8 DEF SiloPending
  <2> QED BY <1>4, <2>1, <2>2, <2>3, <2>4 DEF WRows
<1>11. \A u \in Thread : SiloKeeps(u)
  <2>1. SiloKeeps(t)
    BY <1>2, <1>4, <1>9, <1>10 DEF SiloKeeps
  <2> QED BY <1>1, <2>1, SiloOthersKeep
<1>12. \A u \in Thread : SiloDecided(u)' => r \notin SiloPending(u)'
  <2> SUFFICES ASSUME NEW u \in Thread, SiloDecided(u)', r \in SiloPending(u)' PROVE FALSE
    OBVIOUS
  <2>1. u # t
    BY <1>10
  <2>2. SiloDecided(u) /\ r \in SiloPending(u)
    BY <1>11 DEF SiloKeeps
  <2>3. r \in SiloHeld(u)
    BY <2>2, SiloPendingHeld
  <2> QED BY <1>5, <2>1, <2>3
<1>13. \A h \in hist : h.id # id
  BY <1>2, <1>4, SiloIdentities
<1>14. \A r2 \in Row : \A m \in 1..Len(vers'[r2]) :
          (m \in 1..Len(vers[r2]) /\ vers'[r2][m] = vers[r2][m]) \/ (r2 = r /\ m = Len(vers[r]) + 1 /\ vers'[r2][m] = id)
  BY <1>6
<1>15. rank[id] < n
  BY <1>4, <1>9 DEF SiloOrder
<1>16. \A m \in 1..Len(vers[r]) : rank[vers[r][m]] < rank[id]
  BY <1>4, <1>9, <1>10 DEF SiloOrder
<1>17. ASSUME NEW y \in Row, NEW x \in Ids, NEW w, ReadBefore(rank, w, y, x)
       PROVE  ReadBefore(rank, w, y, x)'
  <2>1. rank[x] < rank[w]
    BY <1>17 DEF ReadBefore
  <2>2. ASSUME NEW m \in 1..Len(vers'[y]), NEW j \in 1..Len(vers'[y]), vers'[y][m] = x, j > m
        PROVE  vers'[y][j] = w \/ rank[w] < rank[vers'[y][j]]
    <3>1. m \in 1..Len(vers[y]) /\ vers[y][m] = x
      <4>1. ~(y = r /\ m = Len(vers[r]) + 1)
        BY <1>6, <2>2
      <4> QED BY <1>14, <2>2, <4>1
    <3>2. CASE j \in 1..Len(vers[y]) /\ vers'[y][j] = vers[y][j]
      BY <1>17, <2>2, <3>1, <3>2 DEF ReadBefore
    <3>3. CASE y = r /\ j = Len(vers[r]) + 1 /\ vers'[y][j] = id
      BY <1>4, <1>9, <1>10, <1>17, <3>3 DEF ReadBefore
    <3> QED BY <1>14, <3>2, <3>3
  <2>3. ASSUME NEW u \in Thread, SiloDecided(u)', y \in SiloPending(u)', Attempt(u)' # w
        PROVE  rank[w] < rank[Attempt(u)']
    BY <1>11, <1>17, <2>3 DEF SiloKeeps, ReadBefore
  <2> QED BY <2>1, <2>2, <2>3 DEF ReadBefore
<1>18. \A y \in Row : \A m \in 1..Len(vers'[y]) : rank[vers'[y][m]] < n
  BY <1>14, <1>15 DEF SiloOrder
<1>19. \A u \in Thread : SiloDecided(u)' => rank[Attempt(u)'] < n
  BY <1>11 DEF SiloOrder, SiloKeeps
<1>20. \A h \in hist' : rank[h.id] < n
  BY <1>2 DEF SiloOrder
<1>21. ASSUME NEW y \in Row, NEW m \in 1..Len(vers'[y]), NEW j \in 1..Len(vers'[y]), m < j
       PROVE  rank[vers'[y][m]] < rank[vers'[y][j]]
  <2>1. m \in 1..Len(vers[y]) /\ vers'[y][m] = vers[y][m]
    <3>1. ~(y = r /\ m = Len(vers[r]) + 1)
      BY <1>6, <1>21
    <3> QED BY <1>14, <3>1
  <2>2. CASE j \in 1..Len(vers[y]) /\ vers'[y][j] = vers[y][j]
    BY <1>21, <2>1, <2>2 DEF SiloOrder
  <2>3. CASE y = r /\ vers'[y][j] = id
    BY <1>16, <2>1, <2>3
  <2> QED BY <1>14, <2>2, <2>3
<1>22. ASSUME NEW u \in Thread, NEW y \in Row, SiloDecided(u)', y \in SiloPending(u)',
              NEW m \in 1..Len(vers'[y])
       PROVE  rank[vers'[y][m]] < rank[Attempt(u)']
  <2>1. y # r
    BY <1>12, <1>22
  <2>2. vers'[y] = vers[y]
    BY <1>6, <2>1
  <2> QED BY <1>11, <1>22, <2>2 DEF SiloOrder, SiloKeeps
<1>23. \A u \in Thread : SiloDecided(u)' =>
         \A i \in 1..Len(accesses'[u]) : rank[accesses'[u][i].data[1]] < rank[Attempt(u)']
  BY <1>11 DEF SiloOrder, SiloKeeps
<1>24. \A h \in hist' : \A y \in Row, x \in Ids : <<y, x>> \in h.reads => ReadBefore(rank, h.id, y, x)'
  BY <1>2, <1>17 DEF SiloOrder
<1>25. ASSUME NEW u \in Thread, NEW y \in Row, NEW x \in Ids, SiloValidated(u, y, x)'
       PROVE  ReadBefore(rank, Attempt(u), y, x)'
  <2>1. PICK w : w = Attempt(u) /\ w = Attempt(u)'
    BY <1>2 DEF Attempt
  <2>2. SiloValidated(u, y, x)
    <3>1. CASE u = t
      BY <1>2, <1>8, <1>9, <1>25, <3>1 DEF SiloValidated
    <3>2. CASE u # t
      BY <1>1, <1>25, <3>2, SiloOthersKeep
    <3> QED BY <3>1, <3>2
  <2>3. ReadBefore(rank, w, y, x)
    BY <2>1, <2>2 DEF SiloOrder
  <2>4. ReadBefore(rank, w, y, x)'
    BY <1>17, <2>3
  <2> QED BY <2>1, <2>4 DEF ReadBefore
<1> QED BY <1>18, <1>19, <1>20, <1>21, <1>22, <1>23, <1>24, <1>25 DEF SiloOrder

\* A commit: what it read was validated or replaced by itself.
LEMMA SiloOrderCommit ==
  ASSUME SiloBase, NEW t \in Thread, SI!Commit(t),
         NEW rank \in [Ids -> Nat], NEW n \in Nat, SiloOrder(rank, n)
  PROVE  SiloOrder(rank, n)'
<1>0. /\ SiloTypes /\ pc \in [Thread -> SiloPcs] /\ RowsOK(t) /\ SiloCurrent(t) /\ FrameTypes
  BY SiloRowsOK DEF SiloBase, SiloTypes, SiloPcs, SiloThread
<1>1. OnlyThread(t)
  BY SiloOnly DEF SI!Step, SiloBase
<1>2. hist' = hist \cup {Entry(t)}
  BY SiloCommit
<1>3. /\ pc[t] = "install1" /\ local[t].i = WN(t) /\ WN(t) \in Nat /\ pc'[t] = "idle"
      /\ vers' = vers
  BY <1>0, SiloNames, WriteSetProps DEF SI!Commit, SI!Committed, SI!Finished, SI!Goto
<1>4. SiloDecided(t) /\ ~SiloDecided(t)' /\ SiloDone(t) = WN(t)
  BY <1>3 DEF SiloDecided, SiloInstalling, SiloDone
<1>5. SiloKeeps(t) /\ \A r, x : ~SiloValidated(t, r, x)'
  BY <1>4, SiloUndecided
<1>6. \A u \in Thread : SiloKeeps(u)
  BY <1>1, <1>5, SiloOthersKeep
<1>7. \A u \in Thread, r \in Row, x \in Ids : SiloValidated(u, r, x)' => SiloValidated(u, r, x)
  BY <1>1, <1>5, SiloOthersKeep
<1>8. PICK id \in Ids : id = Attempt(t)
  BY <1>0, SiloTyped
<1>9. PICK e : e = Entry(t) /\ e.id = id
  <2>1. Entry(t).id = id
    BY <1>8 DEF Entry
  <2> QED BY <2>1
<1>10. \A r \in Row, x \in Ids : \A w : ReadBefore(rank, w, r, x) => ReadBefore(rank, w, r, x)'
  BY <1>3, <1>6, ReadBeforeKept
<1>11. ASSUME NEW r \in Row, NEW x \in Ids, <<r, x>> \in e.reads
       PROVE  ReadBefore(rank, id, r, x)
  <2>1. PICK i \in 1..Len(accesses[t]) : r = accesses[t][i].row /\ x = accesses[t][i].data[1]
    <3>1. <<r, x>> \in {<<accesses[t][i].row, accesses[t][i].data[1]>> : i \in 1..Len(accesses[t])}
      BY <1>9, <1>11 DEF Entry
    <3> QED BY <3>1
  <2>2. i \in Of(t, "RD") \/ i \in Of(t, "WR")
    BY <1>0, <2>1 DEF RowsOK, Of
  <2>3. CASE i \in Of(t, "RD")
    <3>1. PICK k \in 1..RN(t) : ReadSet(t)[k] = i
      BY <1>0, <2>3, ReadSetProps
    <3>2. SiloValidated(t, r, x)
      BY <1>3, <1>4, <2>1, <3>1 DEF SiloValidated
    <3> QED BY <1>8, <3>2 DEF SiloOrder
  <2>4. CASE i \in Of(t, "WR")
    <3>1. PICK a \in 1..WN(t) : WriteSet(t)[a] = i
      BY <1>0, <2>4, WriteSetProps
    <3>2. Replaced(WRow(t, a), accesses[t][WriteSet(t)[a]].data[1], Attempt(t))
      BY <1>0, <1>3, <1>4 DEF SiloCurrent, SiloInstalling
    <3>3. Replaced(r, x, id)
      BY <1>8, <2>1, <3>1, <3>2 DEF WRow
    <3>4. Len(vers[r]) \in Nat
      BY <1>0 DEF FrameTypes
    <3>5. PICK m \in 1..(Len(vers[r]) - 1) : vers[r][m] = x /\ vers[r][m + 1] = id
      BY <3>3 DEF Replaced
    <3>6. m \in 1..Len(vers[r]) /\ m + 1 \in 1..Len(vers[r]) /\ m < m + 1
      BY <3>4, <3>5
    <3>7. rank[x] < rank[id]
      BY <3>5, <3>6 DEF SiloOrder
    <3>8. ASSUME NEW m2 \in 1..Len(vers[r]), NEW j \in 1..Len(vers[r]), vers[r][m2] = x, j > m2
          PROVE  vers[r][j] = id \/ rank[id] < rank[vers[r][j]]
      <4>1. m2 = m
        BY <1>0, <3>5, <3>6, <3>8, SiloPlaces
      <4>2. j = m + 1 \/ m + 1 < j
        BY <3>4, <3>6, <3>8, <4>1
      <4> QED BY <3>5, <3>6, <4>2 DEF SiloOrder
    <3>9. ASSUME NEW u \in Thread, SiloDecided(u), r \in SiloPending(u) PROVE rank[id] < rank[Attempt(u)]
      BY <3>5, <3>6, <3>9 DEF SiloOrder
    <3> QED BY <3>7, <3>8, <3>9 DEF ReadBefore
  <2> QED BY <2>2, <2>3, <2>4
<1>12. ASSUME NEW h \in hist', NEW r \in Row, NEW x \in Ids, <<r, x>> \in h.reads
       PROVE  ReadBefore(rank, h.id, r, x)'
  <2>1. CASE h \in hist
    BY <1>10, <1>12, <2>1 DEF SiloOrder
  <2>2. CASE h = e
    <3>1. ReadBefore(rank, id, r, x)'
      BY <1>10, <1>11, <1>12, <2>2
    <3> QED BY <1>9, <2>2, <3>1
  <2> QED BY <1>2, <1>9, <2>1, <2>2
<1>13. ASSUME NEW u \in Thread, NEW r \in Row, NEW x \in Ids, SiloValidated(u, r, x)'
       PROVE  ReadBefore(rank, Attempt(u), r, x)'
  <2>1. SiloDecided(u)'
    BY <1>13 DEF SiloValidated
  <2>2. PICK w : w = Attempt(u) /\ w = Attempt(u)'
    BY <1>6, <2>1 DEF SiloKeeps
  <2>3. ReadBefore(rank, w, r, x)
    BY <1>7, <1>13, <2>2 DEF SiloOrder
  <2>4. ReadBefore(rank, w, r, x)'
    BY <1>10, <2>3
  <2> QED BY <2>2, <2>4 DEF ReadBefore
<1>14. \A h \in hist' : rank[h.id] < n
  <2>1. rank[id] < n
    BY <1>4, <1>8 DEF SiloOrder
  <2> QED BY <1>2, <1>9, <2>1 DEF SiloOrder
<1>15. /\ \A r \in Row : \A m \in 1..Len(vers'[r]) : rank[vers'[r][m]] < n
       /\ \A r \in Row : \A m, j \in 1..Len(vers'[r]) : m < j => rank[vers'[r][m]] < rank[vers'[r][j]]
  BY <1>3 DEF SiloOrder
<1>16. \A u \in Thread : SiloDecided(u)' => rank[Attempt(u)'] < n
  BY <1>6 DEF SiloOrder, SiloKeeps
<1>17. \A u \in Thread, r \in Row : SiloDecided(u)' /\ r \in SiloPending(u)' =>
          \A m \in 1..Len(vers'[r]) : rank[vers'[r][m]] < rank[Attempt(u)']
  BY <1>3, <1>6 DEF SiloOrder, SiloKeeps
<1>18. \A u \in Thread : SiloDecided(u)' =>
          \A i \in 1..Len(accesses'[u]) : rank[accesses'[u][i].data[1]] < rank[Attempt(u)']
  BY <1>6 DEF SiloOrder, SiloKeeps
<1> QED BY <1>12, <1>13, <1>14, <1>15, <1>16, <1>17, <1>18 DEF SiloOrder

\* Every step of Silo keeps the invariant.
LEMMA SiloStep ==
  ASSUME SiloInv, NEW t \in Thread, SI!Step(t)
  PROVE  SiloInv'
<1>1. SiloBase /\ SiloBase'
  BY SiloBaseStep DEF SiloInv
<1>2. PICK rank \in [Ids -> Nat], n \in Nat : SiloOrder(rank, n)
  BY DEF SiloInv
<1>3. CASE SI!AllLocked(t)
  <2>1. \E rk \in [Ids -> Nat], k \in Nat : SiloOrder(rk, k)'
    BY <1>1, <1>2, <1>3, SiloOrderLocked
  <2> QED BY <1>1, <2>1 DEF SiloInv
<1>4. CASE ~SI!AllLocked(t)
  <2>1. SiloOrder(rank, n)'
    BY <1>1, <1>2, <1>4, SiloOrderBefore, SiloOrderInstalls, SiloOrderRead, SiloOrderWord,
       SiloOrderCommit DEF SI!Step
  <2> QED BY <1>1, <2>1 DEF SiloInv
<1> QED BY <1>3, <1>4

\* Nothing changes.
LEMMA SiloStutter ==
  ASSUME SiloInv, UNCHANGED frameVars
  PROVE  SiloInv'
<1>1. /\ row' = row /\ pc' = pc /\ tries' = tries /\ query' = query /\ accesses' = accesses
      /\ local' = local /\ hist' = hist /\ vers' = vers
  BY DEF frameVars
<1>2. \A t \in Thread :
         /\ SiloHeld(t)' = SiloHeld(t) /\ SiloDone(t)' = SiloDone(t) /\ SiloPending(t)' = SiloPending(t)
         /\ Attempt(t)' = Attempt(t) /\ (SiloDecided(t)' <=> SiloDecided(t))
         /\ (\A r : SiloDirty(t, r)' <=> SiloDirty(t, r)) /\ Request(t)' = Request(t)
         /\ \A r, x : SiloValidated(t, r, x)' <=> SiloValidated(t, r, x)
  BY <1>1, SiloOwn
<1>3. SiloTypes' /\ HistoryKept' /\ IdsUsed'
  <2>1. SiloTypes /\ HistoryKept /\ IdsUsed
    BY DEF SiloInv, SiloBase
  <2>2. SiloTypes'
    BY <1>1, <2>1 DEF SiloTypes, FrameTypes
  <2>3. HistoryKept'
    BY <1>1, <2>1 DEF HistoryKept, HasVersion, Replaced
  <2>4. IdsUsed'
    BY <1>1, <2>1 DEF IdsUsed, HasVersion, Attempt
  <2> QED BY <2>2, <2>3, <2>4
<1>4. SiloLocks'
  BY <1>1, <1>2 DEF SiloInv, SiloBase, SiloLocks
<1>5. \A r : (SiloClean(r)' <=> SiloClean(r)) /\ Latest(r)' = Latest(r)
  BY <1>1, <1>2 DEF SiloClean, Latest
<1>6. SiloRows'
  BY <1>1, <1>2, <1>5 DEF SiloInv, SiloBase, SiloRows
<1>7. ASSUME NEW t \in Thread PROVE SiloThread(t)'
  <2>1. Follows(t) /\ SiloLoop(t) /\ SiloCopy(t) /\ SiloAccess(t) /\ SiloCurrent(t) /\ SiloFresh(t)
    BY DEF SiloInv, SiloBase, SiloThread
  <2>2. /\ WN(t)' = WN(t) /\ RN(t)' = RN(t) /\ WriteSet(t)' = WriteSet(t)
        /\ \A k : WRow(t, k)' = WRow(t, k)
    BY <1>1, SetsKept
  <2>3. Follows(t)' /\ SiloLoop(t)'
    BY <1>1, <2>1, <2>2 DEF Follows, SiloLoop, HasRequest
  <2>4. SiloCopy(t)'
    BY <1>1, <1>2, <1>5, <2>1 DEF SiloCopy, Copied
  <2>5. SiloAccess(t)'
    BY <1>1, <2>1 DEF SiloAccess, HasVersion, Latest
  <2>6. SiloCurrent(t)'
    BY <1>1, <1>2, <2>1, <2>2 DEF SiloCurrent, Replaced
  <2>7. SiloFresh(t)'
    BY <1>1, <1>2, <2>1 DEF SiloFresh, HasVersion
  <2> QED BY <2>3, <2>4, <2>5, <2>6, <2>7 DEF SiloThread
<1>8. PICK rank \in [Ids -> Nat], n \in Nat : SiloOrder(rank, n)
  BY DEF SiloInv
<1>9. SiloOrder(rank, n)'
  <2>1. \A id, r, x : ReadBefore(rank, id, r, x)' <=> ReadBefore(rank, id, r, x)
    BY <1>1, <1>2 DEF ReadBefore
  <2>2. \A t \in Thread : \A r, x : ReadBefore(rank, Attempt(t), r, x)' <=> ReadBefore(rank, Attempt(t), r, x)
    BY <1>1, <1>2 DEF ReadBefore
  <2> QED BY <1>1, <1>2, <1>8, <2>1, <2>2 DEF SiloOrder
<1>10. SiloBase'
  BY <1>3, <1>4, <1>6, <1>7 DEF SiloBase
<1> QED BY <1>8, <1>9, <1>10 DEF SiloInv

\* The order of the ranks explains every version read and replaced.
LEMMA SiloSerial ==
  ASSUME SiloInv
  PROVE  Acyclic
<1>1. PICK rank \in [Ids -> Nat], n \in Nat : SiloOrder(rank, n)
  BY DEF SiloInv
<1>2. hist \subseteq [id : Ids, reads : SUBSET (Row \X Ids), writes : SUBSET Row] /\ HistoryKept
      /\ vers \in [Row -> Seq(Ids)]
  BY DEF SiloInv, SiloBase, SiloTypes, FrameTypes
<1>3. \A h \in hist : h.id \in Ids /\ rank[h.id] \in Nat
  BY <1>2
<1>4. ASSUME NEW h \in hist, NEW k \in hist, h # k, Precedes(h, k) PROVE rank[h.id] < rank[k.id]
  <2>1. h.id # k.id
    BY <1>2, <1>4 DEF HistoryKept
  <2>2. PICK r \in Row :
           \/ <<r, h.id>> \in k.reads
           \/ \E i \in 1..(Len(vers[r]) - 1) :
                 /\ vers[r][i + 1] = k.id
                 /\ vers[r][i] = h.id \/ <<r, vers[r][i]>> \in h.reads
    BY <1>4 DEF Precedes
  <2>3. CASE <<r, h.id>> \in k.reads
    BY <1>1, <1>3, <2>3 DEF SiloOrder, ReadBefore
  <2>4. ASSUME NEW i \in 1..(Len(vers[r]) - 1), vers[r][i + 1] = k.id,
               vers[r][i] = h.id \/ <<r, vers[r][i]>> \in h.reads
        PROVE  rank[h.id] < rank[k.id]
    <3>1. vers[r] \in Seq(Ids) /\ Len(vers[r]) \in Nat
      BY <1>2
    <3>2. i \in 1..Len(vers[r]) /\ i + 1 \in 1..Len(vers[r]) /\ i < i + 1 /\ i + 1 > i
      BY <3>1
    <3>3. vers[r][i] \in Ids
      BY <3>1, <3>2
    <3>4. CASE vers[r][i] = h.id
      BY <1>1, <2>4, <3>2, <3>4 DEF SiloOrder
    <3>5. CASE <<r, vers[r][i]>> \in h.reads
      <4>1. ReadBefore(rank, h.id, r, vers[r][i])
        BY <1>1, <3>3, <3>5 DEF SiloOrder
      <4> QED BY <2>1, <2>4, <3>2, <4>1 DEF ReadBefore
    <3> QED BY <2>4, <3>4, <3>5
  <2> QED BY <2>2, <2>3, <2>4
<1> SUFFICES ASSUME NEW S \in SUBSET hist, S # {}
             PROVE  \E k \in S : \A h \in S \ {k} : ~Precedes(h, k)
  BY DEF Acyclic
<1> DEFINE R == {rank[h.id] : h \in S}
<1>5. R \in SUBSET Nat /\ R # {}
  BY <1>3
<1>6. Min(R) \in R /\ \A x \in R : Min(R) <= x
  <2> HIDE DEF R
  <2> QED BY <1>5, MinNat
<1>7. PICK k \in S : rank[k.id] = Min(R)
  BY <1>6
<1>8. ASSUME NEW h \in S \ {k}, Precedes(h, k) PROVE FALSE
  <2>1. rank[h.id] < rank[k.id]
    BY <1>4, <1>8
  <2>2. rank[h.id] \in R /\ rank[k.id] \in Nat /\ rank[h.id] \in Nat
    BY <1>3
  <2>3. rank[k.id] <= rank[h.id]
    <3> HIDE DEF R
    <3> QED BY <1>6, <1>7, <2>2
  <2> QED BY <2>1, <2>2, <2>3
<1> QED BY <1>8

\* A commit replaced what it had read.
LEMMA HistoryNoLostUpdate ==
  ASSUME FrameTypes, HistoryKept
  PROVE  NoLostUpdate
<1> SUFFICES ASSUME NEW h \in hist, NEW r \in h.writes
             PROVE  \E i \in 1..(Len(vers[r]) - 1) : vers[r][i + 1] = h.id /\ <<r, vers[r][i]>> \in h.reads
  BY DEF NoLostUpdate
<1>1. PICK x \in Ids : <<r, x>> \in h.reads /\ Replaced(r, x, h.id)
  BY DEF HistoryKept
<1> QED BY <1>1 DEF Replaced

=============================================================================
