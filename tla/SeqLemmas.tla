------------------------------ MODULE SeqLemmas ------------------------------
(***************************************************************************)
(* Facts about the community modules' operators on sequences and sets that *)
(* the models are built with, used by all the proofs.                      *)
(***************************************************************************)
EXTENDS Integers, Sequences, FiniteSets, SequencesExt, SequenceTheorems,
        FiniteSetTheorems, WellFoundedInduction, TLAPS

\* Every non-empty set of numbers has a least element, which Min returns.
LEMMA MinNat ==
  ASSUME NEW T \in SUBSET Nat, T # {}
  PROVE  Min(T) \in T /\ \A y \in T : Min(T) <= y
<1>1. PICK x \in T : \A y \in T : ~(<<y, x>> \in OpToRel(<, Nat))
  BY NatLessThanWellFounded, WFMin
<1>2. \A y \in T : <<y, x>> \in OpToRel(<, Nat) <=> y < x
  BY DEF OpToRel
<1>3. \A y \in T : ~(y < x)
  BY <1>1, <1>2, Zenon
<1>4. \A y \in T : x <= y
  BY <1>3
<1> QED BY <1>4 DEF Min

\* A bounded one has a greatest element, which Max returns.
LEMMA MaxNat ==
  ASSUME NEW n \in Nat, NEW T \in SUBSET (0..n), T # {}
  PROVE  Max(T) \in T /\ \A y \in T : y <= Max(T)
<1> DEFINE D == {n - y : y \in T}
<1>1. D \in SUBSET Nat /\ D # {}
  <2>1. \A y \in T : y \in 0..n /\ n - y \in Nat
    OBVIOUS
  <2>2. PICK y \in T : TRUE
    OBVIOUS
  <2>3. n - y \in D
    BY <2>2
  <2> QED BY <2>1, <2>3
<1>2. Min(D) \in D /\ \A y \in D : Min(D) <= y
  <2> HIDE DEF D
  <2> QED BY <1>1, MinNat
<1>3. PICK x \in T : Min(D) = n - x
  BY <1>2
<1>4. \A y \in T : n - x <= n - y
  BY <1>2, <1>3
<1>5. \A y \in T : x >= y
  BY <1>4
<1> HIDE DEF D
<1> QED BY <1>5 DEF Max

\* The elements of a sequence with a new one at position i.
LEMMA InsertAtProperties ==
  ASSUME NEW S, NEW s \in Seq(S), NEW e \in S, NEW i \in 1..(Len(s) + 1)
  PROVE  /\ InsertAt(s, i, e) \in Seq(S)
         /\ Len(InsertAt(s, i, e)) = Len(s) + 1
         /\ \A k \in 1..(Len(s) + 1) :
               InsertAt(s, i, e)[k] = IF k < i THEN s[k] ELSE IF k = i THEN e ELSE s[k - 1]
<1> DEFINE a == SubSeq(s, 1, i - 1)
           b == SubSeq(s, i, Len(s))
           c == a \o <<e>>
<1>1. Len(s) \in Nat /\ \A k \in 1..Len(s) : s[k] \in S
  BY LenProperties
<1>2. /\ a \in Seq(S) /\ Len(a) = i - 1
      /\ \A k \in 1..(i - 1) : a[k] = s[k]
  <2>1. \A k \in 1..(i - 1) : s[k] \in S
    BY <1>1
  <2> QED BY <1>1, <2>1, SubSeqProperties
<1>3. /\ b \in Seq(S) /\ Len(b) = Len(s) + 1 - i
      /\ \A k \in 1..(Len(s) + 1 - i) : b[k] = s[i + k - 1]
  <2>1. \A k \in i..Len(s) : s[k] \in S
    BY <1>1
  <2> QED BY <1>1, <2>1, SubSeqProperties
<1>4. <<e>> \in Seq(S) /\ Len(<<e>>) = 1 /\ <<e>>[1] = e
  OBVIOUS
<1> HIDE DEF a, b
<1>5. /\ c \in Seq(S) /\ Len(c) = i
      /\ \A k \in 1..i : c[k] = IF k < i THEN s[k] ELSE e
  <2>1. /\ c \in Seq(S) /\ Len(c) = Len(a) + 1
        /\ \A k \in 1..(Len(a) + 1) : c[k] = IF k <= Len(a) THEN a[k] ELSE <<e>>[k - Len(a)]
    BY <1>2, <1>4, ConcatProperties
  <2>2. \A k \in 1..i : c[k] = IF k <= i - 1 THEN a[k] ELSE <<e>>[k - (i - 1)]
    BY <1>2, <2>1
  <2>3. \A k \in 1..i : k < i => k \in 1..(i - 1) /\ k <= i - 1
    BY <1>1
  <2>4. \A k \in 1..i : ~(k < i) => k - (i - 1) = 1 /\ ~(k <= i - 1)
    BY <1>1
  <2> HIDE DEF c
  <2>5. \A k \in 1..i : c[k] = IF k < i THEN s[k] ELSE e
    BY <1>2, <1>4, <2>2, <2>3, <2>4
  <2> QED BY <1>1, <1>2, <2>1, <2>5
<1> HIDE DEF c
<1>6. /\ c \o b \in Seq(S) /\ Len(c \o b) = Len(c) + Len(b)
      /\ \A k \in 1..(Len(c) + Len(b)) :
            (c \o b)[k] = IF k <= Len(c) THEN c[k] ELSE b[k - Len(c)]
  BY <1>3, <1>5, ConcatProperties
<1>7. Len(c \o b) = Len(s) + 1
  BY <1>1, <1>3, <1>5, <1>6
<1>8. ASSUME NEW k \in 1..(Len(s) + 1)
      PROVE  (c \o b)[k] = IF k < i THEN s[k] ELSE IF k = i THEN e ELSE s[k - 1]
  <2>1. (c \o b)[k] = IF k <= i THEN c[k] ELSE b[k - i]
    BY <1>1, <1>3, <1>5, <1>6
  <2>2. CASE k <= i
    <3>1. k \in 1..i
      BY <1>1, <2>2
    <3> QED BY <1>1, <1>5, <2>1, <2>2, <3>1
  <2>3. CASE ~(k <= i)
    <3>1. k - i \in 1..(Len(s) + 1 - i) /\ i + (k - i) - 1 = k - 1 /\ ~(k < i) /\ k # i
      BY <1>1, <2>3
    <3> QED BY <1>3, <2>1, <2>3, <3>1
  <2> QED BY <2>2, <2>3
<1>9. InsertAt(s, i, e) = c \o b
  BY DEF InsertAt, a, b, c
<1> QED BY <1>6, <1>7, <1>8, <1>9

\* The elements of a sequence without the one at position i.
LEMMA RemoveAtProperties ==
  ASSUME NEW S, NEW s \in Seq(S), NEW i \in 1..Len(s)
  PROVE  /\ RemoveAt(s, i) \in Seq(S)
         /\ Len(RemoveAt(s, i)) = Len(s) - 1
         /\ \A k \in 1..(Len(s) - 1) : RemoveAt(s, i)[k] = IF k < i THEN s[k] ELSE s[k + 1]
<1> DEFINE a == SubSeq(s, 1, i - 1)
           b == SubSeq(s, i + 1, Len(s))
<1>1. Len(s) \in Nat /\ \A k \in 1..Len(s) : s[k] \in S
  BY LenProperties
<1>2. /\ a \in Seq(S) /\ Len(a) = i - 1
      /\ \A k \in 1..(i - 1) : a[k] = s[k]
  <2>1. \A k \in 1..(i - 1) : s[k] \in S
    BY <1>1
  <2> QED BY <1>1, <2>1, SubSeqProperties
<1>3. /\ b \in Seq(S) /\ Len(b) = Len(s) - i
      /\ \A k \in 1..(Len(s) - i) : b[k] = s[(i + 1) + k - 1]
  <2>1. \A k \in (i + 1)..Len(s) : s[k] \in S
    BY <1>1
  <2>2. i + 1 \in 1..(Len(s) + 1)
    BY <1>1
  <2> QED BY <1>1, <2>1, <2>2, SubSeqProperties
<1> HIDE DEF a, b
<1>4. /\ a \o b \in Seq(S) /\ Len(a \o b) = Len(a) + Len(b)
      /\ \A k \in 1..(Len(a) + Len(b)) :
            (a \o b)[k] = IF k <= Len(a) THEN a[k] ELSE b[k - Len(a)]
  BY <1>2, <1>3, ConcatProperties
<1>5. ASSUME NEW k \in 1..(Len(s) - 1)
      PROVE  (a \o b)[k] = IF k < i THEN s[k] ELSE s[k + 1]
  <2>1. (a \o b)[k] = IF k <= i - 1 THEN a[k] ELSE b[k - (i - 1)]
    BY <1>1, <1>2, <1>3, <1>4
  <2>2. CASE k < i
    <3>1. k \in 1..(i - 1) /\ k <= i - 1
      BY <1>1, <2>2
    <3> QED BY <1>2, <2>1, <2>2, <3>1
  <2>3. CASE ~(k < i)
    <3>1. k - (i - 1) \in 1..(Len(s) - i) /\ (i + 1) + (k - (i - 1)) - 1 = k + 1 /\ ~(k <= i - 1)
      BY <1>1, <2>3
    <3> QED BY <1>3, <2>1, <2>3, <3>1
  <2> QED BY <2>2, <2>3
<1>6. Len(a \o b) = Len(s) - 1
  BY <1>1, <1>2, <1>3, <1>4
<1>7. RemoveAt(s, i) = a \o b
  BY DEF RemoveAt, a, b
<1> QED BY <1>4, <1>5, <1>6, <1>7

\* Division with remainder.
LEMMA RemainderIs ==
  ASSUME NEW q \in Nat, NEW n \in Nat, NEW r \in Nat, r < n
  PROVE  (n * q + r) % n = r
  OBVIOUS

\* A step of n leaves the remainder by n as it is.
LEMMA ModShift ==
  ASSUME NEW x \in Nat, NEW n \in Nat, n > 0
  PROVE  (x + n) % n = x % n
<1>1. /\ x \div n \in Nat /\ x % n \in Nat /\ x % n < n
      /\ x = n * (x \div n) + (x % n)
  OBVIOUS
<1> DEFINE q == x \div n
           r == x % n
<1>2. q \in Nat /\ r \in Nat /\ r < n /\ x = n * q + r
  BY <1>1
<1> HIDE DEF q, r
<1>3. x + n = n * (q + 1) + r
  BY <1>2
<1>4. (n * (q + 1) + r) % n = r
  BY <1>2, RemainderIs
<1> QED BY <1>3, <1>4 DEF r

\* What a sequence contains with a new element, ...
LEMMA InsertContains ==
  ASSUME NEW S, NEW s \in Seq(S), NEW e \in S, NEW i \in 1..(Len(s) + 1), NEW u
  PROVE  Contains(InsertAt(s, i, e), u) <=> Contains(s, u) \/ u = e
<1> DEFINE r == InsertAt(s, i, e)
<1>1. Len(s) \in Nat
  BY LenProperties
<1>2. /\ Len(r) = Len(s) + 1
      /\ \A k \in 1..(Len(s) + 1) : r[k] = IF k < i THEN s[k] ELSE IF k = i THEN e ELSE s[k - 1]
  BY InsertAtProperties
<1> HIDE DEF r
<1>3. ASSUME Contains(r, u) PROVE Contains(s, u) \/ u = e
  <2>1. PICK k \in 1..(Len(s) + 1) : r[k] = u
    BY <1>2, <1>3 DEF Contains
  <2>2. CASE k < i
    <3>1. k \in 1..Len(s) /\ s[k] = u
      BY <1>1, <1>2, <2>1, <2>2
    <3> QED BY <3>1 DEF Contains
  <2>3. CASE k = i
    BY <1>2, <2>1, <2>3
  <2>4. CASE k > i
    <3>1. k - 1 \in 1..Len(s) /\ s[k - 1] = u
      BY <1>1, <1>2, <2>1, <2>4
    <3> QED BY <3>1 DEF Contains
  <2> QED BY <1>1, <2>2, <2>3, <2>4
<1>4. ASSUME Contains(s, u) PROVE Contains(r, u)
  <2>1. PICK k \in 1..Len(s) : s[k] = u
    BY <1>4 DEF Contains
  <2>2. CASE k < i
    <3>1. k \in 1..Len(r) /\ r[k] = u
      BY <1>1, <1>2, <2>1, <2>2
    <3> QED BY <3>1 DEF Contains
  <2>3. CASE ~(k < i)
    <3>1. k + 1 \in 1..Len(r) /\ ~(k + 1 < i) /\ k + 1 # i /\ (k + 1) - 1 = k
      BY <1>1, <1>2, <2>3
    <3>2. r[k + 1] = u
      BY <1>2, <2>1, <3>1
    <3> QED BY <3>1, <3>2 DEF Contains
  <2> QED BY <2>2, <2>3
<1>5. ASSUME u = e PROVE Contains(r, u)
  <2>1. i \in 1..Len(r) /\ r[i] = u
    BY <1>1, <1>2, <1>5
  <2> QED BY <2>1 DEF Contains
<1> QED BY <1>3, <1>4, <1>5 DEF r

\* ... and without one that occurs once.
LEMMA RemoveContains ==
  ASSUME NEW S, NEW s \in Seq(S), NEW i \in 1..Len(s), NEW u,
         \A j \in 1..Len(s) : s[j] = s[i] => j = i
  PROVE  Contains(RemoveAt(s, i), u) <=> Contains(s, u) /\ u # s[i]
<1> DEFINE r == RemoveAt(s, i)
<1>1. Len(s) \in Nat
  BY LenProperties
<1>2. /\ Len(r) = Len(s) - 1
      /\ \A k \in 1..(Len(s) - 1) : r[k] = IF k < i THEN s[k] ELSE s[k + 1]
  BY RemoveAtProperties
<1> HIDE DEF r
<1>3. ASSUME Contains(r, u) PROVE Contains(s, u) /\ u # s[i]
  <2>1. PICK k \in 1..(Len(s) - 1) : r[k] = u
    BY <1>2, <1>3 DEF Contains
  <2>2. PICK j \in 1..Len(s) : s[j] = u /\ j # i
    <3>1. CASE k < i
      <4>1. k \in 1..Len(s) /\ k # i
        BY <1>1, <3>1
      <4> QED BY <1>2, <2>1, <3>1, <4>1
    <3>2. CASE ~(k < i)
      <4>1. k + 1 \in 1..Len(s) /\ k + 1 # i
        BY <1>1, <3>2
      <4> QED BY <1>2, <2>1, <3>2, <4>1
    <3> QED BY <3>1, <3>2
  <2> QED BY <2>2 DEF Contains
<1>4. ASSUME Contains(s, u), u # s[i] PROVE Contains(r, u)
  <2>1. PICK k \in 1..Len(s) : s[k] = u /\ k # i
    BY <1>4 DEF Contains
  <2>2. CASE k < i
    <3>1. k \in 1..Len(r) /\ r[k] = u
      BY <1>1, <1>2, <2>1, <2>2
    <3> QED BY <3>1 DEF Contains
  <2>3. CASE ~(k < i)
    <3>1. k - 1 \in 1..(Len(s) - 1) /\ ~(k - 1 < i) /\ (k - 1) + 1 = k
      BY <1>1, <2>1, <2>3
    <3>2. k - 1 \in 1..Len(r) /\ r[k - 1] = u
      BY <1>2, <2>1, <3>1
    <3> QED BY <3>2 DEF Contains
  <2> QED BY <2>2, <2>3
<1> QED BY <1>3, <1>4 DEF r

\* The elements after the first.
LEMMA TailElements ==
  ASSUME NEW S, NEW s \in Seq(S), s # <<>>
  PROVE  /\ Head(s) \in S /\ Tail(s) \in Seq(S) /\ Len(s) \in Nat \ {0} /\ Len(Tail(s)) = Len(s) - 1
         /\ Head(s) = s[1] /\ \A k \in 1..(Len(s) - 1) : Tail(s)[k] = s[k + 1]
         /\ \A u : Contains(s, u) <=> u = Head(s) \/ Contains(Tail(s), u)
<1> DEFINE r == Tail(s)
<1>1. Len(s) \in Nat \ {0}
  BY LenProperties, EmptySeq
<1>2. /\ Head(s) \in S /\ r \in Seq(S) /\ Len(r) = Len(s) - 1
      /\ \A k \in 1..Len(r) : r[k] = s[k + 1]
  BY HeadTailProperties
<1>3. Head(s) = s[1]
  OBVIOUS
<1> HIDE DEF r
<1>4. ASSUME NEW u, Contains(s, u) PROVE u = Head(s) \/ Contains(r, u)
  <2>1. PICK k \in 1..Len(s) : s[k] = u
    BY <1>4 DEF Contains
  <2>2. CASE k = 1
    BY <1>3, <2>1, <2>2
  <2>3. CASE k # 1
    <3>1. k - 1 \in 1..Len(r) /\ (k - 1) + 1 = k
      BY <1>1, <1>2, <2>3
    <3>2. r[k - 1] = u
      BY <1>2, <2>1, <3>1
    <3> QED BY <3>1, <3>2 DEF Contains
  <2> QED BY <2>2, <2>3
<1>5. ASSUME NEW u, Contains(r, u) PROVE Contains(s, u)
  <2>1. PICK k \in 1..Len(r) : r[k] = u
    BY <1>5 DEF Contains
  <2>2. k + 1 \in 1..Len(s) /\ s[k + 1] = u
    BY <1>1, <1>2, <2>1
  <2> QED BY <2>2 DEF Contains
<1>6. Contains(s, Head(s))
  <2>1. 1 \in 1..Len(s)
    BY <1>1
  <2> QED BY <1>3, <2>1 DEF Contains
<1> QED BY <1>1, <1>2, <1>3, <1>4, <1>5, <1>6 DEF r

=============================================================================
