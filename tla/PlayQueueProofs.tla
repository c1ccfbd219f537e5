-------------------------- MODULE PlayQueueProofs --------------------------
(***************************************************************************)
(* Theorems about the play queue, for every set of tracks, every list and  *)
(* session file and every sequence of edits: the order stays a permutation *)
(* of the entries, its identity tells successive orders apart, the queue   *)
(* implements the list with a cursor of PlayOrder, and a pass visits what  *)
(* can be opened.                                                          *)
(***************************************************************************)
EXTENDS PlayQueue, FiniteSetTheorems, FunctionTheorems, SequenceTheorems,
        WellFoundedInduction, TLAPS

-----------------------------------------------------------------------------
(* Counting.                                                               *)

\* A set of numbers that has a member has a least one.
LEMMA LeastNumber ==
  ASSUME NEW P \in SUBSET Nat, P # {}
  PROVE  \E k \in P : \A j \in P : k <= j
<1>1. PICK k \in P : \A j \in P : <<j, k>> \notin OpToRel(<, Nat)
  BY NatLessThanWellFounded, WFMin
<1>2. \A j \in P : ~ (j < k)
  BY <1>1 DEF OpToRel
<1>. QED  BY <1>2

LEMMA FinitelyMany ==
  ASSUME NEW m \in Nat, NEW P \in SUBSET (1..m)
  PROVE  IsFiniteSet(P) /\ Cardinality(P) \in Nat
<1>1. IsFiniteSet(1..m)
  BY FS_Interval
<1>2. IsFiniteSet(P)
  BY <1>1, FS_Subset
<1>. QED  BY <1>2, FS_CardinalityType

\* The number a member of P gets is between 1 and the size of P.
LEMMA RankRange ==
  ASSUME NEW m \in Nat, NEW P \in SUBSET (1..m), NEW k \in P
  PROVE  Rank(P, k) \in 1..Cardinality(P)
<1>. DEFINE below == {j \in P : j <= k}
<1>1. IsFiniteSet(P)
  BY FinitelyMany
<1>2. IsFiniteSet(below) /\ Cardinality(below) <= Cardinality(P)
  <2>. below \in SUBSET P
    OBVIOUS
  <2>. QED  BY <1>1, FS_Subset
<1>3. Cardinality(below) \in Nat /\ Cardinality(P) \in Nat
  BY <1>1, <1>2, FS_CardinalityType
<1>4. below # {}
  <2>. k <= k
    OBVIOUS
  <2>. QED  OBVIOUS
<1>5. Cardinality(below) # 0
  BY <1>2, <1>4, FS_EmptySet
<1>. HIDE DEF below
<1>. QED  BY <1>2, <1>3, <1>5 DEF Rank, below

\* A later member gets a greater number.
LEMMA RankGrows ==
  ASSUME NEW m \in Nat, NEW P \in SUBSET (1..m), NEW j \in P, NEW k \in P, j < k
  PROVE  Rank(P, j) < Rank(P, k)
<1>. DEFINE low == {i \in P : i <= j}
            high == {i \in P : i <= k}
<1>1. IsFiniteSet(P)
  BY FinitelyMany
<1>2. high \in SUBSET P
  OBVIOUS
<1>3. low \in SUBSET high
  <2>1. \A i \in P : i <= j => i <= k
    BY SMT
  <2>. QED  BY <2>1
<1>4. low # high
  <2>1. k \in high /\ k \notin low
    BY SMT
  <2>. QED  BY <2>1
<1>. HIDE DEF low, high
<1>5. IsFiniteSet(high)
  BY <1>1, <1>2, FS_Subset
<1>6. /\ IsFiniteSet(low)
      /\ Cardinality(low) <= Cardinality(high)
      /\ Cardinality(high) # Cardinality(low)
  BY <1>3, <1>4, <1>5, FS_Subset
<1>7. Cardinality(low) \in Nat /\ Cardinality(high) \in Nat
  BY <1>5, <1>6, FS_CardinalityType
<1>8. Cardinality(low) < Cardinality(high)
  BY <1>6, <1>7
<1>. QED  BY <1>8 DEF Rank, low, high

\* Nth undoes Rank, and every number up to the size of P is given.
LEMMA NthOfRank ==
  ASSUME NEW m \in Nat, NEW P \in SUBSET (1..m)
  PROVE  /\ \A k \in P : Nth(P, Rank(P, k)) = k
         /\ \A n \in 1..Cardinality(P) : Nth(P, n) \in P /\ Rank(P, Nth(P, n)) = n
<1>. DEFINE f == [k \in P |-> Rank(P, k)]
            T == 1..Cardinality(P)
<1>1. IsFiniteSet(P)
  BY FinitelyMany
<1>2. Cardinality(P) \in Nat
  BY <1>1, FS_CardinalityType
<1>3. f \in [P -> T]
  BY RankRange
<1>4. \A j, k \in P : f[j] = f[k] => j = k
  <2>1. SUFFICES ASSUME NEW j \in P, NEW k \in P, j # k
                 PROVE  Rank(P, j) # Rank(P, k)
    OBVIOUS
  <2>2. j < k \/ k < j
    BY <2>1
  <2>3. Rank(P, j) < Rank(P, k) \/ Rank(P, k) < Rank(P, j)
    BY <2>2, RankGrows
  <2>4. Rank(P, j) \in Int /\ Rank(P, k) \in Int
    BY RankRange, <1>2
  <2>. QED  BY <2>3, <2>4
<1>5. IsFiniteSet(T) /\ Cardinality(T) = Cardinality(P)
  BY <1>2, FS_Interval
<1>. HIDE DEF T
<1>6. f \in Injection(P, T)
  <2>. HIDE DEF f
  <2>. QED  BY <1>3, <1>4, Fun_IsInj
<1>7. f \in Surjection(P, T)
  <2>. HIDE DEF f
  <2>. QED  BY <1>5, <1>6, FS_Injection
<1>8. \A n \in T : \E k \in P : f[k] = n
  <2>. HIDE DEF f
  <2>. QED  BY <1>7, Fun_SurjectionProperties
<1>9. \A k \in P : Nth(P, Rank(P, k)) = k
  BY <1>4 DEF Nth
<1>10. \A n \in T : Nth(P, n) \in P /\ Rank(P, Nth(P, n)) = n
  BY <1>8 DEF Nth
<1>. QED  BY <1>9, <1>10 DEF T

\* A one-to-one map of 1..n into itself is onto.
LEMMA OrderIsOnto ==
  ASSUME NEW n \in Nat, NEW p \in Orders(n)
  PROVE  \A k \in 1..n : \E j \in 1..n : p[j] = k
<1>. DEFINE S == 1..n
<1>1. p \in [S -> S] /\ \A j, k \in S : p[j] = p[k] => j = k
  BY DEF Orders
<1>2. IsFiniteSet(S)
  BY FS_Interval
<1>. HIDE DEF S
<1>3. p \in Injection(S, S)
  BY <1>1, Fun_IsInj
<1>4. p \in Surjection(S, S)
  BY <1>2, <1>3, FS_Injection
<1>5. \A k \in S : \E j \in S : p[j] = k
  BY <1>4, Fun_SurjectionProperties
<1>. QED  BY <1>5 DEF S

-----------------------------------------------------------------------------
(* Lists and orders.                                                       *)

LEMMA OrderIsList ==
  ASSUME NEW n \in Nat, NEW p \in Orders(n)
  PROVE  /\ p \in Seq(1..n) /\ Len(p) = n /\ DOMAIN p = 1..n
         /\ \A k \in 1..n : p[k] \in 1..n
         /\ \A j, k \in 1..n : p[j] = p[k] => j = k
<1>1. p \in [1..n -> 1..n] /\ \A j, k \in 1..n : p[j] = p[k] => j = k
  BY DEF Orders
<1>. QED  BY <1>1, SMT

\* t goes into s behind the first `at` entries.
Inserted(s, at, t) == SubSeq(s, 1, at) \o t \o SubSeq(s, at + 1, Len(s))

\* Where the entries of s and t are then.
LEMMA InsertedIn ==
  ASSUME NEW S, NEW s \in Seq(S), NEW t \in Seq(S), NEW at \in 0..Len(s)
  PROVE  LET r == Inserted(s, at, t) IN
         /\ r \in Seq(S) /\ Len(r) = Len(s) + Len(t)
         /\ \A i \in 1..(Len(s) + Len(t)) :
              r[i] = IF i <= at THEN s[i]
                     ELSE IF i <= at + Len(t) THEN t[i - at]
                     ELSE s[i - Len(t)]
<1>. DEFINE r == Inserted(s, at, t)
            front == SubSeq(s, 1, at)
            back == SubSeq(s, at + 1, Len(s))
            start == front \o t
<1>1. Len(s) \in Nat /\ Len(t) \in Nat /\ at \in Nat /\ at <= Len(s)
  BY LenProperties
<1>2. \A i \in 1..Len(s) : s[i] \in S
  BY ElementOfSeq
<1>3. /\ front \in Seq(S) /\ Len(front) = at
      /\ \A i \in 1..at : front[i] = s[i]
  <2>1. \A i \in 1..at : s[i] \in S
    BY <1>1, <1>2
  <2>2. /\ front \in Seq(S) /\ Len(front) = IF 1 <= at THEN at - 1 + 1 ELSE 0
        /\ \A i \in 1..(at - 1 + 1) : front[i] = s[1 + i - 1]
    BY <1>1, <2>1, SubSeqProperties
  <2>. QED  BY <1>1, <2>2
<1>4. /\ back \in Seq(S) /\ Len(back) = Len(s) - at
      /\ \A i \in 1..(Len(s) - at) : back[i] = s[at + i]
  <2>1. \A i \in (at + 1)..Len(s) : s[i] \in S
    BY <1>1, <1>2
  <2>2. at + 1 \in Int /\ Len(s) \in Int
    BY <1>1
  <2>3. /\ back \in Seq(S)
        /\ Len(back) = IF at + 1 <= Len(s) THEN Len(s) - (at + 1) + 1 ELSE 0
        /\ \A i \in 1..(Len(s) - (at + 1) + 1) : back[i] = s[at + 1 + i - 1]
    BY <2>1, <2>2, SubSeqProperties
  <2>. QED  BY <1>1, <2>3
<1>. HIDE DEF front, back
<1>5. /\ start \in Seq(S) /\ Len(start) = at + Len(t)
      /\ \A i \in 1..(at + Len(t)) : start[i] = IF i <= at THEN front[i] ELSE t[i - at]
  BY <1>3, ConcatProperties
<1>. HIDE DEF start
<1>6. r = start \o back
  BY DEF Inserted, start, front, back
<1>. HIDE DEF r
<1>7. /\ r \in Seq(S) /\ Len(r) = Len(start) + Len(back)
      /\ \A i \in 1..(Len(start) + Len(back)) :
           r[i] = IF i <= Len(start) THEN start[i] ELSE back[i - Len(start)]
  <2>1. start \in Seq(S) /\ back \in Seq(S)
    BY <1>4, <1>5
  <2>. QED  BY <1>6, <2>1, ConcatProperties, ZenonT(30)
<1>8. Len(r) = Len(s) + Len(t)
  <2>1. Len(start) = at + Len(t) /\ Len(back) = Len(s) - at
    BY <1>4, <1>5
  <2>2. Len(r) = Len(start) + Len(back)
    BY <1>7
  <2>3. Len(start) + Len(back) = Len(s) + Len(t)
    BY <1>1, <2>1
  <2>. QED  BY <2>2, <2>3, Zenon
<1>9. ASSUME NEW i \in 1..(Len(s) + Len(t))
      PROVE  r[i] = IF i <= at THEN s[i]
                    ELSE IF i <= at + Len(t) THEN t[i - at]
                    ELSE s[i - Len(t)]
  <2>1. Len(start) = at + Len(t) /\ Len(back) = Len(s) - at
    BY <1>4, <1>5
  <2>2. i \in 1..(Len(start) + Len(back)) /\ i \in Nat
    BY <1>1, <2>1
  <2>3. r[i] = IF i <= at + Len(t) THEN start[i] ELSE back[i - (at + Len(t))]
    BY <1>7, <2>1, <2>2, Zenon
  <2>4. i <= at \/ (at < i /\ i <= at + Len(t)) \/ at + Len(t) < i
    BY <1>1, <2>2
  <2>5. CASE i <= at
    <3>1. i \in 1..at /\ i \in 1..(at + Len(t)) /\ i <= at + Len(t)
      BY <1>1, <2>2, <2>5
    <3>2. start[i] = front[i] /\ front[i] = s[i]
      BY <1>3, <1>5, <2>5, <3>1, Zenon
    <3>. QED  BY <2>3, <2>5, <3>1, <3>2, Zenon
  <2>6. CASE at < i /\ i <= at + Len(t)
    <3>1. i \in 1..(at + Len(t)) /\ ~ (i <= at)
      BY <1>1, <2>2, <2>6
    <3>2. start[i] = t[i - at]
      BY <1>5, <3>1, Zenon
    <3>. QED  BY <2>3, <2>6, <3>1, <3>2, Zenon
  <2>7. CASE at + Len(t) < i
    <3>1. /\ i - (at + Len(t)) \in 1..(Len(s) - at)
          /\ ~ (i <= at) /\ ~ (i <= at + Len(t))
      BY <1>1, <2>2, <2>7
    <3>2. back[i - (at + Len(t))] = s[at + (i - (at + Len(t)))]
      BY <1>4, <3>1, Zenon
    <3>3. at + (i - (at + Len(t))) = i - Len(t)
      BY <1>1, <2>2
    <3>. QED  BY <2>3, <3>1, <3>2, <3>3, Zenon
  <2>. QED  BY <2>4, <2>5, <2>6, <2>7, Zenon
<1>. QED  BY <1>7, <1>8, <1>9, Zenon DEF r

\* Where the entry at i was before the one at `from` moved to `to`.
Origin(from, to, i) ==
  IF i = to THEN from
  ELSE IF from <= i /\ i < to THEN i + 1
  ELSE IF to < i /\ i <= from THEN i - 1
  ELSE i

LEMMA OriginIsOneToOne ==
  ASSUME NEW n \in Nat, NEW from \in 1..n, NEW to \in 1..n
  PROVE  /\ \A i \in 1..n : Origin(from, to, i) \in 1..n
         /\ \A i, j \in 1..n : Origin(from, to, i) = Origin(from, to, j) => i = j
  BY SMT DEF Origin

\* The entry at `from` moves to `to`.
MovedTo(s, from, to) == InsertAt(RemoveAt(s, from), to, s[from])

LEMMA MovedIn ==
  ASSUME NEW S, NEW s \in Seq(S), NEW from \in 1..Len(s), NEW to \in 1..Len(s)
  PROVE  LET r == MovedTo(s, from, to) IN
         /\ r \in Seq(S) /\ Len(r) = Len(s)
         /\ \A i \in 1..Len(s) : r[i] = s[Origin(from, to, i)]
<1>. DEFINE r == MovedTo(s, from, to)
            rest == RemoveAt(s, from)
            one == <<s[from]>>
<1>1. Len(s) \in Nat /\ \A i \in 1..Len(s) : s[i] \in S
  BY LenProperties, ElementOfSeq
<1>2. one \in Seq(S) /\ Len(one) = 1 /\ one[1] = s[from]
  BY <1>1, SMT
<1>3. /\ rest \in Seq(S) /\ Len(rest) = Len(s) - 1
      /\ \A i \in 1..(Len(s) - 1) : rest[i] = IF i < from THEN s[i] ELSE s[i + 1]
  <2>. DEFINE front == SubSeq(s, 1, from - 1)
              back == SubSeq(s, from + 1, Len(s))
  <2>1. /\ front \in Seq(S) /\ Len(front) = from - 1
        /\ \A i \in 1..(from - 1) : front[i] = s[i]
    <3>1. \A i \in 1..(from - 1) : s[i] \in S
      BY <1>1
    <3>2. 1 \in Int /\ from - 1 \in Int
      BY <1>1
    <3>3. /\ front \in Seq(S)
          /\ Len(front) = IF 1 <= from - 1 THEN (from - 1) - 1 + 1 ELSE 0
          /\ \A i \in 1..((from - 1) - 1 + 1) : front[i] = s[1 + i - 1]
      BY <3>1, <3>2, SubSeqProperties
    <3>. QED  BY <1>1, <3>3
  <2>2. /\ back \in Seq(S) /\ Len(back) = Len(s) - from
        /\ \A i \in 1..(Len(s) - from) : back[i] = s[from + i]
    <3>1. \A i \in (from + 1)..Len(s) : s[i] \in S
      BY <1>1
    <3>2. from + 1 \in Int /\ Len(s) \in Int
      BY <1>1
    <3>3. /\ back \in Seq(S)
          /\ Len(back) = IF from + 1 <= Len(s) THEN Len(s) - (from + 1) + 1 ELSE 0
          /\ \A i \in 1..(Len(s) - (from + 1) + 1) : back[i] = s[from + 1 + i - 1]
      BY <3>1, <3>2, SubSeqProperties
    <3>. QED  BY <1>1, <3>3
  <2>. HIDE DEF front, back
  <2>3. /\ front \o back \in Seq(S) /\ Len(front \o back) = Len(front) + Len(back)
        /\ \A i \in 1..(Len(front) + Len(back)) :
             (front \o back)[i] = IF i <= Len(front) THEN front[i]
                                  ELSE back[i - Len(front)]
    BY <2>1, <2>2, ConcatProperties
  <2>4. rest = front \o back
    BY DEF RemoveAt, front, back
  <2>. HIDE DEF rest
  <2>5. rest \in Seq(S) /\ Len(rest) = Len(s) - 1
    <3>1. Len(front) = from - 1 /\ Len(back) = Len(s) - from
      BY <2>1, <2>2
    <3>2. Len(front) + Len(back) = Len(s) - 1
      BY <1>1, <3>1
    <3>. QED  BY <2>3, <2>4, <3>2, Zenon
  <2>6. ASSUME NEW i \in 1..(Len(s) - 1)
        PROVE  rest[i] = IF i < from THEN s[i] ELSE s[i + 1]
    <3>1. rest[i] = IF i <= from - 1 THEN front[i] ELSE back[i - (from - 1)]
      BY <1>1, <2>1, <2>2, <2>3, <2>4
    <3>2. CASE i < from
      BY <1>1, <2>1, <3>1, <3>2
    <3>3. CASE from <= i
      <4>1. i - (from - 1) \in 1..(Len(s) - from)
        BY <1>1, <3>3
      <4>2. back[i - (from - 1)] = s[from + (i - (from - 1))]
        BY <2>2, <4>1
      <4>3. from + (i - (from - 1)) = i + 1
        BY <1>1
      <4>. QED  BY <1>1, <3>1, <3>3, <4>2, <4>3
    <3>. QED  BY <1>1, <3>2, <3>3
  <2>. QED  BY <2>5, <2>6
<1>. HIDE DEF rest, one
<1>4. r = Inserted(rest, to - 1, one)
  <2>1. (to - 1) + 1 = to
    OBVIOUS
  <2>. QED  BY <2>1, Zenon DEF MovedTo, InsertAt, Inserted, rest, one
<1>. HIDE DEF r
<1>5. to - 1 \in 0..Len(rest) /\ rest \in Seq(S) /\ one \in Seq(S)
  BY <1>1, <1>2, <1>3
<1>6. /\ r \in Seq(S) /\ Len(r) = Len(rest) + Len(one)
      /\ \A i \in 1..(Len(rest) + Len(one)) :
           r[i] = IF i <= to - 1 THEN rest[i]
                  ELSE IF i <= to - 1 + Len(one) THEN one[i - (to - 1)]
                  ELSE rest[i - Len(one)]
  <2>1. PICK at \in 0..Len(rest) : at = to - 1
    BY <1>5
  <2>2. LET q == Inserted(rest, at, one) IN
        /\ q \in Seq(S) /\ Len(q) = Len(rest) + Len(one)
        /\ \A i \in 1..(Len(rest) + Len(one)) :
             q[i] = IF i <= at THEN rest[i]
                    ELSE IF i <= at + Len(one) THEN one[i - at]
                    ELSE rest[i - Len(one)]
    BY <1>5, InsertedIn
  <2>3. r = Inserted(rest, at, one)
    BY <1>4, <2>1
  <2>. QED  BY <2>1, <2>2, <2>3, Zenon
<1>7. Len(r) = Len(s)
  BY <1>1, <1>2, <1>3, <1>6
<1>8. ASSUME NEW i \in 1..Len(s)
      PROVE  r[i] = s[Origin(from, to, i)]
  <2>1. r[i] = IF i < to THEN rest[i] ELSE IF i = to THEN one[1] ELSE rest[i - 1]
    BY <1>1, <1>2, <1>3, <1>6
  <2>2. CASE i < to
    <3>1. rest[i] = IF i < from THEN s[i] ELSE s[i + 1]
      BY <1>1, <1>3, <2>2
    <3>. QED  BY <1>1, <2>1, <2>2, <3>1 DEF Origin
  <2>3. CASE i = to
    BY <1>2, <2>1, <2>3 DEF Origin
  <2>4. CASE to < i
    <3>1. rest[i - 1] = IF i - 1 < from THEN s[i - 1] ELSE s[i - 1 + 1]
      BY <1>1, <1>3, <2>4
    <3>2. i - 1 + 1 = i
      OBVIOUS
    <3>. QED  BY <1>1, <2>1, <2>4, <3>1, <3>2 DEF Origin
  <2>. QED  BY <1>1, <2>2, <2>3, <2>4
<1>. QED  BY <1>6, <1>7, <1>8, Zenon DEF r

LEMMA FunctionIsList ==
  ASSUME NEW S, NEW n \in Nat, NEW f \in [1..n -> S]
  PROVE  f \in Seq(S) /\ Len(f) = n
  BY SMT

\* The numbers of m new entries behind n old ones.
Fresh(n, m) == [k \in 1..m |-> n + k]

\* New entries, numbered behind the old ones, leave the order a permutation.
LEMMA InsertedOrder ==
  ASSUME NEW n \in Nat, NEW p \in Orders(n), NEW m \in Nat, NEW at \in 0..n
  PROVE  LET r == Inserted(p, at, Fresh(n, m)) IN
         /\ r \in Orders(n + m)
         /\ \A i \in 1..(n + m) :
              r[i] = IF i <= at THEN p[i]
                     ELSE IF i <= at + m THEN n + (i - at)
                     ELSE p[i - m]
<1>. DEFINE S == 1..(n + m)
            t == Fresh(n, m)
            r == Inserted(p, at, t)
<1>1. t \in [1..m -> S] /\ \A k \in 1..m : t[k] = n + k
  BY DEF Fresh
<1>. HIDE DEF t
<1>2. t \in Seq(S) /\ Len(t) = m
  BY <1>1, FunctionIsList
<1>3. p \in [1..n -> S] /\ p \in [1..n -> 1..n]
  BY DEF Orders
<1>4. p \in Seq(S) /\ Len(p) = n
  BY <1>3, FunctionIsList
<1>5. \A j, k \in 1..n : p[j] = p[k] => j = k
  BY DEF Orders
<1>. HIDE DEF S
<1>6. /\ r \in Seq(S) /\ Len(r) = n + m
      /\ \A i \in 1..(n + m) :
           r[i] = IF i <= at THEN p[i] ELSE IF i <= at + m THEN t[i - at] ELSE p[i - m]
  <2>1. at \in 0..Len(p)
    BY <1>4
  <2>2. /\ r \in Seq(S) /\ Len(r) = Len(p) + Len(t)
        /\ \A i \in 1..(Len(p) + Len(t)) :
             r[i] = IF i <= at THEN p[i]
                    ELSE IF i <= at + Len(t) THEN t[i - at]
                    ELSE p[i - Len(t)]
    BY <1>2, <1>4, <2>1, InsertedIn
  <2>. HIDE DEF r
  <2>. QED  BY <1>2, <1>4, <2>2, Zenon
<1>. HIDE DEF r
<1>7. r \in [1..(n + m) -> S]
  BY <1>6, LenProperties
<1>8. ASSUME NEW i \in 1..(n + m)
      PROVE  r[i] = IF i <= at THEN p[i] ELSE IF i <= at + m THEN n + (i - at)
                    ELSE p[i - m]
  <2>1. at < i /\ i <= at + m => t[i - at] = n + (i - at)
    <3>1. at < i /\ i <= at + m => i - at \in 1..m
      OBVIOUS
    <3>. QED  BY <1>1, <3>1
  <2>. QED  BY <1>6, <2>1
<1>9. ASSUME NEW i \in 1..(n + m), NEW j \in 1..(n + m), r[i] = r[j]
      PROVE  i = j
  <2>1. /\ i <= at => i \in 1..n /\ p[i] \in 1..n
        /\ j <= at => j \in 1..n /\ p[j] \in 1..n
        /\ at + m < i => i - m \in 1..n /\ p[i - m] \in 1..n
        /\ at + m < j => j - m \in 1..n /\ p[j - m] \in 1..n
    BY <1>3
  <2>2. /\ r[i] = IF i <= at THEN p[i] ELSE IF i <= at + m THEN n + (i - at)
                  ELSE p[i - m]
        /\ r[j] = IF j <= at THEN p[j] ELSE IF j <= at + m THEN n + (j - at)
                  ELSE p[j - m]
    BY <1>8
  <2>3. (i <= at \/ (at < i /\ i <= at + m) \/ at + m < i)
        /\ (j <= at \/ (at < j /\ j <= at + m) \/ at + m < j)
    OBVIOUS
  <2>4. /\ i <= at => r[i] \in 1..n
        /\ at < i /\ i <= at + m => r[i] = n + (i - at)
        /\ at + m < i => r[i] \in 1..n
        /\ j <= at => r[j] \in 1..n
        /\ at < j /\ j <= at + m => r[j] = n + (j - at)
        /\ at + m < j => r[j] \in 1..n
    BY <2>1, <2>2, SMTT(30)
  <2>5. CASE at < i /\ i <= at + m
    BY <1>9, <2>3, <2>4, <2>5, SMTT(30)
  <2>6. CASE i <= at \/ at + m < i
    <3>. DEFINE u == IF i <= at THEN i ELSE i - m
                v == IF j <= at THEN j ELSE j - m
    <3>1. j <= at \/ at + m < j
      BY <1>9, <2>3, <2>4, <2>6, SMTT(30)
    <3>2. u \in 1..n /\ v \in 1..n /\ (u = v => i = j)
      BY <2>6, <3>1
    <3>3. r[i] = p[u] /\ r[j] = p[v]
      BY <2>2, <2>6, <3>1
    <3>. HIDE DEF u, v
    <3>4. u = v
      BY <1>5, <1>9, <3>2, <3>3, Zenon
    <3>. QED  BY <3>2, <3>4
  <2>. QED  BY <2>3, <2>5, <2>6
<1>10. r \in Orders(n + m)
  BY <1>7, <1>9 DEF Orders, S
<1>. QED  BY <1>8, <1>10 DEF r, t

\* Moving an entry leaves the order a permutation.
LEMMA MovedOrder ==
  ASSUME NEW n \in Nat, NEW p \in Orders(n), NEW from \in 1..n, NEW to \in 1..n
  PROVE  LET q == MovedTo(p, from, to) IN
         /\ q \in Orders(n)
         /\ \A i \in 1..n : q[i] = p[Origin(from, to, i)]
<1>. DEFINE S == 1..n
            q == MovedTo(p, from, to)
<1>1. p \in Seq(S) /\ Len(p) = n /\ \A j, k \in 1..n : p[j] = p[k] => j = k
  BY OrderIsList
<1>2. from \in 1..Len(p) /\ to \in 1..Len(p)
  BY <1>1
<1>. HIDE DEF S
<1>3. /\ q \in Seq(S) /\ Len(q) = Len(p)
      /\ \A i \in 1..Len(p) : q[i] = p[Origin(from, to, i)]
  BY <1>1, <1>2, MovedIn
<1>. HIDE DEF q
<1>4. \A i \in 1..n : q[i] = p[Origin(from, to, i)]
  BY <1>1, <1>3, Zenon
<1>5. q \in [1..n -> S]
  <2>1. q \in [1..Len(q) -> S]
    BY <1>3, LenProperties
  <2>. QED  BY <1>1, <1>3, <2>1, Zenon
<1>6. ASSUME NEW i \in 1..n, NEW j \in 1..n, q[i] = q[j]
      PROVE  i = j
  <2>1. /\ Origin(from, to, i) \in 1..n /\ Origin(from, to, j) \in 1..n
        /\ Origin(from, to, i) = Origin(from, to, j) => i = j
    BY OriginIsOneToOne
  <2>2. p[Origin(from, to, i)] = p[Origin(from, to, j)]
    BY <1>4, <1>6
  <2>. QED  BY <1>1, <2>1, <2>2 DEF S
<1>. QED  BY <1>4, <1>5, <1>6 DEF Orders, S, q

\* The positions and the numbers of the entries left when those at some positions go.
KeptPositions(n, gone) == 1..n \ gone
KeptNumbers(n, p, gone) == 1..n \ {p[k] : k \in gone}

\* The entries left after a removal, renumbered, are in a permutation again.
LEMMA KeptOrder ==
  ASSUME NEW n \in Nat, NEW p \in Orders(n), NEW gone \in SUBSET (1..n)
  PROVE  LET left == KeptNumbers(n, p, gone)
             kept == KeptPositions(n, gone)
         IN
         /\ left \in SUBSET (1..n) /\ kept \in SUBSET (1..n)
         /\ Cardinality(left) = Cardinality(kept)
         /\ [m \in 1..Cardinality(kept) |-> Rank(left, p[Nth(kept, m)])]
              \in Orders(Cardinality(left))
         /\ \A k \in kept : p[k] \in left
<1>. DEFINE left == KeptNumbers(n, p, gone)
            kept == KeptPositions(n, gone)
<1>1. /\ \A k \in 1..n : p[k] \in 1..n
      /\ \A j, k \in 1..n : p[j] = p[k] => j = k
      /\ \A k \in 1..n : \E j \in 1..n : p[j] = k
  <2>1. \A k \in 1..n : \E j \in 1..n : p[j] = k
    BY OrderIsOnto
  <2>2. /\ \A k \in 1..n : p[k] \in 1..n
        /\ \A j, k \in 1..n : p[j] = p[k] => j = k
    BY OrderIsList
  <2>. QED  BY <2>1, <2>2
<1>2. left \in SUBSET (1..n) /\ kept \in SUBSET (1..n)
  BY DEF KeptNumbers, KeptPositions
<1>3. \A k \in kept : p[k] \in left
  BY <1>1 DEF KeptNumbers, KeptPositions
<1>4. \A x \in left : \E k \in kept : p[k] = x
  BY <1>1 DEF KeptNumbers, KeptPositions
<1>. HIDE DEF left, kept
<1>5. IsFiniteSet(kept)
  BY <1>2, FinitelyMany
<1>6. Cardinality(left) = Cardinality(kept)
  <2>. DEFINE f == [k \in kept |-> p[k]]
  <2>1. f \in [kept -> left]
    BY <1>3
  <2>2. \A j, k \in kept : f[j] = f[k] => j = k
    BY <1>1, <1>2
  <2>3. \A x \in left : \E k \in kept : f[k] = x
    BY <1>4
  <2>. HIDE DEF f
  <2>4. f \in Bijection(kept, left)
    BY <2>1, <2>2, <2>3, Fun_IsBij
  <2>5. ExistsBijection(kept, left)
    BY <2>4, Fun_ExistsBij
  <2>. QED  BY <1>5, <2>5, FS_Bijection
<1>. DEFINE c == Cardinality(kept)
            q == [m \in 1..c |-> Rank(left, p[Nth(kept, m)])]
<1>. HIDE DEF c
<1>7. \A m \in 1..c : Nth(kept, m) \in kept /\ Rank(kept, Nth(kept, m)) = m
  BY <1>2, NthOfRank DEF c
<1>8. \A x \in left : Rank(left, x) \in 1..c /\ Nth(left, Rank(left, x)) = x
  <2>1. \A x \in left : Rank(left, x) \in 1..Cardinality(left)
    BY <1>2, RankRange
  <2>2. \A x \in left : Nth(left, Rank(left, x)) = x
    BY <1>2, NthOfRank
  <2>. QED  BY <1>6, <2>1, <2>2 DEF c
<1>9. q \in [1..c -> 1..c]
  BY <1>3, <1>7, <1>8
<1>10. ASSUME NEW i \in 1..c, NEW j \in 1..c, q[i] = q[j]
      PROVE  i = j
  <2>1. p[Nth(kept, i)] \in left /\ p[Nth(kept, j)] \in left
    BY <1>3, <1>7
  <2>2. Rank(left, p[Nth(kept, i)]) = Rank(left, p[Nth(kept, j)])
    BY <1>10
  <2>3. p[Nth(kept, i)] = p[Nth(kept, j)]
    <3>1. /\ Nth(left, Rank(left, p[Nth(kept, i)])) = p[Nth(kept, i)]
          /\ Nth(left, Rank(left, p[Nth(kept, j)])) = p[Nth(kept, j)]
      BY <1>8, <2>1
    <3>. QED  BY <2>2, <3>1
  <2>4. Nth(kept, i) \in 1..n /\ Nth(kept, j) \in 1..n
    BY <1>2, <1>7
  <2>5. Nth(kept, i) = Nth(kept, j)
    BY <1>1, <2>3, <2>4
  <2>. QED  BY <1>7, <2>5, Zenon
<1>. HIDE DEF q
<1>11. q \in Orders(c)
  BY <1>9, <1>10 DEF Orders
<1>. QED  BY <1>2, <1>3, <1>6, <1>11 DEF q, c, left, kept

\* An entry is found at the position where it is, and nowhere else.
LEMMA PositionFound ==
  ASSUME NEW n \in Nat, NEW p \in Orders(n), NEW k \in 1..n
  PROVE  PositionOf(p[k], p) = k
<1>1. DOMAIN p = 1..n /\ \A j \in 1..n : p[j] = p[k] => j = k
  BY OrderIsList
<1>. QED  BY <1>1 DEF PositionOf

-----------------------------------------------------------------------------
(* The type invariant, operation by operation.                             *)

LEMMA TypeFacts ==
  ASSUME QueueTypeOK
  PROVE  /\ Len(ids) \in Nat
         /\ ids \in Seq(Track) /\ \A k \in 1..Len(ids) : ids[k] \in Track
         /\ order \in Orders(Len(ids)) /\ order \in Seq(1..Len(ids))
         /\ Len(order) = Len(ids) /\ DOMAIN order = 1..Len(ids) /\ DOMAIN ids = 1..Len(ids)
         /\ \A k \in 1..Len(ids) : order[k] \in 1..Len(ids)
         /\ pos \in 0..Len(ids)
<1>1. ids \in Seq(Track) /\ order \in Orders(Len(ids)) /\ pos \in 0..Len(ids)
  BY DEF QueueTypeOK
<1>2. Len(ids) \in Nat /\ DOMAIN ids = 1..Len(ids)
  BY <1>1, LenProperties
<1>3. \A k \in 1..Len(ids) : ids[k] \in Track
  BY <1>1, ElementOfSeq
<1>. QED  BY <1>1, <1>2, <1>3, OrderIsList

LEMMA LinearOrder ==
  ASSUME NEW n \in Nat
  PROVE  Linear(n) \in Orders(n)
  BY DEF Linear, Orders

\* The counter stays in its range, and moves.
LEMMA RevisionMoves ==
  ASSUME revision \in 0..(Revisions - 1), NoteSequenceChanged
  PROVE  revision' \in 0..(Revisions - 1) /\ revision' # revision
<1>1. Revisions \in Nat /\ Revisions >= 2 /\ revision \in Nat /\ revision < Revisions
  BY RevisionsWrap
<1>2. revision' = (revision + 1) % Revisions
  BY DEF NoteSequenceChanged
<1>3. CASE revision + 1 < Revisions
  <2>1. (revision + 1) % Revisions = revision + 1
    BY <1>1, <1>3
  <2>. QED  BY <1>1, <1>2, <1>3, <2>1
<1>4. CASE revision + 1 = Revisions
  <2>1. Revisions % Revisions = 0
    BY <1>1
  <2>. QED  BY <1>1, <1>2, <1>4, <2>1
<1>. QED  BY <1>1, <1>3, <1>4

LEMMA ForwardType ==
  ASSUME QueueTypeOK, NEW automatic \in BOOLEAN, NEW available
  PROVE  ForwardPosition(pos, automatic, available) \in 0..Len(ids)
<1>. DEFINE steps == {n \in 1..Len(order) : /\ pos + n <= Len(order) \/ repeat = "all"
                                            /\ ids[order[Around(pos + n)]] \in available}
            n == CHOOSE n \in steps : \A m \in steps : n <= m
<1>1. Len(order) = Len(ids) /\ Len(ids) \in Nat /\ pos \in 0..Len(ids)
  BY TypeFacts
<1>2. steps \in SUBSET Nat /\ \A m \in steps : m \in 1..Len(ids)
  BY <1>1
<1>3. ForwardPosition(pos, automatic, available) \in {0, pos}
      \/ (steps # {} /\ pos # 0 /\ ForwardPosition(pos, automatic, available) = Around(pos + n))
  BY DEF ForwardPosition
<1>4. CASE steps # {} /\ pos # 0
           /\ ForwardPosition(pos, automatic, available) = Around(pos + n)
  <2>. HIDE DEF steps
  <2>1. n \in steps
    BY <1>2, <1>4, LeastNumber
  <2>. HIDE DEF n
  <2>2. n \in 1..Len(ids) /\ pos \in 1..Len(ids)
    BY <1>1, <1>2, <1>4, <2>1
  <2>3. Around(pos + n) \in 1..Len(ids)
    BY <1>1, <2>2 DEF Around
  <2>. QED  BY <1>1, <1>4, <2>3
<1>. QED  BY <1>1, <1>3, <1>4

\* Playback and the settings touch one variable.
LEMMA PlayType ==
  ASSUME QueueTypeOK, Play
  PROVE  QueueTypeOK'
<1>1. /\ pos' \in 0..Len(ids)
      /\ UNCHANGED <<ids, order, repeat, shuffled, revision>>
  BY ForwardType DEF Play, AdvanceAuto, NextManual
<1>. QED  BY <1>1 DEF QueueTypeOK

LEMMA JumpType ==
  ASSUME QueueTypeOK, NEW position \in DOMAIN order, JumpTo(position)
  PROVE  QueueTypeOK'
<1>1. position \in 1..Len(ids) /\ Len(ids) \in Nat
  BY TypeFacts
<1>. QED  BY <1>1 DEF QueueTypeOK, JumpTo

LEMMA SetRepeatType ==
  ASSUME QueueTypeOK, NEW mode \in Repeats, SetRepeat(mode)
  PROVE  QueueTypeOK'
  BY DEF QueueTypeOK, SetRepeat

LEMMA SetTracksType ==
  ASSUME QueueTypeOK, NEW tracks \in Lists, NEW start \in 1..(Len(tracks) + 1),
         SetTracks(tracks, start)
  PROVE  QueueTypeOK'
<1>. DEFINE n == Len(tracks)
            row == IF start > n THEN n ELSE start
<1>1. tracks \in Seq(Track) /\ n \in Nat
  BY ListsAreLists, LenProperties
<1>2. row \in 0..n /\ (n > 0 => 1 \in 0..n)
  BY <1>1
<1>3. ids' = tracks /\ order' \in Orders(n) /\ pos' \in 0..n
  BY <1>1, <1>2, LinearOrder DEF SetTracks
<1>4. revision' \in 0..(Revisions - 1) /\ UNCHANGED <<repeat, shuffled>>
  BY RevisionMoves DEF QueueTypeOK, SetTracks
<1>. QED  BY <1>1, <1>3, <1>4 DEF QueueTypeOK

LEMMA SetShuffleType ==
  ASSUME QueueTypeOK, NEW on \in BOOLEAN, SetShuffle(on)
  PROVE  QueueTypeOK'
<1>1. ids' = ids /\ order' \in Orders(Len(ids)) /\ pos' \in 0..Len(ids)
  <2>1. CASE on
    BY <2>1, TypeFacts DEF SetShuffle
  <2>2. CASE ~on
    <3>1. order' = Linear(Len(ids)) /\ ids' = ids /\ pos' = IF pos = 0 THEN 0 ELSE order[pos]
      BY <2>2 DEF SetShuffle
    <3>2. pos = 0 \/ order[pos] \in 1..Len(ids)
      BY TypeFacts
    <3>. QED  BY <3>1, <3>2, TypeFacts, LinearOrder
  <2>. QED  BY <2>1, <2>2
<1>2. revision' \in 0..(Revisions - 1) /\ repeat' = repeat /\ shuffled' \in BOOLEAN
  BY RevisionMoves DEF QueueTypeOK, SetShuffle
<1>. QED  BY <1>1, <1>2 DEF QueueTypeOK

\* A list of new entries goes into the order behind the first `at`.
LEMMA InsertType ==
  ASSUME QueueTypeOK, NEW tracks \in Batches, NEW at \in 0..Len(ids),
         ids' = ids \o tracks,
         order' = Inserted(order, at, Fresh(Len(ids), Len(tracks))),
         pos' \in 0..Len(ids) \/ pos' = at + 1,
         NoteSequenceChanged, UNCHANGED <<repeat, shuffled>>
  PROVE  QueueTypeOK'
<1>1. tracks \in Seq(Track) /\ tracks # <<>>
  BY BatchesAreTracks
<1>2. Len(tracks) \in Nat \ {0}
  BY <1>1, EmptySeq
<1>3. ids \in Seq(Track) /\ Len(ids) \in Nat /\ order \in Orders(Len(ids))
  BY TypeFacts
<1>4. ids \o tracks \in Seq(Track) /\ Len(ids \o tracks) = Len(ids) + Len(tracks)
  BY <1>1, <1>3, ConcatProperties
<1>5. order' \in Orders(Len(ids) + Len(tracks))
  BY <1>2, <1>3, InsertedOrder
<1>6. pos' \in 0..(Len(ids) + Len(tracks))
  BY <1>2, <1>3
<1>7. revision' \in 0..(Revisions - 1)
  BY RevisionMoves DEF QueueTypeOK
<1>8. Len(ids') = Len(ids) + Len(tracks) /\ ids' \in Seq(Track)
  BY <1>4
<1>. QED  BY <1>5, <1>6, <1>7, <1>8 DEF QueueTypeOK

LEMMA NewSlotsAreFresh ==
  ASSUME NEW tracks \in Batches
  PROVE  NewSlots(tracks) = Fresh(Len(ids), Len(tracks))
<1>1. DOMAIN tracks = 1..Len(tracks)
  BY BatchesAreTracks, LenProperties
<1>. QED  BY <1>1 DEF NewSlots, Fresh

\* Appending is inserting behind the last entry.
LEMMA AppendInserts ==
  ASSUME QueueTypeOK, NEW tracks \in Batches, AppendTracks(tracks)
  PROVE  order' = Inserted(order, Len(ids), Fresh(Len(ids), Len(tracks)))
<1>. DEFINE n == Len(ids)
            m == Len(tracks)
            new == Fresh(n, m)
<1>1. order' = order \o new
  BY NewSlotsAreFresh DEF AppendTracks
<1>2. order \in Seq(1..n) /\ n \in Nat /\ Len(order) = n
  BY TypeFacts
<1>3. m \in Nat
  BY BatchesAreTracks, LenProperties
<1>4. SubSeq(order, 1, n) = order
  BY <1>2, SubSeqFull
<1>5. SubSeq(order, n + 1, n) = <<>>
  BY <1>2, SubSeqEmpty
<1>6. order \o new \in Seq(1..(n + m))
  <2>1. new \in [1..m -> 1..(n + m)]
    BY <1>2, <1>3 DEF Fresh
  <2>. HIDE DEF new
  <2>2. new \in Seq(1..(n + m))
    BY <1>3, <2>1, FunctionIsList
  <2>3. 1..n \subseteq 1..(n + m)
    BY <1>2, <1>3
  <2>4. order \in Seq(1..(n + m))
    BY <1>2, <2>3, SeqMonotonic
  <2>. QED  BY <2>2, <2>4, ConcatProperties
<1>7. (order \o new) \o <<>> = order \o new
  BY <1>6, ConcatEmptySeq
<1>. QED  BY <1>1, <1>2, <1>4, <1>5, <1>7 DEF Inserted

LEMMA AppendType ==
  ASSUME QueueTypeOK, NEW tracks \in Batches, AppendTracks(tracks)
  PROVE  QueueTypeOK'
<1>1. order' = Inserted(order, Len(ids), Fresh(Len(ids), Len(tracks)))
  BY AppendInserts
<1>2. Len(ids) \in Nat /\ pos \in 0..Len(ids) /\ ids \in Seq(Track)
  BY TypeFacts
<1>3. pos' \in 0..Len(ids) \/ pos' = Len(ids) + 1
  <2>1. ids = <<>> => Len(ids) = 0
    BY EmptySeq
  <2>. QED  BY <1>2, <2>1 DEF AppendTracks
<1>4. Len(ids) \in 0..Len(ids)
  BY <1>2
<1>. QED  BY <1>1, <1>3, <1>4, InsertType DEF AppendTracks

LEMMA EnqueueInserts ==
  ASSUME QueueTypeOK, NEW tracks \in Batches, NEW placement, Enqueue(tracks, placement)
  PROVE  \E at \in 0..Len(ids) :
           /\ at = IF placement = "next" /\ pos # 0 THEN pos ELSE Len(ids)
           /\ order' = Inserted(order, at, Fresh(Len(ids), Len(tracks)))
           /\ pos' = IF pos = 0 THEN at + 1 ELSE pos
<1>1. Len(order) = Len(ids) /\ Len(ids) \in Nat /\ pos \in 0..Len(ids)
  BY TypeFacts
<1>2. PICK at \in 0..Len(ids) : at = IF placement = "next" /\ pos # 0 THEN pos ELSE Len(ids)
  BY <1>1
<1>3. order' = Inserted(order, at, Fresh(Len(ids), Len(tracks)))
  BY <1>1, <1>2, NewSlotsAreFresh DEF Enqueue, Inserted
<1>4. pos' = IF pos = 0 THEN at + 1 ELSE pos
  BY <1>1, <1>2 DEF Enqueue
<1>. QED  BY <1>2, <1>3, <1>4

LEMMA EnqueueType ==
  ASSUME QueueTypeOK, NEW tracks \in Batches, NEW placement, Enqueue(tracks, placement)
  PROVE  QueueTypeOK'
<1>1. PICK at \in 0..Len(ids) :
        /\ order' = Inserted(order, at, Fresh(Len(ids), Len(tracks)))
        /\ pos' = IF pos = 0 THEN at + 1 ELSE pos
  BY EnqueueInserts
<1>2. pos' \in 0..Len(ids) \/ pos' = at + 1
  BY <1>1, TypeFacts
<1>. QED  BY <1>1, <1>2, InsertType DEF Enqueue

LEMMA MovedIsMovedTo ==
  ASSUME NEW from, NEW to
  PROVE  Moved(from, to) = MovedTo(order, from, to)
  BY DEF Moved, MovedTo

LEMMA MoveItemType ==
  ASSUME QueueTypeOK, NEW from \in DOMAIN order, NEW to \in DOMAIN order, MoveItem(from, to)
  PROVE  QueueTypeOK'
<1>1. /\ Len(ids) \in Nat /\ order \in Orders(Len(ids)) /\ pos \in 0..Len(ids)
      /\ from \in 1..Len(ids) /\ to \in 1..Len(ids)
      /\ \A k \in 1..Len(ids) : order[k] \in 1..Len(ids)
  BY TypeFacts
<1>2. order' = MovedTo(order, from, to) /\ ids' = ids
  BY MovedIsMovedTo DEF MoveItem
<1>3. order' \in Orders(Len(ids))
  BY <1>1, <1>2, MovedOrder
<1>4. pos' \in 0..Len(ids)
  <2>1. CASE pos = 0
    BY <1>1, <2>1 DEF MoveItem
  <2>2. CASE pos # 0
    <3>1. order[pos] \in 1..Len(ids)
      BY <1>1, <2>2
    <3>2. PICK k \in 1..Len(ids) : order'[k] = order[pos]
      BY <1>1, <1>3, <3>1, OrderIsOnto
    <3>3. PositionOf(order'[k], order') = k
      BY <1>1, <1>3, PositionFound
    <3>. QED  BY <1>1, <2>2, <3>2, <3>3 DEF MoveItem
  <2>. QED  BY <2>1, <2>2
<1>5. revision' \in 0..(Revisions - 1) /\ UNCHANGED <<repeat, shuffled>>
  BY RevisionMoves DEF QueueTypeOK, MoveItem
<1>. QED  BY <1>2, <1>3, <1>4, <1>5 DEF QueueTypeOK

LEMMA PlayNowType ==
  ASSUME QueueTypeOK, NEW position \in DOMAIN order, PlayNow(position)
  PROVE  QueueTypeOK'
<1>1. /\ Len(ids) \in Nat /\ order \in Orders(Len(ids)) /\ pos \in 0..Len(ids)
      /\ position \in 1..Len(ids)
  BY TypeFacts
<1>2. /\ pos # 0 /\ pos < position /\ pos' = pos + 1
      /\ UNCHANGED <<ids, repeat, shuffled>>
  BY DEF PlayNow
<1>3. pos + 1 \in 1..Len(ids)
  BY <1>1, <1>2
<1>4. CASE position > pos + 1
  <2>1. order' = MovedTo(order, position, pos + 1) /\ NoteSequenceChanged
    BY <1>4, MovedIsMovedTo DEF PlayNow
  <2>2. order' \in Orders(Len(ids))
    BY <1>1, <1>3, <2>1, MovedOrder
  <2>3. revision' \in 0..(Revisions - 1)
    BY <2>1, RevisionMoves DEF QueueTypeOK
  <2>. QED  BY <1>1, <1>2, <1>3, <2>2, <2>3 DEF QueueTypeOK
<1>5. CASE ~(position > pos + 1)
  <2>1. UNCHANGED <<order, revision>>
    BY <1>5 DEF PlayNow
  <2>. QED  BY <1>1, <1>2, <1>3, <2>1 DEF QueueTypeOK
<1>. QED  BY <1>4, <1>5

\* What plays after a removal: nothing, when no entry is left from the playhead
\* on, and the first one left from there on otherwise.
LEMMA SuccessorFacts ==
  ASSUME QueueTypeOK, NEW gone \in SUBSET DOMAIN order
  PROVE  LET kept == KeptPositions(Len(ids), gone) IN
         \/ Successor(gone) = 0 /\ (pos = 0 \/ \A k \in kept : k < pos)
         \/ /\ Successor(gone) \in kept /\ pos # 0 /\ pos <= Successor(gone)
            /\ \A k \in kept : pos <= k => Successor(gone) <= k
<1>. DEFINE kept == KeptPositions(Len(ids), gone)
            ahead == {k \in pos..Len(order) : k \notin gone}
<1>1. Len(order) = Len(ids) /\ Len(ids) \in Nat /\ pos \in 0..Len(ids)
  BY TypeFacts
<1>2. CASE pos = 0
  BY <1>2 DEF Successor
<1>3. CASE pos # 0 /\ ahead = {}
  <2>1. Successor(gone) = 0
    BY <1>3 DEF Successor
  <2>2. ASSUME NEW k \in kept
        PROVE  k < pos
    <3>1. k \in 1..Len(ids) /\ k \notin ahead /\ k \notin gone
      BY <1>3 DEF KeptPositions
    <3>. QED  BY <1>1, <3>1
  <2>. QED  BY <2>1, <2>2
<1>4. CASE pos # 0 /\ ahead # {}
  <2>1. Successor(gone) = CHOOSE k \in ahead : \A j \in ahead : k <= j
    BY <1>4 DEF Successor
  <2>2. ahead \in SUBSET Nat
    BY <1>1
  <2>3. \A k \in ahead : k \in kept /\ pos <= k
    BY <1>1, <1>4 DEF KeptPositions
  <2>4. \A k \in kept : pos <= k => k \in ahead
    BY <1>1 DEF KeptPositions
  <2>. HIDE DEF ahead
  <2>5. Successor(gone) \in ahead /\ \A j \in ahead : Successor(gone) <= j
    BY <1>4, <2>1, <2>2, LeastNumber
  <2>. QED  BY <1>4, <2>3, <2>4, <2>5
<1>. QED  BY <1>2, <1>3, <1>4

\* What a removal leaves: the entries that stay, in their order, and the playhead
\* on the successor.
LEMMA RemovalResult ==
  ASSUME QueueTypeOK, NEW gone \in SUBSET DOMAIN order, RemoveOrderPositions(gone)
  PROVE  LET kept == KeptPositions(Len(ids), gone) IN
         /\ Cardinality(kept) \in Nat
         /\ ids' \in Seq(Track) /\ Len(ids') = Cardinality(kept)
         /\ order' \in Orders(Cardinality(kept))
         /\ \A n \in 1..Cardinality(kept) : ids'[order'[n]] = ids[order[Nth(kept, n)]]
         /\ pos' = IF Successor(gone) = 0 THEN 0 ELSE Rank(kept, Successor(gone))
<1>. DEFINE all == 1..Len(ids)
            left == KeptNumbers(Len(ids), order, gone)
            kept == KeptPositions(Len(ids), gone)
            next == Successor(gone)
            c == Cardinality(kept)
<1>1. /\ Len(ids) \in Nat /\ order \in Orders(Len(ids))
      /\ DOMAIN order = all /\ DOMAIN ids = all /\ \A k \in all : ids[k] \in Track
  BY TypeFacts
<1>2. gone \in SUBSET all
  BY <1>1
<1>3. /\ left \in SUBSET all /\ kept \in SUBSET all
      /\ Cardinality(left) = c
      /\ [m \in 1..Cardinality(kept) |-> Rank(left, order[Nth(kept, m)])]
           \in Orders(Cardinality(left))
      /\ \A k \in kept : order[k] \in left
  BY <1>1, <1>2, KeptOrder
<1>4. c \in Nat
  BY <1>1, <1>3, FinitelyMany
<1>5. /\ ids' = [n \in 1..Cardinality(left) |-> ids[Nth(left, n)]]
      /\ order' = [n \in 1..c |-> Rank(left, order[Nth(kept, n)])]
      /\ pos' = IF next = 0 THEN 0 ELSE PositionOf(Rank(left, order[next]), order')
  BY <1>1 DEF RemoveOrderPositions, KeptNumbers, KeptPositions
<1>. HIDE DEF left, kept
<1>6. /\ \A x \in left : Rank(left, x) \in 1..Cardinality(left)
      /\ \A x \in left : Nth(left, Rank(left, x)) = x
      /\ \A n \in 1..Cardinality(left) : Nth(left, n) \in left
  <2>1. \A x \in left : Rank(left, x) \in 1..Cardinality(left)
    BY <1>1, <1>3, RankRange
  <2>. QED  BY <1>1, <1>3, <2>1, NthOfRank
<1>7. /\ \A k \in kept : Rank(kept, k) \in 1..c /\ Nth(kept, Rank(kept, k)) = k
      /\ \A n \in 1..c : Nth(kept, n) \in kept
  <2>1. \A k \in kept : Rank(kept, k) \in 1..Cardinality(kept)
    BY <1>1, <1>3, RankRange
  <2>. QED  BY <1>1, <1>3, <2>1, NthOfRank
<1>8. next = 0 \/ next \in kept
  BY SuccessorFacts DEF kept
<1>. HIDE DEF next, c
<1>9. ids' \in [1..c -> Track]
  <2>1. \A n \in 1..c : ids[Nth(left, n)] \in Track
    BY <1>1, <1>3, <1>6
  <2>. QED  BY <1>3, <1>5, <2>1
<1>10. ids' \in Seq(Track) /\ Len(ids') = c
  BY <1>4, <1>9, FunctionIsList
<1>11. order' \in Orders(c)
  BY <1>3, <1>5 DEF c
<1>12. ASSUME NEW n \in 1..c
       PROVE  ids'[order'[n]] = ids[order[Nth(kept, n)]]
  <2>1. Nth(kept, n) \in kept
    BY <1>7
  <2>2. order[Nth(kept, n)] \in left
    BY <1>3, <2>1
  <2>3. order'[n] = Rank(left, order[Nth(kept, n)])
    BY <1>5
  <2>4. order'[n] \in 1..c /\ Nth(left, order'[n]) = order[Nth(kept, n)]
    BY <1>3, <1>6, <2>2, <2>3
  <2>5. ids'[order'[n]] = ids[Nth(left, order'[n])]
    BY <1>3, <1>5, <2>4
  <2>. QED  BY <2>4, <2>5
<1>13. pos' = IF next = 0 THEN 0 ELSE Rank(kept, next)
  <2>1. CASE next = 0
    BY <1>5, <2>1
  <2>2. CASE next # 0
    <3>1. next \in kept /\ Rank(kept, next) \in 1..c /\ Nth(kept, Rank(kept, next)) = next
      BY <1>7, <1>8, <2>2
    <3>2. order'[Rank(kept, next)] = Rank(left, order[next])
      BY <1>5, <3>1
    <3>3. PositionOf(order'[Rank(kept, next)], order') = Rank(kept, next)
      BY <1>4, <1>11, <3>1, PositionFound
    <3>. QED  BY <1>5, <2>2, <3>2, <3>3
  <2>. QED  BY <2>1, <2>2
<1>. QED  BY <1>4, <1>10, <1>11, <1>12, <1>13 DEF next, c, kept

LEMMA RemoveType ==
  ASSUME QueueTypeOK, NEW gone \in SUBSET DOMAIN order, RemoveOrderPositions(gone)
  PROVE  QueueTypeOK'
<1>. DEFINE kept == KeptPositions(Len(ids), gone)
            c == Cardinality(kept)
<1>1. /\ c \in Nat /\ ids' \in Seq(Track) /\ Len(ids') = c /\ order' \in Orders(c)
      /\ pos' = IF Successor(gone) = 0 THEN 0 ELSE Rank(kept, Successor(gone))
  BY RemovalResult
<1>2. pos' \in 0..c
  <2>1. Len(ids) \in Nat /\ kept \in SUBSET (1..Len(ids))
    BY TypeFacts DEF KeptPositions
  <2>2. Successor(gone) = 0 \/ Successor(gone) \in kept
    BY SuccessorFacts
  <2>. HIDE DEF kept
  <2>3. Successor(gone) = 0 \/ Rank(kept, Successor(gone)) \in 1..c
    BY <2>1, <2>2, RankRange
  <2>. QED  BY <1>1, <2>3
<1>3. revision' \in 0..(Revisions - 1) /\ UNCHANGED <<repeat, shuffled>>
  BY RevisionMoves DEF QueueTypeOK, RemoveOrderPositions
<1>. HIDE DEF c
<1>. QED  BY <1>1, <1>2, <1>3 DEF QueueTypeOK

LEMMA RestoreType ==
  ASSUME QueueTypeOK, NEW s \in Snapshots, RestoreSnapshot(s)
  PROVE  QueueTypeOK'
<1>1. /\ s.ids \in Seq(Track) /\ s.position \in Nat
      /\ s.repeat \in Repeats /\ s.shuffled \in BOOLEAN
  BY SnapshotsAreSnapshots
<1>2. s.order \in Orders(Len(s.ids)) /\ s.position \in 0..Len(s.ids)
  BY <1>1, LenProperties DEF RestoreSnapshot, IsValid
<1>3. /\ ids' = s.ids /\ order' = s.order /\ pos' = s.position
      /\ repeat' = s.repeat /\ shuffled' = s.shuffled
      /\ revision' \in 0..(Revisions - 1)
  BY RevisionMoves DEF QueueTypeOK, RestoreSnapshot
<1>. QED  BY <1>1, <1>2, <1>3 DEF QueueTypeOK

LEMMA RemovedPositions ==
  ASSUME NEW tracks
  PROVE  /\ PositionsOf(tracks) \in SUBSET DOMAIN order
         /\ PositionsOf(tracks) \ {pos} \in SUBSET DOMAIN order
  BY DEF PositionsOf

LEMMA EditType ==
  ASSUME QueueTypeOK, Edit
  PROVE  QueueTypeOK'
<1>1. ASSUME NEW tracks \in Batches, AppendTracks(tracks)
      PROVE  QueueTypeOK'
  BY <1>1, AppendType
<1>2. ASSUME NEW tracks \in Batches, NEW placement \in {"next", "last"},
             Enqueue(tracks, placement)
      PROVE  QueueTypeOK'
  BY <1>2, EnqueueType
<1>3. ASSUME NEW from \in DOMAIN order, NEW to \in DOMAIN order, MoveItem(from, to)
      PROVE  QueueTypeOK'
  BY <1>3, MoveItemType
<1>4. ASSUME NEW position \in DOMAIN order, PlayNow(position)
      PROVE  QueueTypeOK'
  BY <1>4, PlayNowType
<1>5. ASSUME NEW gone \in SUBSET DOMAIN order, RemoveOrderPositions(gone)
      PROVE  QueueTypeOK'
  BY <1>5, RemoveType
<1>6. ASSUME NEW tracks \in SUBSET Track, RemoveIds(tracks) \/ RemoveIdsExceptCurrent(tracks)
      PROVE  QueueTypeOK'
  BY <1>6, RemoveType, RemovedPositions DEF RemoveIds, RemoveIdsExceptCurrent
<1>. QED  BY <1>1, <1>2, <1>3, <1>4, <1>5, <1>6 DEF Edit

LEMMA StepType ==
  ASSUME QueueTypeOK, [Next]_queueVars
  PROVE  QueueTypeOK'
<1>1. ASSUME NEW tracks \in Lists, NEW start \in 1..(Len(tracks) + 1),
             SetTracks(tracks, start)
      PROVE  QueueTypeOK'
  BY <1>1, SetTracksType
<1>2. ASSUME NEW s \in Snapshots, RestoreSnapshot(s)
      PROVE  QueueTypeOK'
  BY <1>2, RestoreType
<1>3. ASSUME NEW mode \in Repeats, SetRepeat(mode)
      PROVE  QueueTypeOK'
  BY <1>3, SetRepeatType
<1>4. ASSUME NEW on \in BOOLEAN, SetShuffle(on)
      PROVE  QueueTypeOK'
  BY <1>4, SetShuffleType
<1>5. ASSUME NEW position \in DOMAIN order, JumpTo(position)
      PROVE  QueueTypeOK'
  BY <1>5, JumpType
<1>6. CASE Play
  BY <1>6, PlayType
<1>7. CASE Edit
  BY <1>7, EditType
<1>8. CASE UNCHANGED queueVars
  BY <1>8 DEF QueueTypeOK, queueVars
<1>. QED  BY <1>1, <1>2, <1>3, <1>4, <1>5, <1>6, <1>7, <1>8 DEF Next

LEMMA InitType == Init => QueueTypeOK
<1>1. ASSUME Init PROVE QueueTypeOK
  <2>1. ids = <<>> /\ order = <<>> /\ pos = 0
        /\ repeat = "off" /\ shuffled = FALSE /\ revision = 0
    BY <1>1 DEF Init
  <2>2. ids \in Seq(Track) /\ Len(ids) = 0
    BY <2>1, EmptySeq
  <2>3. order \in [1..0 -> 1..0]
    BY <2>1, SMT
  <2>4. order \in Orders(0)
    BY <2>3 DEF Orders
  <2>5. 0 \in 0..(Revisions - 1)
    BY RevisionsWrap
  <2>6. order \in Orders(Len(ids)) /\ pos \in 0..Len(ids)
    BY <2>1, <2>2, <2>4
  <2>7. repeat \in Repeats /\ shuffled \in BOOLEAN
    BY <2>1 DEF Repeats
  <2>. QED  BY <2>1, <2>2, <2>5, <2>6, <2>7 DEF QueueTypeOK
<1>. QED  BY <1>1

\* Whatever is loaded, moved, removed, shuffled or restored, in any order: the
\* order stays a permutation of the entries, and the playhead on an entry or
\* past the end.
THEOREM OrderStaysAPermutation == Spec => []QueueTypeOK
<1>1. QueueTypeOK /\ [Next]_queueVars => QueueTypeOK'
  BY StepType
<1>. QED  BY <1>1, InitType, PTL DEF Spec

-----------------------------------------------------------------------------
(* The identity of the order.                                              *)

LEMMA UnchangedOrder ==
  ASSUME UNCHANGED <<ids, order>>
  PROVE  InOrder' = InOrder
  BY DEF InOrder

\* A step either leaves the order and the entries alone or moves the counter.
LEMMA ChangesAreNoted ==
  ASSUME [Next]_queueVars
  PROVE  UNCHANGED <<ids, order>> \/ NoteSequenceChanged
<1>1. CASE Edit
  BY <1>1 DEF Edit, AppendTracks, Enqueue, MoveItem, PlayNow, RemoveIds,
              RemoveIdsExceptCurrent, RemoveOrderPositions
<1>2. CASE Play
  BY <1>2 DEF Play, AdvanceAuto, NextManual
<1>3. CASE UNCHANGED queueVars
  BY <1>3 DEF queueVars
<1>. QED  BY <1>1, <1>2, <1>3
          DEF Next, SetTracks, RestoreSnapshot, SetRepeat, SetShuffle, JumpTo

\* A view that kept an order under its identity is told of every other order
\* that follows it.
THEOREM NoOrderIsTakenForAnother == Spec => RevisionTellsOrders
<1>1. QueueTypeOK /\ [Next]_queueVars
        => [InOrder' # InOrder => revision' # revision]_queueVars
  BY UnchangedOrder, ChangesAreNoted, RevisionMoves DEF QueueTypeOK
<1>. QED  BY <1>1, OrderStaysAPermutation, PTL DEF Spec, RevisionTellsOrders

-----------------------------------------------------------------------------
(* The queue as the list it plays: every operation is one of PlayOrder.    *)

\* The entries q in the order p.
Played(q, p) == [k \in DOMAIN p |-> q[p[k]]]

LEMMA PlayedIsList ==
  ASSUME NEW S, NEW q \in Seq(S), NEW p \in Orders(Len(q))
  PROVE  LET list == Played(q, p) IN
         /\ list \in Seq(S) /\ Len(list) = Len(q) /\ DOMAIN list = 1..Len(q)
         /\ \A k \in 1..Len(q) : list[k] = q[p[k]]
<1>. DEFINE n == Len(q)
            list == Played(q, p)
<1>1. n \in Nat /\ \A k \in 1..n : q[k] \in S
  BY LenProperties, ElementOfSeq
<1>2. DOMAIN p = 1..n /\ \A k \in 1..n : p[k] \in 1..n
  BY <1>1, OrderIsList
<1>3. list \in [1..n -> S] /\ \A k \in 1..n : list[k] = q[p[k]]
  BY <1>1, <1>2 DEF Played
<1>. HIDE DEF list
<1>4. list \in Seq(S) /\ Len(list) = n /\ DOMAIN list = 1..n
  BY <1>1, <1>3, FunctionIsList
<1>. QED  BY <1>3, <1>4 DEF list

LEMMA ListFacts ==
  ASSUME QueueTypeOK
  PROVE  /\ InOrder \in Seq(Track) /\ Len(InOrder) = Len(ids) /\ DOMAIN InOrder = 1..Len(ids)
         /\ \A k \in 1..Len(ids) : InOrder[k] = ids[order[k]]
<1>1. InOrder = Played(ids, order)
  BY DEF InOrder, Played
<1>2. ids \in Seq(Track) /\ order \in Orders(Len(ids))
  BY TypeFacts
<1>. QED  BY <1>1, <1>2, PlayedIsList

\* How often t is in a list.
Occurrences(t, list) == Cardinality({k \in DOMAIN list : list[k] = t})

\* Every track is played from a permutation of a list as often as it is in it.
LEMMA PlayedCounts ==
  ASSUME NEW S, NEW q \in Seq(S), NEW p \in Orders(Len(q)), NEW t
  PROVE  Occurrences(t, Played(q, p)) = Occurrences(t, q)
<1>. DEFINE n == Len(q)
            list == Played(q, p)
            A == {k \in DOMAIN list : list[k] = t}
            B == {k \in DOMAIN q : q[k] = t}
            f == [k \in A |-> p[k]]
<1>1. n \in Nat /\ DOMAIN q = 1..n
  BY LenProperties
<1>2. DOMAIN list = 1..n /\ \A k \in 1..n : list[k] = q[p[k]]
  BY PlayedIsList
<1>3. /\ \A k \in 1..n : p[k] \in 1..n
      /\ \A j, k \in 1..n : p[j] = p[k] => j = k
      /\ \A k \in 1..n : \E j \in 1..n : p[j] = k
  BY <1>1, OrderIsList, OrderIsOnto
<1>. HIDE DEF list
<1>4. f \in [A -> B]
  BY <1>1, <1>2, <1>3
<1>5. \A j, k \in A : f[j] = f[k] => j = k
  BY <1>2, <1>3
<1>6. ASSUME NEW x \in B
      PROVE  \E k \in A : f[k] = x
  <2>1. x \in 1..n /\ q[x] = t
    BY <1>1
  <2>2. PICK k \in 1..n : p[k] = x
    BY <1>3, <2>1
  <2>3. k \in A
    BY <1>2, <2>1, <2>2
  <2>. QED  BY <2>2, <2>3
<1>7. IsFiniteSet(A)
  <2>1. A \in SUBSET (1..n)
    BY <1>2
  <2>. HIDE DEF A
  <2>. QED  BY <1>1, <2>1, FinitelyMany
<1>. HIDE DEF A, B, f
<1>8. f \in Bijection(A, B)
  BY <1>4, <1>5, <1>6, Fun_IsBij
<1>9. ExistsBijection(A, B)
  BY <1>8, Fun_ExistsBij
<1>10. Cardinality(A) = Cardinality(B)
  BY <1>7, <1>9, FS_Bijection
<1>. QED  BY <1>10 DEF Occurrences, A, B, list

\* The instance of PlayOrder counts and edits lists as this module does.
LEMMA AbstractCardinality ==
  ASSUME NEW S
  PROVE  Abstract!Cardinality(S) = Cardinality(S)
  BY DEF Abstract!Cardinality, Cardinality

LEMMA SameOccurrences ==
  ASSUME NEW s, NEW r, Len(s) = Len(r), \A t : Occurrences(t, s) = Occurrences(t, r)
  PROVE  Abstract!IsRearrangement(s, r)
<1>1. ASSUME NEW t
      PROVE  Abstract!Cardinality({k \in DOMAIN s : s[k] = t})
               = Abstract!Cardinality({k \in DOMAIN r : r[k] = t})
  <2>1. Occurrences(t, s) = Occurrences(t, r)
    OBVIOUS
  <2>2. Cardinality({k \in DOMAIN s : s[k] = t}) = Cardinality({k \in DOMAIN r : r[k] = t})
    BY <2>1 DEF Occurrences
  <2>3. Abstract!Cardinality({k \in DOMAIN s : s[k] = t}) = Cardinality({k \in DOMAIN s : s[k] = t})
    BY AbstractCardinality, Zenon
  <2>4. Abstract!Cardinality({k \in DOMAIN r : r[k] = t}) = Cardinality({k \in DOMAIN r : r[k] = t})
    BY AbstractCardinality, Zenon
  <2>. QED  BY <2>2, <2>3, <2>4, Zenon
<1>. QED  BY <1>1, Zenon DEF Abstract!IsRearrangement

LEMMA PlayedIsRearranged ==
  ASSUME NEW S, NEW q \in Seq(S), NEW p \in Orders(Len(q)), NEW r \in Orders(Len(q))
  PROVE  /\ Abstract!IsRearrangement(Played(q, p), q)
         /\ Abstract!IsRearrangement(Played(q, p), Played(q, r))
<1>1. Len(Played(q, p)) = Len(q) /\ Len(Played(q, r)) = Len(q)
  BY PlayedIsList
<1>2. ASSUME NEW t
      PROVE  /\ Occurrences(t, Played(q, p)) = Occurrences(t, q)
             /\ Occurrences(t, Played(q, p)) = Occurrences(t, Played(q, r))
  BY PlayedCounts
<1>3. Abstract!IsRearrangement(Played(q, p), q)
  BY <1>1, <1>2, SameOccurrences
<1>4. Abstract!IsRearrangement(Played(q, p), Played(q, r))
  BY <1>1, <1>2, SameOccurrences
<1>. QED  BY <1>3, <1>4

LEMMA LinearPlays ==
  ASSUME NEW S, NEW q \in Seq(S)
  PROVE  Played(q, Linear(Len(q))) = q
<1>. DEFINE n == Len(q)
            list == Played(q, Linear(n))
<1>1. n \in Nat /\ Linear(n) \in Orders(n)
  BY LenProperties, LinearOrder
<1>2. /\ list \in Seq(S) /\ Len(list) = n
      /\ \A k \in 1..n : list[k] = q[Linear(n)[k]]
  BY <1>1, PlayedIsList
<1>3. \A k \in 1..n : list[k] = q[k]
  BY <1>2 DEF Linear
<1>. HIDE DEF list
<1>4. list = q
  BY <1>1, <1>2, <1>3, SeqEqual
<1>. QED  BY <1>4 DEF list

LEMMA SeekStep ==
  ASSUME QueueTypeOK, UNCHANGED <<ids, order>>, pos' \in 0..Len(ids)
  PROVE  Abstract!Seek
  BY UnchangedOrder, ListFacts DEF Abstract!Seek

LEMMA SetTracksStep ==
  ASSUME QueueTypeOK, NEW tracks \in Lists, NEW start \in 1..(Len(tracks) + 1),
         SetTracks(tracks, start)
  PROVE  Abstract!Load
<1>. DEFINE n == Len(tracks)
            row == IF start > n THEN n ELSE start
<1>1. tracks \in Seq(Track) /\ n \in Nat /\ DOMAIN tracks = 1..n
  BY ListsAreLists, LenProperties
<1>2. ids' = tracks /\ InOrder' = Played(tracks, order')
  BY DEF InOrder, Played, SetTracks
<1>3. (tracks = <<>> => n = 0) /\ (n = 0 => tracks = <<>>)
  BY <1>1, EmptySeq
<1>4. CASE shuffled /\ n > 0
  <2>1. order' \in Orders(n) /\ pos' = 1
    BY <1>4 DEF SetTracks
  <2>2. Abstract!IsRearrangement(InOrder', tracks)
    BY <1>1, <1>2, <2>1, PlayedIsRearranged
  <2>3. tracks # <<>>
    BY <1>3, <1>4
  <2>. QED  BY <2>1, <2>2, <2>3, Zenon DEF Abstract!Load
<1>5. CASE ~(shuffled /\ n > 0)
  <2>1. order' = Linear(n) /\ pos' = row
    BY <1>5 DEF SetTracks
  <2>2. InOrder' = tracks
    BY <1>1, <1>2, <2>1, LinearPlays
  <2>3. CASE n = 0
    <3>1. pos' = 0 /\ tracks = <<>>
      BY <1>3, <2>1, <2>3
    <3>. QED  BY <2>2, <3>1, Zenon DEF Abstract!Load
  <2>4. CASE n # 0
    <3>1. pos' \in DOMAIN tracks /\ tracks # <<>>
      BY <1>1, <1>3, <2>1, <2>4
    <3>. QED  BY <2>2, <3>1, Zenon DEF Abstract!Load
  <2>. QED  BY <2>3, <2>4
<1>. QED  BY <1>4, <1>5

LEMMA SetShuffleStep ==
  ASSUME QueueTypeOK, NEW on \in BOOLEAN, SetShuffle(on)
  PROVE  Abstract!Reorder
<1>. DEFINE n == Len(ids)
<1>1. /\ n \in Nat /\ ids \in Seq(Track) /\ order \in Orders(n) /\ pos \in 0..n
      /\ \A k \in 1..n : order[k] \in 1..n
  BY TypeFacts
<1>2. order' \in Orders(n) /\ ids' = ids
      /\ (pos = 0 => pos' = 0)
      /\ (pos # 0 => pos' \in 1..n /\ order'[pos'] = order[pos])
  <2>1. CASE on
    BY <1>1, <2>1 DEF SetShuffle
  <2>2. CASE ~on
    <3>1. order' = Linear(n) /\ ids' = ids /\ pos' = IF pos = 0 THEN 0 ELSE order[pos]
      BY <2>2 DEF SetShuffle
    <3>2. pos # 0 => order[pos] \in 1..n
      BY <1>1
    <3>3. pos # 0 => Linear(n)[order[pos]] = order[pos]
      BY <3>2 DEF Linear
    <3>. QED  BY <1>1, <3>1, <3>2, <3>3, LinearOrder
  <2>. QED  BY <2>1, <2>2
<1>3. InOrder' = Played(ids, order') /\ InOrder = Played(ids, order)
  BY <1>2 DEF InOrder, Played
<1>4. Abstract!IsRearrangement(InOrder', InOrder)
  BY <1>1, <1>2, <1>3, PlayedIsRearranged
<1>5. pos # 0 => pos' \in DOMAIN InOrder' /\ InOrder'[pos'] = InOrder[pos]
  <2>1. DOMAIN InOrder' = 1..n /\ \A k \in 1..n : InOrder'[k] = ids[order'[k]]
    BY <1>1, <1>2, <1>3, PlayedIsList
  <2>2. \A k \in 1..n : InOrder[k] = ids[order[k]]
    BY ListFacts
  <2>. QED  BY <1>1, <1>2, <2>1, <2>2
<1>. QED  BY <1>2, <1>4, <1>5, Zenon DEF Abstract!Reorder

\* New entries come in one place of the list.
LEMMA InsertedPlays ==
  ASSUME NEW S, NEW q \in Seq(S), NEW t \in Seq(S), NEW p \in Orders(Len(q)),
         NEW at \in 0..Len(q)
  PROVE  Played(q \o t, Inserted(p, at, Fresh(Len(q), Len(t)))) = Inserted(Played(q, p), at, t)
<1>. DEFINE n == Len(q)
            m == Len(t)
            slots == Inserted(p, at, Fresh(n, m))
            both == q \o t
            list == Played(q, p)
            new == Played(both, slots)
            r == Inserted(list, at, t)
<1>1. n \in Nat /\ m \in Nat /\ at \in Nat /\ at <= n
  BY LenProperties
<1>2. \A k \in 1..n : p[k] \in 1..n
  BY <1>1, OrderIsList
<1>3. /\ both \in Seq(S) /\ Len(both) = n + m
      /\ \A i \in 1..(n + m) : both[i] = IF i <= n THEN q[i] ELSE t[i - n]
  BY ConcatProperties
<1>4. /\ slots \in Orders(n + m)
      /\ \A i \in 1..(n + m) :
           slots[i] = IF i <= at THEN p[i]
                      ELSE IF i <= at + m THEN n + (i - at)
                      ELSE p[i - m]
  BY <1>1, InsertedOrder
<1>5. list \in Seq(S) /\ Len(list) = n /\ \A k \in 1..n : list[k] = q[p[k]]
  BY PlayedIsList
<1>. HIDE DEF slots, both, list
<1>6. /\ new \in Seq(S) /\ Len(new) = n + m
      /\ \A i \in 1..(n + m) : new[i] = both[slots[i]]
  <2>1. slots \in Orders(Len(both))
    BY <1>3, <1>4, Zenon
  <2>2. /\ new \in Seq(S) /\ Len(new) = Len(both)
        /\ \A k \in 1..Len(both) : new[k] = both[slots[k]]
    BY <1>3, <2>1, PlayedIsList
  <2>. HIDE DEF new
  <2>. QED  BY <1>3, <2>2, Zenon
<1>7. /\ r \in Seq(S) /\ Len(r) = n + m
      /\ \A i \in 1..(n + m) :
           r[i] = IF i <= at THEN list[i]
                  ELSE IF i <= at + m THEN t[i - at]
                  ELSE list[i - m]
  <2>1. at \in 0..Len(list) /\ list \in Seq(S)
    BY <1>1, <1>5
  <2>2. /\ r \in Seq(S) /\ Len(r) = Len(list) + Len(t)
        /\ \A i \in 1..(Len(list) + Len(t)) :
             r[i] = IF i <= at THEN list[i]
                    ELSE IF i <= at + Len(t) THEN t[i - at]
                    ELSE list[i - Len(t)]
    BY <2>1, InsertedIn
  <2>. HIDE DEF r
  <2>. QED  BY <1>5, <2>2, Zenon
<1>. HIDE DEF new, r, n, m
<1>8. ASSUME NEW i \in 1..(n + m)
      PROVE  new[i] = r[i]
  <2>1. i \in Nat
    BY <1>1
  <2>2. new[i] = both[slots[i]]
    BY <1>6
  <2>3. CASE i <= at
    <3>1. i \in 1..n /\ slots[i] = p[i] /\ r[i] = list[i]
      BY <1>1, <1>4, <1>7, <2>1, <2>3
    <3>2. p[i] \in 1..n /\ list[i] = q[p[i]]
      BY <1>2, <1>5, <3>1
    <3>3. both[p[i]] = q[p[i]]
      BY <1>1, <1>3, <3>2
    <3>. QED  BY <2>2, <3>1, <3>2, <3>3
  <2>4. CASE at < i /\ i <= at + m
    <3>1. slots[i] = n + (i - at) /\ r[i] = t[i - at]
      BY <1>1, <1>4, <1>7, <2>1, <2>4
    <3>2. PICK k \in 1..(n + m) : k = n + (i - at) /\ ~(k <= n) /\ k - n = i - at
      BY <1>1, <2>1, <2>4
    <3>3. both[k] = t[i - at]
      BY <1>3, <3>2
    <3>. QED  BY <2>2, <3>1, <3>2, <3>3
  <2>5. CASE at + m < i
    <3>1. i - m \in 1..n /\ ~(i <= at) /\ ~(i <= at + m)
      BY <1>1, <2>1, <2>5
    <3>2. slots[i] = p[i - m] /\ r[i] = list[i - m]
      BY <1>4, <1>7, <3>1
    <3>3. p[i - m] \in 1..n /\ list[i - m] = q[p[i - m]]
      BY <1>2, <1>5, <3>1
    <3>4. both[p[i - m]] = q[p[i - m]]
      BY <1>1, <1>3, <3>3
    <3>. QED  BY <2>2, <3>2, <3>3, <3>4
  <2>. QED  BY <1>1, <2>1, <2>3, <2>4, <2>5
<1>9. Len(new) = Len(r) /\ \A i \in 1..Len(new) : new[i] = r[i]
  BY <1>6, <1>7, <1>8
<1>10. new = r
  BY <1>6, <1>7, <1>9, SeqEqual
<1>. QED  BY <1>10, Zenon DEF new, r, list, both, slots, n, m

LEMMA OrderPlays == InOrder = Played(ids, order) /\ InOrder' = Played(ids', order')
  BY DEF InOrder, Played

LEMMA InsertStep ==
  ASSUME QueueTypeOK, NEW tracks \in Batches, NEW at \in 0..Len(ids),
         ids' = ids \o tracks,
         order' = Inserted(order, at, Fresh(Len(ids), Len(tracks))),
         pos # 0 => pos' = pos /\ pos <= at,
         pos = 0 => at = Len(ids) /\ pos' \in {0, at + 1}
  PROVE  Abstract!Insert
<1>1. tracks \in Seq(Track)
  BY BatchesAreTracks
<1>2. Len(ids) \in Nat /\ ids \in Seq(Track) /\ order \in Orders(Len(ids)) /\ pos \in 0..Len(ids)
  BY TypeFacts
<1>3. Played(ids \o tracks, Inserted(order, at, Fresh(Len(ids), Len(tracks))))
        = Inserted(Played(ids, order), at, tracks)
  BY <1>1, <1>2, InsertedPlays
<1>4. InOrder' = Inserted(InOrder, at, tracks)
  BY <1>3, OrderPlays, Zenon
<1>5. Len(InOrder) = Len(ids)
  BY ListFacts
<1>6. at \in pos..Len(InOrder)
  BY <1>2, <1>5
<1>7. InOrder' = SubSeq(InOrder, 1, at) \o tracks \o SubSeq(InOrder, at + 1, Len(InOrder))
  BY <1>4, Zenon DEF Inserted
<1>8. IF pos # 0 THEN pos' = pos ELSE at = Len(InOrder) /\ pos' \in {0, at + 1}
  BY <1>5
<1>. QED  BY <1>6, <1>7, <1>8, Zenon DEF Abstract!Insert

LEMMA AppendStep ==
  ASSUME QueueTypeOK, NEW tracks \in Batches, AppendTracks(tracks)
  PROVE  Abstract!Insert
<1>1. order' = Inserted(order, Len(ids), Fresh(Len(ids), Len(tracks)))
  BY AppendInserts
<1>2. Len(ids) \in Nat /\ pos \in 0..Len(ids) /\ ids \in Seq(Track)
  BY TypeFacts
<1>3. ids = <<>> => Len(ids) = 0
  BY EmptySeq
<1>4. ids' = ids \o tracks /\ pos' = IF ids = <<>> THEN 1 ELSE pos
  BY DEF AppendTracks
<1>5. /\ pos # 0 => pos' = pos /\ pos <= Len(ids)
      /\ pos = 0 => pos' \in {0, Len(ids) + 1}
      /\ Len(ids) \in 0..Len(ids)
  BY <1>2, <1>3, <1>4
<1>. QED  BY <1>1, <1>4, <1>5, InsertStep

LEMMA EnqueueStep ==
  ASSUME QueueTypeOK, NEW tracks \in Batches, NEW placement, Enqueue(tracks, placement)
  PROVE  Abstract!Insert
<1>1. PICK at \in 0..Len(ids) :
        /\ at = IF placement = "next" /\ pos # 0 THEN pos ELSE Len(ids)
        /\ order' = Inserted(order, at, Fresh(Len(ids), Len(tracks)))
        /\ pos' = IF pos = 0 THEN at + 1 ELSE pos
  BY EnqueueInserts
<1>2. Len(ids) \in Nat /\ pos \in 0..Len(ids)
  BY TypeFacts
<1>3. /\ pos # 0 => pos' = pos /\ pos <= at
      /\ pos = 0 => at = Len(ids) /\ pos' \in {0, at + 1}
  BY <1>1, <1>2
<1>4. ids' = ids \o tracks
  BY DEF Enqueue
<1>. QED  BY <1>1, <1>3, <1>4, InsertStep

LEMMA AbstractMoved ==
  ASSUME NEW s, NEW from, NEW to
  PROVE  Abstract!InsertAt(Abstract!RemoveAt(s, from), to, s[from]) = MovedTo(s, from, to)
  BY DEF Abstract!InsertAt, Abstract!RemoveAt, MovedTo, InsertAt, RemoveAt

\* Moving an entry of the order moves the entry of the list.
LEMMA MovedPlays ==
  ASSUME NEW S, NEW q \in Seq(S), NEW p \in Orders(Len(q)),
         NEW from \in 1..Len(q), NEW to \in 1..Len(q)
  PROVE  Played(q, MovedTo(p, from, to)) = MovedTo(Played(q, p), from, to)
<1>. DEFINE n == Len(q)
            slots == MovedTo(p, from, to)
            list == Played(q, p)
            new == Played(q, slots)
            r == MovedTo(list, from, to)
<1>1. n \in Nat
  BY LenProperties
<1>2. slots \in Orders(n) /\ \A i \in 1..n : slots[i] = p[Origin(from, to, i)]
  BY <1>1, MovedOrder
<1>3. list \in Seq(S) /\ Len(list) = n /\ \A k \in 1..n : list[k] = q[p[k]]
  BY PlayedIsList
<1>. HIDE DEF slots, list
<1>4. new \in Seq(S) /\ Len(new) = n /\ \A i \in 1..n : new[i] = q[slots[i]]
  BY <1>2, PlayedIsList
<1>5. from \in 1..Len(list) /\ to \in 1..Len(list)
  BY <1>3
<1>6. /\ r \in Seq(S) /\ Len(r) = Len(list)
      /\ \A i \in 1..Len(list) : r[i] = list[Origin(from, to, i)]
  BY <1>3, <1>5, MovedIn
<1>. HIDE DEF new, r
<1>7. ASSUME NEW i \in 1..n
      PROVE  new[i] = r[i]
  <2>1. Origin(from, to, i) \in 1..n
    BY <1>1, OriginIsOneToOne
  <2>2. r[i] = list[Origin(from, to, i)]
    BY <1>3, <1>6
  <2>. QED  BY <1>2, <1>3, <1>4, <2>1, <2>2
<1>8. Len(new) = Len(r) /\ \A i \in 1..Len(new) : new[i] = r[i]
  BY <1>3, <1>4, <1>6, <1>7
<1>9. new = r
  BY <1>4, <1>6, <1>8, SeqEqual
<1>. QED  BY <1>9, Zenon DEF new, r, list, slots

LEMMA MovedList ==
  ASSUME QueueTypeOK, NEW from \in 1..Len(ids), NEW to \in 1..Len(ids),
         ids' = ids, order' = MovedTo(order, from, to)
  PROVE  InOrder' = Abstract!InsertAt(Abstract!RemoveAt(InOrder, from), to, InOrder[from])
<1>1. ids \in Seq(Track) /\ order \in Orders(Len(ids))
  BY TypeFacts
<1>2. Played(ids, MovedTo(order, from, to)) = MovedTo(Played(ids, order), from, to)
  BY <1>1, MovedPlays
<1>3. InOrder' = MovedTo(InOrder, from, to)
  BY <1>2, OrderPlays, Zenon
<1>. QED  BY <1>3, AbstractMoved, Zenon

LEMMA MoveItemStep ==
  ASSUME QueueTypeOK, NEW from \in DOMAIN order, NEW to \in DOMAIN order, MoveItem(from, to)
  PROVE  Abstract!Move
<1>. DEFINE n == Len(ids)
            cursor == CASE pos = 0 -> 0
                        [] pos = from -> to
                        [] from < pos /\ pos <= to -> pos - 1
                        [] to <= pos /\ pos < from -> pos + 1
                        [] OTHER -> pos
<1>1. /\ n \in Nat /\ order \in Orders(n) /\ pos \in 0..n
      /\ from \in 1..n /\ to \in 1..n
  BY TypeFacts
<1>2. order' = MovedTo(order, from, to) /\ ids' = ids /\ from # to
  BY MovedIsMovedTo DEF MoveItem
<1>3. order' \in Orders(n) /\ \A i \in 1..n : order'[i] = order[Origin(from, to, i)]
  BY <1>1, <1>2, MovedOrder
<1>4. InOrder' = Abstract!InsertAt(Abstract!RemoveAt(InOrder, from), to, InOrder[from])
  BY <1>1, <1>2, MovedList
<1>5. pos' = cursor
  <2>1. CASE pos = 0
    BY <1>1, <2>1 DEF MoveItem
  <2>2. CASE pos # 0
    <3>1. PICK k \in 1..n : k = cursor /\ Origin(from, to, k) = pos
      <4>1. pos \in 1..n
        BY <1>1, <2>2
      <4>2. cursor \in 1..n /\ Origin(from, to, cursor) = pos
        <5>1. CASE pos = from
          BY <1>1, <2>2, <5>1 DEF Origin
        <5>2. CASE from < pos /\ pos <= to
          BY <1>1, <2>2, <5>2 DEF Origin
        <5>3. CASE to <= pos /\ pos < from
          BY <1>1, <2>2, <5>3 DEF Origin
        <5>4. CASE (pos < from /\ pos < to) \/ (from < pos /\ to < pos)
          BY <1>1, <2>2, <5>4 DEF Origin
        <5>. QED  BY <1>1, <5>1, <5>2, <5>3, <5>4
      <4>. QED  BY <4>2
    <3>2. order'[k] = order[pos]
      BY <1>3, <3>1
    <3>3. PositionOf(order'[k], order') = k
      BY <1>1, <1>3, <3>1, PositionFound
    <3>4. pos' = PositionOf(order[pos], order')
      BY <2>2 DEF MoveItem
    <3>. QED  BY <3>1, <3>2, <3>3, <3>4, Zenon
  <2>. QED  BY <2>1, <2>2
<1>6. from \in DOMAIN InOrder /\ to \in DOMAIN InOrder
  BY <1>1, ListFacts
<1>. QED  BY <1>4, <1>5, <1>6, Zenon DEF Abstract!Move

LEMMA PlayNowStep ==
  ASSUME QueueTypeOK, NEW position \in DOMAIN order, PlayNow(position)
  PROVE  Abstract!Promote \/ Abstract!Seek
<1>1. Len(ids) \in Nat /\ pos \in 0..Len(ids) /\ position \in 1..Len(ids)
  BY TypeFacts
<1>2. pos # 0 /\ pos < position /\ pos' = pos + 1 /\ ids' = ids
  BY DEF PlayNow
<1>3. pos + 1 \in 1..Len(ids) /\ pos' \in 0..Len(ids)
  BY <1>1, <1>2
<1>4. CASE position > pos + 1
  <2>1. order' = MovedTo(order, position, pos + 1)
    BY <1>4, MovedIsMovedTo DEF PlayNow
  <2>2. InOrder' = Abstract!InsertAt(Abstract!RemoveAt(InOrder, position), pos + 1,
                                     InOrder[position])
    BY <1>1, <1>2, <1>3, <2>1, MovedList
  <2>3. position \in (pos + 1)..Len(InOrder)
    BY <1>1, <1>2, ListFacts
  <2>. QED  BY <1>2, <2>2, <2>3, Zenon DEF Abstract!Promote
<1>5. CASE ~(position > pos + 1)
  <2>1. UNCHANGED <<ids, order>>
    BY <1>2, <1>5 DEF PlayNow
  <2>. QED  BY <1>3, <2>1, SeekStep
<1>. QED  BY <1>4, <1>5

\* The entries that are left keep their order, and what plays is the first of
\* them from the playhead on.
LEMMA AbstractPick ==
  ASSUME NEW s, NEW P
  PROVE  Abstract!Pick(s, P) = [n \in 1..Cardinality(P) |-> s[Nth(P, n)]]
<1>. DEFINE nth(n) == CHOOSE k \in P : Abstract!Cardinality({j \in P : j <= k}) = n
<1>1. Abstract!Pick(s, P) = [n \in 1..Abstract!Cardinality(P) |-> s[nth(n)]]
  BY Zenon DEF Abstract!Pick
<1>2. ASSUME NEW n
      PROVE  nth(n) = Nth(P, n)
  <2>1. \A k \in P : Abstract!Cardinality({j \in P : j <= k}) = Cardinality({j \in P : j <= k})
    BY AbstractCardinality, Zenon
  <2>2. \A k \in P : (Abstract!Cardinality({j \in P : j <= k}) = n) <=> (Rank(P, k) = n)
    BY <2>1, Zenon DEF Rank
  <2>. QED  BY <2>2, Zenon DEF Nth
<1>3. Abstract!Cardinality(P) = Cardinality(P)
  BY AbstractCardinality
<1>. HIDE DEF nth
<1>4. [n \in 1..Abstract!Cardinality(P) |-> s[nth(n)]] = [n \in 1..Cardinality(P) |-> s[Nth(P, n)]]
  BY <1>2, <1>3, Zenon
<1>. QED  BY <1>1, <1>4, Zenon

\* The first entry left from the playhead on comes behind those left before it.
LEMMA RankBehind ==
  ASSUME NEW m \in Nat, NEW P \in SUBSET (1..m), NEW at \in Nat, NEW k \in P,
         at <= k, \A j \in P : at <= j => k <= j
  PROVE  Rank(P, k) = Cardinality({j \in P : j < at}) + 1
<1>. DEFINE behind == {j \in P : j < at}
            upTo == {j \in P : j <= k}
<1>1. upTo = behind \cup {k} /\ k \notin behind
  <2>1. ASSUME NEW j \in P
        PROVE  j <= k <=> (j < at \/ j = k)
    BY SMT
  <2>2. ~(k < at)
    BY SMT
  <2>. QED  BY <2>1, <2>2
<1>2. behind \in SUBSET (1..m)
  OBVIOUS
<1>. HIDE DEF behind, upTo
<1>3. IsFiniteSet(behind)
  BY <1>2, FinitelyMany
<1>4. Cardinality(upTo) = Cardinality(behind) + 1
  BY <1>1, <1>3, FS_AddElement
<1>. QED  BY <1>4 DEF Rank, behind, upTo

LEMMA RemoveStep ==
  ASSUME QueueTypeOK, NEW gone \in SUBSET DOMAIN order, RemoveOrderPositions(gone)
  PROVE  Abstract!Delete
<1>. DEFINE n == Len(ids)
            kept == KeptPositions(n, gone)
            c == Cardinality(kept)
            next == Successor(gone)
            behind == {k \in kept : k < pos}
<1>1. n \in Nat /\ pos \in 0..n /\ DOMAIN order = 1..n
  BY TypeFacts
<1>2. DOMAIN InOrder = 1..n /\ \A k \in 1..n : InOrder[k] = ids[order[k]]
  BY ListFacts
<1>3. gone \in SUBSET DOMAIN InOrder /\ DOMAIN InOrder \ gone = kept
  BY <1>1, <1>2 DEF KeptPositions
<1>4. kept \in SUBSET (1..n)
  BY DEF KeptPositions
<1>5. /\ c \in Nat /\ ids' \in Seq(Track) /\ Len(ids') = c /\ order' \in Orders(c)
      /\ \A k \in 1..c : ids'[order'[k]] = ids[order[Nth(kept, k)]]
      /\ pos' = IF next = 0 THEN 0 ELSE Rank(kept, next)
  BY RemovalResult
<1>6. \/ next = 0 /\ (pos = 0 \/ \A k \in kept : k < pos)
      \/ /\ next \in kept /\ pos # 0 /\ pos <= next
         /\ \A k \in kept : pos <= k => next <= k
  BY SuccessorFacts
<1>. HIDE DEF kept, next
<1>7. \A k \in 1..c : Nth(kept, k) \in kept
  BY <1>1, <1>4, NthOfRank
<1>. HIDE DEF c
<1>8. InOrder' = [k \in 1..c |-> InOrder[Nth(kept, k)]]
  <2>1. InOrder' = [k \in DOMAIN order' |-> ids'[order'[k]]]
    BY DEF InOrder
  <2>2. DOMAIN order' = 1..c
    BY <1>5, OrderIsList
  <2>3. \A k \in 1..c : ids'[order'[k]] = InOrder[Nth(kept, k)]
    BY <1>2, <1>4, <1>5, <1>7
  <2>. QED  BY <2>1, <2>2, <2>3, Zenon
<1>9. InOrder' = Abstract!Pick(InOrder, kept)
  BY <1>8, AbstractPick, Zenon DEF c
<1>10. pos' = IF pos = 0 \/ behind = kept THEN 0 ELSE Cardinality(behind) + 1
  <2>1. CASE next = 0 /\ (pos = 0 \/ \A k \in kept : k < pos)
    <3>1. pos = 0 \/ behind = kept
      BY <2>1
    <3>. QED  BY <1>5, <2>1, <3>1
  <2>2. CASE /\ next \in kept /\ pos # 0 /\ pos <= next
             /\ \A k \in kept : pos <= k => next <= k
    <3>1. pos \in Nat /\ next \in 1..n
      BY <1>1, <1>4, <2>2
    <3>2. next \notin behind
      BY <2>2, <3>1
    <3>3. behind # kept /\ next # 0
      BY <2>2, <3>1, <3>2
    <3>4. Rank(kept, next) = Cardinality(behind) + 1
      BY <1>1, <1>4, <2>2, <3>1, RankBehind
    <3>. HIDE DEF behind
    <3>. QED  BY <1>5, <2>2, <3>3, <3>4
  <2>. QED  BY <1>6, <2>1, <2>2
<1>11. pos' = IF pos = 0 \/ behind = kept THEN 0 ELSE Abstract!Cardinality(behind) + 1
  <2>1. Abstract!Cardinality(behind) = Cardinality(behind)
    BY AbstractCardinality, Zenon
  <2>. HIDE DEF behind
  <2>. QED  BY <1>10, <2>1, Zenon
<1>. QED  BY <1>3, <1>9, <1>11, Zenon DEF Abstract!Delete

LEMMA RestoreStep ==
  ASSUME NEW s \in Snapshots, RestoreSnapshot(s)
  PROVE  Abstract!Recall
<1>1. IsValid(s) /\ ids' = s.ids /\ order' = s.order /\ pos' = s.position
  BY DEF RestoreSnapshot
<1>2. InOrder' = [k \in DOMAIN s.order |-> s.ids[s.order[k]]]
  BY <1>1 DEF InOrder
<1>3. [list |-> InOrder', cursor |-> pos'] \in ValidOrders
  BY <1>1, <1>2 DEF ValidOrders
<1>. QED  BY <1>3 DEF Abstract!Recall

LEMMA EditStep ==
  ASSUME QueueTypeOK, Edit
  PROVE  Abstract!Next
<1>1. ASSUME NEW tracks \in Batches, AppendTracks(tracks)
      PROVE  Abstract!Next
  BY <1>1, AppendStep DEF Abstract!Next
<1>2. ASSUME NEW tracks \in Batches, NEW placement \in {"next", "last"},
             Enqueue(tracks, placement)
      PROVE  Abstract!Next
  BY <1>2, EnqueueStep DEF Abstract!Next
<1>3. ASSUME NEW from \in DOMAIN order, NEW to \in DOMAIN order, MoveItem(from, to)
      PROVE  Abstract!Next
  BY <1>3, MoveItemStep DEF Abstract!Next
<1>4. ASSUME NEW position \in DOMAIN order, PlayNow(position)
      PROVE  Abstract!Next
  BY <1>4, PlayNowStep DEF Abstract!Next
<1>5. ASSUME NEW gone \in SUBSET DOMAIN order, RemoveOrderPositions(gone)
      PROVE  Abstract!Next
  BY <1>5, RemoveStep DEF Abstract!Next
<1>6. ASSUME NEW tracks \in SUBSET Track, RemoveIds(tracks) \/ RemoveIdsExceptCurrent(tracks)
      PROVE  Abstract!Next
  BY <1>5, <1>6, RemovedPositions DEF RemoveIds, RemoveIdsExceptCurrent
<1>. QED  BY <1>1, <1>2, <1>3, <1>4, <1>5, <1>6 DEF Edit

LEMMA QueueStep ==
  ASSUME QueueTypeOK, [Next]_queueVars
  PROVE  [Abstract!Next]_(Abstract!vars)
<1>1. ASSUME NEW tracks \in Lists, NEW start \in 1..(Len(tracks) + 1),
             SetTracks(tracks, start)
      PROVE  Abstract!Next
  BY <1>1, SetTracksStep DEF Abstract!Next
<1>2. ASSUME NEW s \in Snapshots, RestoreSnapshot(s)
      PROVE  Abstract!Next
  BY <1>2, RestoreStep DEF Abstract!Next
<1>3. ASSUME NEW mode \in Repeats, SetRepeat(mode)
      PROVE  UNCHANGED Abstract!vars
  BY <1>3, UnchangedOrder DEF SetRepeat, Abstract!vars
<1>4. ASSUME NEW on \in BOOLEAN, SetShuffle(on)
      PROVE  Abstract!Next
  BY <1>4, SetShuffleStep DEF Abstract!Next
<1>5. ASSUME NEW position \in DOMAIN order, JumpTo(position)
      PROVE  Abstract!Next
  <2>1. position \in 0..Len(ids)
    BY TypeFacts
  <2>2. UNCHANGED <<ids, order>> /\ pos' \in 0..Len(ids)
    BY <1>5, <2>1 DEF JumpTo
  <2>. QED  BY <2>2, SeekStep DEF Abstract!Next
<1>6. CASE Play
  <2>1. UNCHANGED <<ids, order>> /\ pos' \in 0..Len(ids)
    BY <1>6, ForwardType DEF Play, AdvanceAuto, NextManual
  <2>. QED  BY <2>1, SeekStep DEF Abstract!Next
<1>7. CASE Edit
  BY <1>7, EditStep
<1>8. CASE UNCHANGED queueVars
  BY <1>8, UnchangedOrder DEF queueVars, Abstract!vars
<1>. QED  BY <1>1, <1>2, <1>3, <1>4, <1>5, <1>6, <1>7, <1>8 DEF Next

\* Whatever is done to the queue, in any order, is what PlayOrder says is done to
\* a plain list with a cursor.
THEOREM QueueIsAList == Spec => ImplementsPlayOrder
<1>1. Init => Abstract!Init
  <2>1. ASSUME Init PROVE InOrder = <<>> /\ pos = 0
    <3>1. QueueTypeOK /\ ids = <<>> /\ pos = 0
      BY <2>1, InitType DEF Init
    <3>2. InOrder \in Seq(Track) /\ Len(InOrder) = 0
      BY <3>1, ListFacts, EmptySeq
    <3>. QED  BY <3>1, <3>2, EmptySeq
  <2>. QED  BY <2>1 DEF Abstract!Init
<1>2. QueueTypeOK /\ [Next]_queueVars => [Abstract!Next]_(Abstract!vars)
  BY QueueStep
<1>. QED  BY <1>1, <1>2, OrderStaysAPermutation, PTL
          DEF Spec, ImplementsPlayOrder, Abstract!Spec

-----------------------------------------------------------------------------
(* A pass: what plays from here on when every track just ends.  The pass   *)
(* is a recursive function; that there is one, and what it visits, is      *)
(* shown by counting up.                                                   *)

LEMMA CountingUp ==
  ASSUME NEW n \in Nat, NEW G, 0 \in G, \A k \in 1..n : k - 1 \in G => k \in G
  PROVE  \A k \in 0..n : k \in G
<1>. DEFINE bad == {k \in 0..n : k \notin G}
<1>1. SUFFICES bad = {}
  OBVIOUS
<1>2. SUFFICES ASSUME bad # {} PROVE FALSE
  OBVIOUS
<1>3. bad \in SUBSET Nat
  OBVIOUS
<1>. HIDE DEF bad
<1>4. PICK k \in bad : \A j \in bad : k <= j
  BY <1>2, <1>3, LeastNumber
<1>5. k \in 0..n /\ k \notin G /\ k # 0
  BY <1>4 DEF bad
<1>6. k \in 1..n /\ k - 1 \in 0..n /\ ~(k <= k - 1)
  BY <1>5
<1>7. k - 1 \in G
  BY <1>4, <1>6 DEF bad
<1>. QED  BY <1>5, <1>6, <1>7

\* The next number left after the (n-1)-th is the n-th.
LEMMA NthNext ==
  ASSUME NEW m \in Nat, NEW P \in SUBSET (1..m), NEW n \in 1..Cardinality(P),
         NEW before, before = IF n = 1 THEN 0 ELSE Nth(P, n - 1)
  PROVE  /\ before \in 0..m /\ before < Nth(P, n)
         /\ \A d \in P : ~(before < d /\ d < Nth(P, n))
<1>1. Cardinality(P) \in Nat
  BY FinitelyMany
<1>2. \A k \in 1..Cardinality(P) : Nth(P, k) \in P /\ Rank(P, Nth(P, k)) = k
  BY NthOfRank
<1>3. \A k \in P : Rank(P, k) \in 1..Cardinality(P)
  BY RankRange
<1>4. \A j, k \in P : j < k => Rank(P, j) < Rank(P, k)
  BY RankGrows
<1>5. Nth(P, n) \in P /\ Nth(P, n) \in 1..m /\ Rank(P, Nth(P, n)) = n
  BY <1>2
<1>6. CASE n = 1
  <2>1. ASSUME NEW d \in P, d < Nth(P, n)
        PROVE  FALSE
    <3>1. Rank(P, d) < 1 /\ Rank(P, d) \in 1..Cardinality(P)
      BY <1>3, <1>4, <1>5, <1>6, <2>1
    <3>. QED  BY <1>1, <3>1
  <2>. QED  BY <1>5, <1>6, <2>1
<1>7. CASE n # 1
  <2>1. n - 1 \in 1..Cardinality(P)
    BY <1>1, <1>7
  <2>2. before \in P /\ before \in 1..m /\ Rank(P, before) = n - 1
    BY <1>2, <1>7, <2>1
  <2>3. before < Nth(P, n)
    <3>1. before # Nth(P, n)
      BY <1>5, <2>2
    <3>2. ASSUME Nth(P, n) < before PROVE FALSE
      <4>1. n < n - 1
        BY <1>4, <1>5, <2>2, <3>2
      <4>. QED  BY <1>1, <4>1
    <3>. QED  BY <1>5, <2>2, <3>1, <3>2
  <2>4. ASSUME NEW d \in P, before < d, d < Nth(P, n)
        PROVE  FALSE
    <3>1. n - 1 < Rank(P, d) /\ Rank(P, d) < n /\ Rank(P, d) \in 1..Cardinality(P)
      BY <1>3, <1>4, <1>5, <2>2, <2>4
    <3>. QED  BY <1>1, <3>1
  <2>. QED  BY <2>2, <2>3, <2>4
<1>. QED  BY <1>6, <1>7

\* What one step of a pass does, from any position.
LEMMA ForwardFacts ==
  ASSUME QueueTypeOK, NEW from \in 0..Len(ids), NEW available
  PROVE  LET next == ForwardPosition(from, TRUE, available)
             playable == PositionsOf(available)
         IN
         /\ next \in 0..Len(ids) /\ (next = 0 \/ next \in playable)
         /\ from = 0 => next = 0
         /\ repeat = "off" /\ from # 0 =>
              \/ next = 0 /\ \A k \in playable : k <= from
              \/ next \in playable /\ from < next /\ \A k \in playable : from < k => next <= k
         /\ repeat = "all" /\ from # 0 =>
              \A s \in 1..Len(ids) :
                Around(from + s) \in playable
                  /\ (\A u \in 1..Len(ids) : u < s => Around(from + u) \notin playable)
                  => next = Around(from + s)
<1>. DEFINE N == Len(ids)
            playable == PositionsOf(available)
            next == ForwardPosition(from, TRUE, available)
            plays(k) == ids[order[k]] \in available
            steps == {n \in 1..Len(order) : /\ from + n <= Len(order) \/ repeat = "all"
                                            /\ plays(Around(from + n))}
            first == CHOOSE n \in steps : \A m \in steps : n <= m
<1>1. Len(order) = N /\ N \in Nat /\ DOMAIN order = 1..N
  BY TypeFacts
<1>2. next = IF from = 0 THEN 0
             ELSE IF repeat = "one" /\ plays(from) THEN from
             ELSE IF steps = {} THEN 0
             ELSE Around(from + first)
  BY DEF ForwardPosition
<1>3. \A k : k \in playable <=> k \in 1..N /\ plays(k)
  BY <1>1 DEF PositionsOf
<1>4. from # 0 => \A n \in 1..N : Around(from + n) \in 1..N
  BY <1>1 DEF Around
<1>5. from # 0 => \A n \in 1..N : n \in steps
                    <=> /\ from + n <= N \/ repeat = "all"
                        /\ Around(from + n) \in playable
  BY <1>1, <1>3, <1>4
<1>6. \A n \in steps : n \in 1..N
  BY <1>1
<1>7. steps # {} => first \in steps /\ \A m \in steps : first <= m
  <2>1. steps \in SUBSET Nat
    BY <1>6
  <2>. HIDE DEF steps
  <2>. QED  BY <2>1, LeastNumber
<1>8. \A n \in 1..N : from + n <= N => Around(from + n) = from + n
  BY <1>1 DEF Around
<1>9. Repeats = {"off", "all", "one"}
  BY DEF Repeats
<1>. HIDE DEF steps, first, playable, next
<1>10. from # 0 /\ steps # {} => first \in 1..N /\ Around(from + first) \in playable
  BY <1>5, <1>6, <1>7
<1>11. next \in 0..N /\ (next = 0 \/ next \in playable)
  <2>1. CASE from = 0
    BY <1>1, <1>2, <2>1
  <2>2. CASE from # 0 /\ repeat = "one" /\ plays(from)
    BY <1>1, <1>2, <1>3, <2>2
  <2>3. CASE from # 0 /\ ~(repeat = "one" /\ plays(from))
    <3>1. CASE steps = {}
      BY <1>1, <1>2, <2>3, <3>1
    <3>2. CASE steps # {}
      <4>1. next = Around(from + first) /\ next \in playable
        BY <1>2, <1>10, <2>3, <3>2
      <4>2. next \in 1..N
        BY <1>3, <4>1
      <4>. QED  BY <1>1, <4>1, <4>2
    <3>. QED  BY <3>1, <3>2
  <2>. QED  BY <2>1, <2>2, <2>3
<1>12. from = 0 => next = 0
  BY <1>2
<1>13. ASSUME repeat = "off", from # 0
       PROVE  \/ next = 0 /\ \A k \in playable : k <= from
              \/ next \in playable /\ from < next /\ \A k \in playable : from < k => next <= k
  <2>1. next = IF steps = {} THEN 0 ELSE Around(from + first)
    BY <1>2, <1>13
  <2>2. ASSUME NEW k \in playable, from < k
        PROVE  k - from \in steps
    <3>1. k \in 1..N
      BY <1>3
    <3>2. k - from \in 1..N /\ from + (k - from) = k /\ from + (k - from) <= N
      BY <1>1, <1>13, <2>2, <3>1
    <3>3. Around(from + (k - from)) = k
      BY <1>8, <3>2
    <3>. QED  BY <1>5, <1>13, <3>2, <3>3
  <2>3. CASE steps = {}
    <3>1. ASSUME NEW k \in playable
          PROVE  k <= from
      <4>1. k \in 1..N /\ ~(from < k)
        BY <1>3, <2>2, <2>3
      <4>. QED  BY <1>1, <4>1
    <3>. QED  BY <2>1, <2>3, <3>1
  <2>4. CASE steps # {}
    <3>1. first \in 1..N /\ first \in steps /\ from + first <= N
      BY <1>5, <1>6, <1>7, <1>13, <2>4
    <3>2. next = from + first /\ next \in playable
      BY <1>8, <1>10, <1>13, <2>1, <2>4, <3>1
    <3>3. ASSUME NEW k \in playable, from < k
          PROVE  next <= k
      <4>1. first <= k - from /\ k \in 1..N
        BY <1>3, <1>7, <2>2, <2>4, <3>3
      <4>. QED  BY <1>1, <3>1, <3>2, <4>1
    <3>4. from < next
      BY <1>1, <3>1, <3>2
    <3>. QED  BY <3>2, <3>3, <3>4
  <2>. QED  BY <2>3, <2>4
<1>14. ASSUME repeat = "all", from # 0, NEW s \in 1..N,
              Around(from + s) \in playable,
              \A u \in 1..N : u < s => Around(from + u) \notin playable
       PROVE  next = Around(from + s)
  <2>1. s \in steps
    BY <1>5, <1>14
  <2>2. next = Around(from + first)
    BY <1>2, <1>14, <2>1
  <2>3. first \in 1..N /\ first <= s /\ Around(from + first) \in playable
    BY <1>7, <1>10, <1>14, <2>1
  <2>4. ~(first < s)
    BY <1>14, <2>3
  <2>5. first = s
    BY <1>1, <2>3, <2>4
  <2>. QED  BY <2>2, <2>5
<1>. QED  BY <1>11, <1>12, <1>13, <1>14 DEF playable, next

IsPass(f, available) ==
  f = [n \in 0..Len(order) |->
         IF n = 0 THEN pos ELSE ForwardPosition(f[n - 1], TRUE, available)]

\* The start of a pass, up to step m.
IsStart(f, m, available) ==
  /\ f \in [0..m -> 0..Len(ids)] /\ f[0] = pos
  /\ \A n \in 1..m : f[n] = ForwardPosition(f[n - 1], TRUE, available)

LEMMA PassExists ==
  ASSUME QueueTypeOK, NEW available
  PROVE  \E f : IsPass(f, available)
<1>. DEFINE N == Len(ids)
            F(k) == ForwardPosition(k, TRUE, available)
            G == {m \in 0..N : \E f : IsStart(f, m, available)}
<1>1. N \in Nat /\ Len(order) = N /\ pos \in 0..N
  BY TypeFacts
<1>2. \A k \in 0..N : F(k) \in 0..N
  BY ForwardFacts
<1>. HIDE DEF F
<1>3. 0 \in G
  <2>1. IsStart([n \in 0..0 |-> pos], 0, available)
    BY <1>1 DEF IsStart
  <2>. QED  BY <1>1, <2>1
<1>4. ASSUME NEW m \in 1..N, m - 1 \in G
      PROVE  m \in G
  <2>1. PICK g : IsStart(g, m - 1, available)
    BY <1>4
  <2>2. /\ g \in [0..(m - 1) -> 0..N] /\ g[0] = pos
        /\ \A n \in 1..(m - 1) : g[n] = F(g[n - 1])
    BY <2>1 DEF IsStart, F
  <2>. DEFINE f == [n \in 0..m |-> IF n = m THEN F(g[m - 1]) ELSE g[n]]
  <2>3. m - 1 \in 0..(m - 1) /\ \A n \in 0..m : n # m => n \in 0..(m - 1)
    BY <1>1
  <2>4. f \in [0..m -> 0..N]
    BY <1>2, <2>2, <2>3
  <2>5. f[0] = pos /\ f[m] = F(g[m - 1]) /\ \A n \in 0..(m - 1) : f[n] = g[n]
    BY <1>1, <2>2
  <2>. HIDE DEF f
  <2>6. ASSUME NEW n \in 1..m
        PROVE  f[n] = F(f[n - 1])
    <3>1. n - 1 \in 0..(m - 1) /\ f[n - 1] = g[n - 1]
      BY <1>1, <2>5
    <3>2. CASE n = m
      BY <2>5, <3>1, <3>2
    <3>3. CASE n # m
      <4>1. n \in 1..(m - 1) /\ n \in 0..(m - 1)
        BY <1>1, <3>3
      <4>. QED  BY <2>2, <2>5, <3>1, <4>1
    <3>. QED  BY <3>2, <3>3
  <2>7. IsStart(f, m, available)
    BY <2>4, <2>5, <2>6 DEF IsStart, F
  <2>. QED  BY <2>7
<1>5. N \in G
  <2>1. N \in 0..N
    BY <1>1
  <2>. HIDE DEF G
  <2>. QED  BY <1>1, <1>3, <1>4, <2>1, CountingUp
<1>6. PICK f : IsStart(f, N, available)
  BY <1>5
<1>7. f \in [0..N -> 0..N] /\ f[0] = pos /\ \A n \in 1..N : f[n] = F(f[n - 1])
  BY <1>6 DEF IsStart, F
<1>8. \A n \in 0..N : f[n] = IF n = 0 THEN pos ELSE F(f[n - 1])
  <2>1. \A n \in 0..N : n = 0 \/ n \in 1..N
    BY <1>1
  <2>. QED  BY <1>7, <2>1, Zenon
<1>9. f = [n \in 0..N |-> IF n = 0 THEN pos ELSE F(f[n - 1])]
  BY <1>7, <1>8
<1>. QED  BY <1>1, <1>9, Zenon DEF IsPass, F

LEMMA PassSteps ==
  ASSUME QueueTypeOK, NEW available
  PROVE  LET at == Pass(available) IN
         /\ at[0] = pos
         /\ \A n \in 1..Len(ids) : at[n] = ForwardPosition(at[n - 1], TRUE, available)
         /\ \A n \in 0..Len(ids) : at[n] \in 0..Len(ids)
<1>. DEFINE N == Len(ids)
            at == Pass(available)
            G == {n \in 0..N : at[n] \in 0..N}
<1>1. N \in Nat /\ Len(order) = N /\ pos \in 0..N
  BY TypeFacts
<1>2. IsPass(at, available)
  <2>1. at = CHOOSE f : IsPass(f, available)
    BY Zenon DEF Pass, IsPass
  <2>. HIDE DEF at
  <2>. QED  BY <2>1, PassExists, Zenon
<1>. HIDE DEF at
<1>3. \A n \in 0..N : at[n] = IF n = 0 THEN pos ELSE ForwardPosition(at[n - 1], TRUE, available)
  <2>1. at = [n \in 0..N |-> IF n = 0 THEN pos
                             ELSE ForwardPosition(at[n - 1], TRUE, available)]
    BY <1>1, <1>2, Zenon DEF IsPass
  <2>. QED  BY <2>1, Zenon
<1>4. at[0] = pos /\ \A n \in 1..N : at[n] = ForwardPosition(at[n - 1], TRUE, available)
  <2>1. 0 \in 0..N /\ \A n \in 1..N : n \in 0..N /\ n # 0
    BY <1>1
  <2>. QED  BY <1>3, <2>1, Zenon
<1>5. 0 \in G
  BY <1>1, <1>4
<1>6. ASSUME NEW n \in 1..N, n - 1 \in G
      PROVE  n \in G
  <2>1. at[n - 1] \in 0..N /\ n \in 0..N
    BY <1>1, <1>6
  <2>2. ForwardPosition(at[n - 1], TRUE, available) \in 0..N
    BY <2>1, ForwardFacts
  <2>. QED  BY <1>4, <2>1, <2>2
<1>7. \A n \in 0..N : n \in G
  <2>. HIDE DEF G
  <2>. QED  BY <1>1, <1>5, <1>6, CountingUp
<1>. QED  BY <1>4, <1>7 DEF at

\* Repeat off: the pass visits what plays ahead, in order, and ends.
LEMMA PassEnds ==
  ASSUME QueueTypeOK, NEW available, pos # 0, repeat = "off"
  PROVE  LET at == Pass(available)
             playable == PositionsOf(available)
         IN
         /\ \A n \in 1..Len(ids) : at[n] = 0 \/ (at[n] \in playable /\ at[n] > pos)
         /\ \A k \in playable : k > pos => \E n \in 1..Len(ids) : at[n] = k
         /\ at[Len(ids)] = 0
<1>. DEFINE N == Len(ids)
            at == Pass(available)
            playable == PositionsOf(available)
            G == {n \in 0..N : at[n] = 0 \/ at[n] >= pos + n}
<1>1. N \in Nat /\ pos \in 1..N
  BY TypeFacts
<1>2. /\ at[0] = pos /\ \A n \in 0..N : at[n] \in 0..N
      /\ \A n \in 1..N : at[n] = ForwardPosition(at[n - 1], TRUE, available)
  BY PassSteps
<1>3. playable \in SUBSET (1..N)
  BY TypeFacts DEF PositionsOf
<1>. HIDE DEF at, playable
<1>4. ASSUME NEW n \in 1..N
      PROVE  /\ n - 1 \in 0..N /\ at[n - 1] \in 0..N /\ at[n] \in 0..N
             /\ at[n - 1] = 0 => at[n] = 0
             /\ at[n - 1] # 0 =>
                  \/ at[n] = 0 /\ \A k \in playable : k <= at[n - 1]
                  \/ /\ at[n] \in playable /\ at[n - 1] < at[n]
                     /\ \A k \in playable : at[n - 1] < k => at[n] <= k
  <2>1. n - 1 \in 0..N /\ at[n - 1] \in 0..N /\ n \in 0..N
    BY <1>1, <1>2
  <2>2. PICK from \in 0..N : from = at[n - 1]
    BY <2>1
  <2>3. LET next == ForwardPosition(from, TRUE, available) IN
        /\ from = 0 => next = 0
        /\ from # 0 =>
             \/ next = 0 /\ \A k \in playable : k <= from
             \/ next \in playable /\ from < next /\ \A k \in playable : from < k => next <= k
    BY ForwardFacts DEF playable
  <2>4. at[n] = ForwardPosition(from, TRUE, available)
    BY <1>2, <2>2
  <2>5. at[n] \in 0..N
    BY <1>2, <2>1
  <2>. QED  BY <2>1, <2>2, <2>3, <2>4, <2>5
<1>5. 0 \in G
  BY <1>1, <1>2
<1>6. ASSUME NEW n \in 1..N, n - 1 \in G
      PROVE  n \in G
  <2>1. n \in 0..N /\ n \in Int /\ pos \in Int
    BY <1>1
  <2>2. at[n - 1] = 0 \/ at[n - 1] >= pos + (n - 1)
    BY <1>6
  <2>3. at[n] = 0 \/ (at[n - 1] # 0 /\ at[n - 1] < at[n])
    BY <1>4
  <2>4. at[n - 1] \in Int /\ at[n] \in Int
    BY <1>4
  <2>. QED  BY <2>1, <2>2, <2>3, <2>4
<1>7. \A n \in 0..N : n \in G
  <2>. HIDE DEF G
  <2>. QED  BY <1>1, <1>5, <1>6, CountingUp
<1>8. at[N] = 0
  <2>1. N \in G /\ at[N] \in 0..N
    BY <1>1, <1>2, <1>7
  <2>. QED  BY <1>1, <2>1
<1>9. ASSUME NEW n \in 1..N
      PROVE  at[n] = 0 \/ (at[n] \in playable /\ at[n] > pos)
  <2>1. n \in G /\ at[n] \in 0..N
    BY <1>1, <1>2, <1>7
  <2>2. at[n] = 0 \/ at[n] \in playable
    BY <1>4
  <2>. QED  BY <1>1, <2>1, <2>2
<1>10. ASSUME NEW k \in playable, k > pos
       PROVE  \E n \in 1..N : at[n] = k
  <2>1. SUFFICES ASSUME \A n \in 1..N : at[n] # k PROVE FALSE
    OBVIOUS
  <2>. DEFINE H == {n \in 0..N : at[n] # 0 /\ at[n] < k}
  <2>2. k \in 1..N
    BY <1>3
  <2>3. 0 \in H
    BY <1>1, <1>2, <1>10
  <2>4. ASSUME NEW n \in 1..N, n - 1 \in H
        PROVE  n \in H
    <3>1. at[n - 1] # 0 /\ at[n - 1] < k /\ n \in 0..N /\ at[n - 1] \in 0..N /\ at[n] \in 0..N
      BY <1>1, <1>4, <2>4
    <3>2. ~(k <= at[n - 1])
      BY <2>2, <3>1
    <3>3. at[n] \in playable /\ at[n] <= k
      BY <1>4, <3>1, <3>2
    <3>4. at[n] # k /\ at[n] \in 1..N
      BY <1>3, <2>1, <3>3
    <3>5. at[n] # 0 /\ at[n] < k
      BY <2>2, <3>3, <3>4
    <3>. QED  BY <3>1, <3>5
  <2>5. N \in H
    <3>1. N \in 0..N
      BY <1>1
    <3>. HIDE DEF H
    <3>. QED  BY <1>1, <2>3, <2>4, <3>1, CountingUp
  <2>. QED  BY <1>8, <2>5
<1>. QED  BY <1>8, <1>9, <1>10 DEF at, playable

LEMMA AroundAgain ==
  ASSUME QueueTypeOK, pos # 0, NEW a \in 0..Len(ids), NEW s \in 1..Len(ids),
         a + s <= Len(ids)
  PROVE  Around(Around(pos + a) + s) = Around(pos + (a + s))
<1>1. Len(order) = Len(ids) /\ Len(ids) \in Nat /\ pos \in 1..Len(ids)
  BY TypeFacts
<1>. QED  BY <1>1 DEF Around

\* The distances from the playhead, going round, at which an entry plays.
Distances(playable) == {d \in 1..Len(ids) : Around(pos + d) \in playable}

LEMMA DistancesMatch ==
  ASSUME QueueTypeOK, pos # 0, NEW playable \in SUBSET (1..Len(ids))
  PROVE  /\ Distances(playable) \in SUBSET (1..Len(ids))
         /\ Cardinality(Distances(playable)) = Cardinality(playable)
         /\ \A k \in playable : \E d \in Distances(playable) : Around(pos + d) = k
<1>. DEFINE N == Len(ids)
            D == Distances(playable)
            f == [d \in D |-> Around(pos + d)]
<1>1. Len(order) = N /\ N \in Nat /\ pos \in 1..N
  BY TypeFacts
<1>2. /\ D \in SUBSET (1..N) /\ \A d \in D : Around(pos + d) \in playable
      /\ \A d \in 1..N : Around(pos + d) \in playable => d \in D
  BY DEF Distances
<1>. HIDE DEF D
<1>3. \A d, e \in 1..N : Around(pos + d) = Around(pos + e) => d = e
  BY <1>1 DEF Around
<1>4. ASSUME NEW k \in playable
      PROVE  \E d \in D : Around(pos + d) = k
  <2>. DEFINE d == IF k > pos THEN k - pos ELSE k - pos + N
  <2>1. k \in 1..N
    OBVIOUS
  <2>2. d \in 1..N /\ Around(pos + d) = k
    BY <1>1, <2>1 DEF Around
  <2>. HIDE DEF d
  <2>. QED  BY <1>2, <2>2
<1>5. f \in [D -> playable]
  BY <1>2
<1>6. \A d, e \in D : f[d] = f[e] => d = e
  BY <1>2, <1>3
<1>7. \A k \in playable : \E d \in D : f[d] = k
  BY <1>4
<1>. HIDE DEF f
<1>8. f \in Bijection(D, playable)
  BY <1>5, <1>6, <1>7, Fun_IsBij
<1>9. ExistsBijection(D, playable)
  BY <1>8, Fun_ExistsBij
<1>10. IsFiniteSet(D)
  BY <1>1, <1>2, FinitelyMany
<1>11. Cardinality(D) = Cardinality(playable)
  BY <1>9, <1>10, FS_Bijection
<1>. QED  BY <1>2, <1>4, <1>11 DEF D

\* Repeat all: the n-th entry a pass visits is the n-th that can be opened,
\* going round from the playhead.
LEMMA PassGoesRound ==
  ASSUME QueueTypeOK, NEW available, pos # 0, repeat = "all"
  PROVE  LET D == Distances(PositionsOf(available)) IN
         \A n \in 1..Cardinality(D) : Pass(available)[n] = Around(pos + Nth(D, n))
<1>. DEFINE N == Len(ids)
            at == Pass(available)
            playable == PositionsOf(available)
            D == Distances(playable)
            c == Cardinality(D)
            G == {n \in 0..c : n = 0 \/ at[n] = Around(pos + Nth(D, n))}
<1>1. N \in Nat /\ Len(order) = N /\ pos \in 1..N
  BY TypeFacts
<1>2. /\ at[0] = pos /\ \A n \in 0..N : at[n] \in 0..N
      /\ \A n \in 1..N : at[n] = ForwardPosition(at[n - 1], TRUE, available)
  BY PassSteps
<1>3. playable \in SUBSET (1..N)
  BY TypeFacts DEF PositionsOf
<1>4. /\ D \in SUBSET (1..N)
      /\ \A d \in 1..N : d \in D <=> Around(pos + d) \in playable
  BY DEF Distances
<1>. HIDE DEF at, playable, D
<1>5. c \in Nat /\ c <= N
  <2>1. IsFiniteSet(1..N) /\ Cardinality(1..N) = N
    <3>1. /\ IsFiniteSet(1..N)
          /\ Cardinality(1..N) = IF 1 > N THEN 0 ELSE N - 1 + 1
      BY <1>1, FS_Interval
    <3>. QED  BY <1>1, <3>1
  <2>2. Cardinality(D) <= Cardinality(1..N)
    BY <1>4, <2>1, FS_Subset
  <2>3. Cardinality(D) \in Nat
    BY <1>1, <1>4, FinitelyMany
  <2>. QED  BY <2>1, <2>2, <2>3
<1>6. \A n \in 1..c : Nth(D, n) \in D
  BY <1>1, <1>4, NthOfRank
<1>. HIDE DEF c
<1>7. 0 \in G
  BY <1>5
<1>8. ASSUME NEW n \in 1..c, n - 1 \in G
      PROVE  n \in G
  <2>1. PICK before : before = IF n = 1 THEN 0 ELSE Nth(D, n - 1)
    OBVIOUS
  <2>2. PICK goal : goal = Nth(D, n)
    OBVIOUS
  <2>3. /\ before \in 0..N /\ before < goal
        /\ \A d \in D : ~(before < d /\ d < goal)
    BY <1>1, <1>4, <2>1, <2>2, NthNext DEF c
  <2>4. goal \in D /\ goal \in 1..N
    BY <1>4, <1>6, <2>2
  <2>5. at[n - 1] = Around(pos + before)
    <3>1. CASE n = 1
      <4>1. Around(pos + 0) = pos
        BY <1>1 DEF Around
      <4>2. before = 0 /\ n - 1 = 0
        BY <2>1, <3>1
      <4>. QED  BY <1>2, <4>1, <4>2
    <3>2. CASE n # 1
      <4>1. n - 1 # 0
        BY <3>2
      <4>. QED  BY <1>8, <2>1, <3>2, <4>1
    <3>. QED  BY <3>1, <3>2
  <2>6. PICK from \in 1..N : from = Around(pos + before)
    <3>1. Around(pos + before) \in 1..N
      BY <1>1, <2>3 DEF Around
    <3>. QED  BY <3>1
  <2>. DEFINE s == goal - before
  <2>7. s \in 1..N /\ before + s = goal /\ before + s <= N
    BY <1>1, <2>3, <2>4
  <2>. HIDE DEF s
  <2>8. Around(from + s) = Around(pos + goal)
    BY <2>3, <2>6, <2>7, AroundAgain
  <2>9. Around(from + s) \in playable
    BY <1>4, <2>4, <2>8
  <2>10. ASSUME NEW u \in 1..N, u < s
         PROVE  Around(from + u) \notin playable
    <3>1. PICK d \in 1..N : d = before + u
      BY <1>1, <2>3, <2>4, <2>7, <2>10
    <3>2. before < d /\ d < goal
      BY <1>1, <2>3, <2>4, <2>7, <2>10, <3>1
    <3>3. d \notin D
      BY <2>3, <3>2
    <3>4. before + u <= N
      BY <3>1
    <3>5. Around(from + u) = Around(pos + d)
      BY <2>3, <2>6, <3>1, <3>4, AroundAgain
    <3>. QED  BY <1>4, <3>3, <3>5
  <2>11. from \in 0..N /\ from # 0
    BY <1>1
  <2>12. ForwardPosition(from, TRUE, available) = Around(from + s)
    BY <2>7, <2>9, <2>10, <2>11, ForwardFacts DEF playable
  <2>13. n \in 1..N /\ n \in 0..c
    BY <1>5
  <2>14. at[n] = Around(pos + goal)
    BY <1>2, <2>5, <2>6, <2>8, <2>12, <2>13
  <2>. QED  BY <2>2, <2>13, <2>14
<1>9. \A n \in 0..c : n \in G
  <2>. HIDE DEF G
  <2>. QED  BY <1>5, <1>7, <1>8, CountingUp
<1>10. \A n \in 1..c : at[n] = Around(pos + Nth(D, n))
  <2>1. \A n \in 1..c : n \in 0..c /\ n # 0
    BY <1>5
  <2>. QED  BY <1>9, <2>1
<1>. QED  BY <1>10 DEF at, D, playable, c

LEMMA PassVisits ==
  ASSUME QueueTypeOK
  PROVE  PassesVisitWhatPlays
<1>1. SUFFICES ASSUME pos # 0, NEW available \in SUBSET Track
               PROVE  LET pass == Pass(available)
                          playable == PositionsOf(available)
                          reached(n) == {pass[k] : k \in 1..n}
                      IN  /\ reached(Len(order)) \subseteq playable \cup {0}
                          /\ repeat = "all" => reached(Cardinality(playable)) = playable
                          /\ repeat = "off" =>
                               /\ reached(Len(order)) \ {0} = {k \in playable : k > pos}
                               /\ pass[Len(order)] = 0
  BY Zenon DEF PassesVisitWhatPlays
<1>. DEFINE N == Len(ids)
            pass == Pass(available)
            playable == PositionsOf(available)
            reached(n) == {pass[k] : k \in 1..n}
            D == Distances(playable)
<1>2. N \in Nat /\ Len(order) = N /\ pos \in 1..N
  BY <1>1, TypeFacts
<1>3. playable \in SUBSET (1..N)
  BY TypeFacts DEF PositionsOf
<1>4. \A n \in 1..N : pass[n] = 0 \/ pass[n] \in playable
  <2>1. ASSUME NEW n \in 1..N
        PROVE  pass[n] = 0 \/ pass[n] \in playable
    <3>1. /\ \A k \in 0..N : pass[k] \in 0..N
          /\ pass[n] = ForwardPosition(pass[n - 1], TRUE, available)
      BY PassSteps
    <3>2. n - 1 \in 0..N
      BY <1>2
    <3>3. PICK from \in 0..N : from = pass[n - 1]
      BY <3>1, <3>2
    <3>4. LET next == ForwardPosition(from, TRUE, available) IN next = 0 \/ next \in playable
      BY ForwardFacts
    <3>. QED  BY <3>1, <3>3, <3>4
  <2>. QED  BY <2>1
<1>5. reached(N) \subseteq playable \cup {0}
  <2>. HIDE DEF pass, playable
  <2>. QED  BY <1>4
<1>6. ASSUME repeat = "all"
      PROVE  reached(Cardinality(playable)) = playable
  <2>1. /\ D \in SUBSET (1..N) /\ Cardinality(D) = Cardinality(playable)
        /\ \A k \in playable : \E d \in D : Around(pos + d) = k
    BY <1>1, <1>3, DistancesMatch
  <2>2. \A d \in D : Around(pos + d) \in playable
    BY DEF Distances
  <2>3. \A n \in 1..Cardinality(D) : pass[n] = Around(pos + Nth(D, n))
    BY <1>1, <1>6, PassGoesRound
  <2>. HIDE DEF pass, playable, D
  <2>4. /\ \A n \in 1..Cardinality(D) : Nth(D, n) \in D
        /\ \A d \in D : Nth(D, Rank(D, d)) = d
    BY <1>2, <2>1, NthOfRank
  <2>5. \A d \in D : Rank(D, d) \in 1..Cardinality(D)
    BY <1>2, <2>1, RankRange
  <2>6. \A n \in 1..Cardinality(D) : pass[n] \in playable
    BY <2>2, <2>3, <2>4
  <2>7. ASSUME NEW k \in playable
        PROVE  \E n \in 1..Cardinality(D) : pass[n] = k
    <3>1. PICK d \in D : Around(pos + d) = k
      BY <2>1
    <3>2. Rank(D, d) \in 1..Cardinality(D) /\ Nth(D, Rank(D, d)) = d
      BY <2>4, <2>5
    <3>3. pass[Rank(D, d)] = k
      BY <2>3, <3>1, <3>2
    <3>. QED  BY <3>2, <3>3
  <2>8. reached(Cardinality(D)) = playable
    BY <2>6, <2>7
  <2>. QED  BY <2>1, <2>8, Zenon
<1>7. ASSUME repeat = "off"
      PROVE  reached(N) \ {0} = {k \in playable : k > pos} /\ pass[N] = 0
  <2>1. /\ \A n \in 1..N : pass[n] = 0 \/ (pass[n] \in playable /\ pass[n] > pos)
        /\ \A k \in playable : k > pos => \E n \in 1..N : pass[n] = k
        /\ pass[N] = 0
    BY <1>1, <1>7, PassEnds
  <2>2. 0 \notin playable
    BY <1>3
  <2>. HIDE DEF pass, playable
  <2>. QED  BY <2>1, <2>2
<1>. QED  BY <1>2, <1>5, <1>6, <1>7, Zenon

\* Left alone, playback visits every entry that can be opened once before it
\* comes round or ends, and no other, whatever was done to the queue before.
THEOREM PassesVisitEverything == Spec => []PassesVisitWhatPlays
<1>1. QueueTypeOK => PassesVisitWhatPlays
  BY PassVisits
<1>. QED  BY <1>1, OrderStaysAPermutation, PTL

=============================================================================
