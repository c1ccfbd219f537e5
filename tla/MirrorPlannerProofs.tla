------------------------ MODULE MirrorPlannerProofs ------------------------
(***************************************************************************)
(* What the planner computes, for every library, inventory and device: the *)
(* collision slots it gives are free and apart, the lists of a plan hold   *)
(* what they are made of once, and no removal it plans takes a file that   *)
(* the plan wants or retains.                                              *)
(***************************************************************************)
EXTENDS MirrorPlanner, FiniteSetTheorems, FunctionTheorems, SequenceTheorems,
        WellFoundedInduction, TLAPS

-----------------------------------------------------------------------------
(* Counting.                                                               *)

LEMMA LeastMember ==
  ASSUME NEW S \in SUBSET Nat, S # {}
  PROVE  Least(S) \in S /\ \A j \in S : Least(S) <= j
<1>1. PICK k \in S : \A j \in S : <<j, k>> \notin OpToRel(<, Nat)
  BY NatLessThanWellFounded, WFMin
<1>2. \A j \in S : ~ (j < k)
  BY <1>1 DEF OpToRel
<1>3. \A j \in S : k <= j
  BY <1>2
<1> QED
  BY <1>3 DEF Least

\* A sequence that holds every member of S once.
Enumerates(order, S) ==
  /\ Cardinality(S) \in Nat
  /\ order \in [1..Cardinality(S) -> S]
  /\ \A x \in S : \E n \in 1..Cardinality(S) : order[n] = x
  /\ \A j, k \in 1..Cardinality(S) : order[j] = order[k] => j = k

\* `below` says of each member which others come before it.
RanksAll(below, S) ==
  /\ below \in [S -> SUBSET S]
  /\ \A x \in S : x \notin below[x]
  /\ \A x, y \in S :
       \/ x = y
       \/ x \in below[y] /\ below[x] \subseteq below[y]
       \/ y \in below[x] /\ below[y] \subseteq below[x]

\* The members of a finite set, each at the place that as many others precede,
\* are listed once each.
LEMMA Listed ==
  ASSUME NEW S, IsFiniteSet(S), NEW below, RanksAll(below, S)
  PROVE  Enumerates(Sorted(S, below), S)
<1> DEFINE order == Sorted(S, below)
           T == 1..Cardinality(S)
           place == [x \in S |-> Cardinality(below[x]) + 1]
<1> USE DEF RanksAll
<1>1. Cardinality(S) \in Nat
  BY FS_CardinalityType
<1>2. ASSUME NEW x \in S
      PROVE  /\ IsFiniteSet(below[x]) /\ Cardinality(below[x]) \in Nat
             /\ Cardinality(below[x]) < Cardinality(S)
  <2>1. below[x] \in SUBSET S /\ below[x] # S
    OBVIOUS
  <2>2. /\ IsFiniteSet(below[x]) /\ Cardinality(below[x]) <= Cardinality(S)
        /\ Cardinality(S) # Cardinality(below[x])
    BY <2>1, FS_Subset
  <2>3. Cardinality(below[x]) \in Nat
    BY <2>2, FS_CardinalityType
  <2> QED
    BY <1>1, <2>2, <2>3
<1>3. ASSUME NEW x \in S, NEW y \in S, x \in below[y], below[x] \subseteq below[y]
      PROVE  Cardinality(below[x]) # Cardinality(below[y])
  <2>1. below[x] \in SUBSET below[y] /\ below[x] # below[y]
    BY <1>3
  <2> QED
    BY <1>2, <2>1, FS_Subset
<1>4. \A x, y \in S : Cardinality(below[x]) = Cardinality(below[y]) => x = y
  BY <1>3
<1>5. place \in [S -> T] /\ \A x, y \in S : place[x] = place[y] => x = y
  <2>1. \A x \in S : Cardinality(below[x]) + 1 \in T
    BY <1>1, <1>2
  <2>2. \A x, y \in S : Cardinality(below[x]) + 1 = Cardinality(below[y]) + 1
                          => Cardinality(below[x]) = Cardinality(below[y])
    BY <1>2
  <2> QED
    BY <1>4, <2>1, <2>2
<1>6. IsFiniteSet(T) /\ Cardinality(T) = Cardinality(S)
  BY <1>1, FS_Interval
<1> HIDE DEF T, place
<1>7. place \in Surjection(S, T)
  BY <1>5, <1>6, Fun_IsInj, FS_Injection
<1>8. \A n \in T : \E x \in S : place[x] = n
  BY <1>7, Fun_SurjectionProperties
<1>9. \A n \in T : order[n] \in S /\ Cardinality(below[order[n]]) = n - 1
  <2> SUFFICES ASSUME NEW n \in T
               PROVE  order[n] \in S /\ Cardinality(below[order[n]]) = n - 1
    OBVIOUS
  <2>1. PICK x \in S : place[x] = n
    BY <1>8
  <2>2. Cardinality(below[x]) = n - 1
    BY <1>2, <2>1 DEF place
  <2>3. order[n] = CHOOSE y \in S : Cardinality(below[y]) = n - 1
    BY DEF T, Sorted
  <2> QED
    BY <2>2, <2>3
<1>10. order \in [T -> S]
  BY <1>9 DEF T, Sorted
<1> HIDE DEF order
<1>11. \A x \in S : \E n \in T : order[n] = x
  <2> SUFFICES ASSUME NEW x \in S PROVE order[place[x]] = x /\ place[x] \in T
    OBVIOUS
  <2>1. place[x] \in T /\ Cardinality(below[x]) = place[x] - 1
    BY <1>2, <1>5 DEF place
  <2> QED
    BY <1>4, <1>9, <2>1
<1>12. \A j, k \in T : order[j] = order[k] => j = k
  <2> SUFFICES ASSUME NEW j \in T, NEW k \in T, order[j] = order[k] PROVE j = k
    OBVIOUS
  <2>1. j - 1 = k - 1
    BY <1>9
  <2> QED
    BY <1>1, <2>1 DEF T
<1> QED
  BY <1>1, <1>10, <1>11, <1>12 DEF T, order, Enumerates

LEMMA AscendingListed ==
  ASSUME NEW numbers \in SUBSET Nat, IsFiniteSet(numbers)
  PROVE  Enumerates(Ascending(numbers), numbers)
<1> DEFINE below == [x \in numbers |-> {j \in numbers : j < x}]
<1>1. \A x \in numbers : x \notin below[x]
  BY SMT
<1>2. below \in [numbers -> SUBSET numbers]
  OBVIOUS
<1>3. ASSUME NEW x \in numbers, NEW y \in numbers, x < y
      PROVE  x \in below[y] /\ below[x] \subseteq below[y]
  <2>1. \A j \in numbers : j < x => j < y
    BY <1>3
  <2> QED
    BY <1>3, <2>1
<1>4. \A x, y \in numbers : x = y \/ x < y \/ y < x
  BY SMT
<1>5. Ascending(numbers) = Sorted(numbers, below)
  BY DEF Ascending
<1> HIDE DEF below
<1>6. \A x, y \in numbers :
        \/ x = y
        \/ x \in below[y] /\ below[x] \subseteq below[y]
        \/ y \in below[x] /\ below[y] \subseteq below[x]
  BY <1>3, <1>4
<1>7. Enumerates(Sorted(numbers, below), numbers)
  <2>1. RanksAll(below, numbers)
    BY <1>1, <1>2, <1>6 DEF RanksAll
  <2> QED
    BY <2>1, Listed
<1> QED
  BY <1>5, <1>7

-----------------------------------------------------------------------------
(* Free slots.                                                             *)

LEMMA NthFree ==
  ASSUME NEW taken, IsFiniteSet(taken), NEW rank \in Nat, rank # 0
  PROVE  \E slot \in 1..(Cardinality(taken) + rank) :
           slot \notin taken /\ Cardinality((1..slot) \ taken) = rank
<1> DEFINE Free(n) == (1..n) \ taken
           bound == Cardinality(taken) + rank
           enough == {n \in Nat : rank <= Cardinality(Free(n))}
           slot == Least(enough)
<1>1. Cardinality(taken) \in Nat
  BY FS_CardinalityType
<1>2. ASSUME NEW n \in Nat
      PROVE  /\ IsFiniteSet(1..n) /\ Cardinality(1..n) = n
             /\ IsFiniteSet(Free(n)) /\ Cardinality(Free(n)) \in Nat
  <2>1. IsFiniteSet(1..n) /\ Cardinality(1..n) = n
    BY FS_Interval
  <2>2. IsFiniteSet(Free(n))
    BY <2>1, FS_Subset
  <2> QED
    BY <2>1, <2>2, FS_CardinalityType
<1>3. bound \in enough
  <2>1. bound \in Nat
    BY <1>1
  <2>2. IsFiniteSet(1..bound) /\ Cardinality(1..bound) = bound
    BY <1>2, <2>1
  <2> DEFINE hit == (1..bound) \cap taken
  <2>3. Cardinality(Free(bound)) = Cardinality(1..bound) - Cardinality(hit)
    <3> HIDE DEF bound
    <3> QED
      BY <2>2, FS_Difference
  <2>4. Cardinality(hit) \in Nat /\ Cardinality(hit) <= Cardinality(taken)
    <3>1. hit \in SUBSET taken
      OBVIOUS
    <3> HIDE DEF hit
    <3> QED
      BY <3>1, FS_Subset, FS_CardinalityType
  <2> QED
    BY <1>1, <2>1, <2>2, <2>3, <2>4
<1>4. slot \in enough /\ \A n \in enough : slot <= n
  <2>1. enough \in SUBSET Nat /\ enough # {}
    BY <1>3
  <2> HIDE DEF enough
  <2> QED
    BY <2>1, LeastMember
<1> HIDE DEF slot
<1>5. slot \in Nat /\ rank <= Cardinality(Free(slot)) /\ slot <= bound
  BY <1>3, <1>4
<1>6. slot # 0
  <2> SUFFICES ASSUME slot = 0 PROVE FALSE
    OBVIOUS
  <2>1. Free(slot) = {}
    OBVIOUS
  <2> HIDE DEF Free
  <2>2. Cardinality(Free(slot)) = 0
    BY <2>1, FS_EmptySet
  <2> QED
    BY <1>5, <2>2
<1> HIDE DEF Free
<1>7. PICK n \in Nat : slot = n + 1
  <2>1. slot - 1 \in Nat /\ slot = (slot - 1) + 1
    BY <1>5, <1>6
  <2> QED
    BY <2>1
<1>8. Cardinality(Free(n)) < rank
  <2>1. n \notin enough
    BY <1>4, <1>7
  <2> QED
    BY <1>2, <2>1
<1>9. slot \notin taken
  <2> SUFFICES ASSUME slot \in taken PROVE FALSE
    OBVIOUS
  <2>1. Free(slot) = Free(n)
    BY <1>7 DEF Free
  <2> QED
    BY <1>2, <1>5, <1>8, <2>1
<1>10. Cardinality(Free(slot)) = Cardinality(Free(n)) + 1
  <2>1. Free(slot) = Free(n) \cup {slot} /\ slot \notin Free(n)
    BY <1>7, <1>9 DEF Free
  <2> QED
    BY <1>2, <2>1, FS_AddElement
<1>11. Cardinality(Free(slot)) = rank
  BY <1>2, <1>5, <1>8, <1>10
<1>12. slot \in 1..bound
  BY <1>1, <1>5, <1>6
<1> QED
  BY <1>9, <1>11, <1>12 DEF Free

\* The slots of a name's claimants, and those who come without one.
Claims(at, newcomers) ==
  /\ DOMAIN at \subseteq Nat /\ IsFiniteSet(DOMAIN at)
  /\ newcomers \subseteq Nat /\ IsFiniteSet(newcomers)
Rank(newcomers, c) == Cardinality({d \in newcomers : d <= c})
Taken(at) == {at[d] : d \in DOMAIN at}

LEMMA TakenFew ==
  ASSUME NEW at, IsFiniteSet(DOMAIN at)
  PROVE  /\ IsFiniteSet(Taken(at)) /\ Cardinality(Taken(at)) \in Nat
         /\ Cardinality(Taken(at)) <= Cardinality(DOMAIN at)
<1> DEFINE S == DOMAIN at
           T == Taken(at)
           g == [d \in S |-> at[d]]
<1>1. g \in [S -> T] /\ \A v \in T : \E d \in S : g[d] = v
  BY DEF Taken
<1> HIDE DEF T, g
<1>2. g \in Surjection(S, T)
  BY <1>1 DEF Surjection
<1> HIDE DEF S
<1>3. IsFiniteSet(T) /\ Cardinality(T) <= Cardinality(S)
  BY <1>2, FS_Surjection DEF S
<1> QED
  BY <1>3, FS_CardinalityType DEF S, T

LEMMA RankRange ==
  ASSUME NEW newcomers \in SUBSET Nat, IsFiniteSet(newcomers), NEW c \in newcomers
  PROVE  /\ Rank(newcomers, c) \in Nat /\ Rank(newcomers, c) # 0
         /\ Rank(newcomers, c) <= Cardinality(newcomers)
<1> DEFINE upTo == {d \in newcomers : d <= c}
<1>1. upTo \in SUBSET newcomers /\ upTo # {}
  OBVIOUS
<1> HIDE DEF upTo
<1>2. IsFiniteSet(upTo) /\ Cardinality(upTo) <= Cardinality(newcomers)
  BY <1>1, FS_Subset
<1>3. Cardinality(upTo) \in Nat /\ Cardinality(upTo) # 0
  BY <1>1, <1>2, FS_CardinalityType, FS_EmptySet
<1> QED
  BY <1>2, <1>3 DEF Rank, upTo

LEMMA RanksApart ==
  ASSUME NEW newcomers \in SUBSET Nat, IsFiniteSet(newcomers),
         NEW c \in newcomers, NEW d \in newcomers, c < d
  PROVE  Rank(newcomers, c) # Rank(newcomers, d)
<1> DEFINE Upto(k) == {j \in newcomers : j <= k}
<1>1. Upto(c) \in SUBSET Upto(d) /\ Upto(d) \in SUBSET newcomers
  <2>1. \A j \in newcomers : j <= c => j <= d
    OBVIOUS
  <2> QED
    BY <2>1
<1>2. d \notin Upto(c) /\ d \in Upto(d)
  <2>1. d <= d /\ ~(d <= c)
    OBVIOUS
  <2> QED
    BY <2>1
<1> HIDE DEF Upto
<1>3. IsFiniteSet(Upto(d)) /\ Upto(c) # Upto(d)
  BY <1>1, <1>2, FS_Subset
<1>4. Cardinality(Upto(c)) # Cardinality(Upto(d))
  BY <1>1, <1>3, FS_Subset
<1> QED
  BY <1>4 DEF Rank, Upto

\* A newcomer's slot is a small number that nobody holds.
LEMMA FreeSlotIsFree ==
  ASSUME NEW at, NEW newcomers, Claims(at, newcomers), NEW c \in newcomers
  PROVE  LET slot == FreeSlot(at, newcomers, c)
         IN  /\ slot \in 1..(Cardinality(DOMAIN at) + Cardinality(newcomers))
             /\ slot \notin Taken(at)
             /\ Cardinality((1..slot) \ Taken(at)) = Rank(newcomers, c)
<1> DEFINE slot == FreeSlot(at, newcomers, c)
           taken == Taken(at)
           rank == Rank(newcomers, c)
<1>1. /\ IsFiniteSet(taken) /\ Cardinality(taken) \in Nat
      /\ Cardinality(taken) <= Cardinality(DOMAIN at)
  BY TakenFew DEF Claims
<1>2. rank \in Nat /\ rank # 0 /\ rank <= Cardinality(newcomers)
  BY RankRange DEF Claims
<1>3. slot = CHOOSE s \in 1..(Cardinality(taken) + rank) :
               s \notin taken /\ Cardinality((1..s) \ taken) = rank
  BY DEF FreeSlot, Taken, Rank
<1> HIDE DEF taken, rank, slot
<1>4. /\ slot \in 1..(Cardinality(taken) + rank)
      /\ slot \notin taken /\ Cardinality((1..slot) \ taken) = rank
  BY <1>1, <1>2, <1>3, NthFree
<1>5. Cardinality(DOMAIN at) \in Nat /\ Cardinality(newcomers) \in Nat
  BY FS_CardinalityType DEF Claims
<1>6. slot \in 1..(Cardinality(DOMAIN at) + Cardinality(newcomers))
  BY <1>1, <1>2, <1>4, <1>5
<1> QED
  BY <1>4, <1>6 DEF taken, rank, slot

\* Two newcomers never get one slot.
LEMMA FreeSlotsApart ==
  ASSUME NEW at, NEW newcomers, Claims(at, newcomers),
         NEW c \in newcomers, NEW d \in newcomers,
         FreeSlot(at, newcomers, c) = FreeSlot(at, newcomers, d)
  PROVE  c = d
<1>1. Rank(newcomers, c) = Rank(newcomers, d)
  BY FreeSlotIsFree
<1> QED
  BY <1>1, RanksApart DEF Claims

-----------------------------------------------------------------------------
(* The names of desired files.                                             *)

\* What the planner is given: tracks of one CUE file agree about the file.
IsInput(i) ==
  /\ i.lib \in Library /\ IsStore(i.store)
  /\ \A file \in CueFile : \A t, u \in file :
       /\ i.lib.stem[t] = i.lib.stem[u]
       /\ i.lib.version[t] = i.lib.version[u]
       /\ t \in i.lib.present <=> u \in i.lib.present

LEMMA UnitFacts ==
  ASSUME NEW t \in Track
  PROVE  /\ t \in Unit(t) /\ Unit(t) \in SUBSET Track
         /\ Unit(t) # {t} => IsCue(t)
         /\ \A u \in Unit(t) : Unit(u) = Unit(t)
<1>1. CASE \E f \in CueFile : t \in f
  <2>1. PICK f \in CueFile : t \in f
    BY <1>1
  <2>2. Unit(t) = f
    <3>1. Unit(t) \in CueFile /\ t \in Unit(t)
      BY <2>1 DEF Unit
    <3> QED
      BY <2>1, <3>1, CueFilesAreDisjoint
  <2>3. \A u \in f : Unit(u) = f
    <3> TAKE u \in f
    <3>1. Unit(u) \in CueFile /\ u \in Unit(u)
      BY <2>1 DEF Unit
    <3> QED
      BY <2>1, <3>1, CueFilesAreDisjoint
  <2> QED
    BY <2>1, <2>2, <2>3, CueFilesAreDisjoint DEF IsCue
<1>2. CASE ~ \E f \in CueFile : t \in f
  BY <1>2 DEF Unit
<1> QED
  BY <1>1, <1>2

LEMMA UnitsApart ==
  ASSUME NEW t \in Track, NEW u \in Track, NEW v, v \in Unit(t), v \in Unit(u)
  PROVE  Unit(t) = Unit(u)
<1>1. v \in Track /\ Unit(v) = Unit(t) /\ Unit(v) = Unit(u)
  BY UnitFacts
<1> QED
  BY <1>1

LEMMA InputParts ==
  ASSUME NEW i, IsInput(i)
  PROVE  /\ Desired(i) \in SUBSET Track /\ Desired(i) \in SUBSET Nat
         /\ IsFiniteSet(Desired(i))
         /\ RowTracks(i) \in SUBSET Track /\ IsFiniteSet(RowTracks(i))
         /\ \A t \in Track : i.lib.stem[t] \in Stem /\ Mode(i.lib, t) \in Profile
         /\ \A t \in RowTracks(i) : RowPath(i, t) \in Path
<1>1. i.lib \in Library /\ IsPartialFunction(i.store.rows, Track, Row)
  BY DEF IsInput, IsStore
<1>2. Desired(i) \in SUBSET Track
  BY <1>1 DEF Desired, Wanted, Library
<1>3. RowTracks(i) \in SUBSET Track
  BY <1>1 DEF RowTracks, IsPartialFunction
<1>4. IsFiniteSet(Desired(i)) /\ IsFiniteSet(RowTracks(i))
  BY <1>2, <1>3, FS_Subset, TracksAreOrdered
<1>5. \A t \in RowTracks(i) : RowPath(i, t) \in Path
  BY <1>1 DEF RowTracks, RowPath, IsPartialFunction, Row
<1>6. \A t \in Track : i.lib.stem[t] \in Stem /\ Mode(i.lib, t) \in Profile
  BY <1>1, OriginalIsAProfile DEF Library, Mode
<1> QED
  BY <1>2, <1>3, <1>4, <1>5, <1>6, TracksAreOrdered

\* Tracks of one unit are the same to the planner in all that names a file.
LEMMA SiblingsAgree ==
  ASSUME NEW i, IsInput(i), NEW t \in Track, NEW u \in Unit(t)
  PROVE  /\ u \in Track /\ Unit(u) = Unit(t)
         /\ i.lib.stem[u] = i.lib.stem[t]
         /\ i.lib.version[u] = i.lib.version[t]
         /\ Mode(i.lib, u) = Mode(i.lib, t)
<1>1. u \in Track /\ t \in Unit(t) /\ Unit(u) = Unit(t)
  BY UnitFacts
<1>2. CASE u = t
  BY <1>1, <1>2
<1>3. CASE u # t
  <2>1. Unit(t) \in CueFile
    BY <1>3, UnitFacts DEF IsCue
  <2>2. t \in Lossless <=> u \in Lossless
    BY <1>1, <2>1, CueFilesAreDisjoint
  <2> QED
    BY <1>1, <2>1, <2>2 DEF IsInput, Mode
<1> QED
  BY <1>2, <1>3

LEMMA LeaderFacts ==
  ASSUME NEW i, IsInput(i), NEW t \in Desired(i)
  PROVE  /\ Leader(i, t) \in Unit(t) /\ Leader(i, t) \in Desired(i)
         /\ Unit(Leader(i, t)) = Unit(t)
         /\ \A u \in Desired(i) : Unit(u) = Unit(t) => Leader(i, u) = Leader(i, t)
<1> DEFINE S == Unit(t) \cap Desired(i)
<1>1. t \in Track /\ t \in Unit(t)
  BY InputParts, UnitFacts
<1>2. S \in SUBSET Nat /\ S # {}
  BY <1>1, InputParts
<1>3. Least(S) \in S
  <2> HIDE DEF S
  <2> QED
    BY <1>2, LeastMember
<1>4. Leader(i, t) \in Unit(t) /\ Leader(i, t) \in Desired(i)
  BY <1>3 DEF Leader
<1> QED
  BY <1>1, <1>4, UnitFacts DEF Leader

-----------------------------------------------------------------------------

RowSlots(i, stem) ==
  [u \in {v \in RowTracks(i) : RowPath(i, v).stem = stem} |-> RowPath(i, u).slot]
Owning(i, t) == Owners(RowSlots(i, i.lib.stem[t])) \cap Unit(t)
Newcomers(i, stem) ==
  {Leader(i, u) : u \in {v \in Desired(i) :
                           /\ i.lib.stem[v] = stem
                           /\ Owners(RowSlots(i, stem)) \cap Unit(v) = {}}}
DesiredSlot(i, t) ==
  IF Owning(i, t) # {}
  THEN RowSlots(i, i.lib.stem[t])[Least(Owning(i, t))]
  ELSE FreeSlot(RowSlots(i, i.lib.stem[t]), Newcomers(i, i.lib.stem[t]), Leader(i, t))

LEMMA DesiredPathParts ==
  ASSUME NEW i, NEW t
  PROVE  DesiredPath(i, t) =
           AudioPath(i.lib.stem[t], DesiredSlot(i, t), Extension[Mode(i.lib, t)])
BY DEF DesiredPath, DesiredSlot, Owning, RowSlots, Newcomers

\* Every slot that is taken has an owner, and only one.
LEMMA OwnersFacts ==
  ASSUME NEW at, DOMAIN at \in SUBSET Nat
  PROVE  /\ Owners(at) \in SUBSET DOMAIN at
         /\ \A c, d \in Owners(at) : at[c] = at[d] => c = d
         /\ \A d \in DOMAIN at : \E c \in Owners(at) : at[c] = at[d]
<1>1. Owners(at) \in SUBSET DOMAIN at
  BY DEF Owners
<1>2. \A c, d \in Owners(at) : at[c] = at[d] => c <= d /\ d <= c
  BY DEF Owners
<1>3. \A c, d \in Owners(at) : at[c] = at[d] => c = d
  <2>1. \A c, d \in Nat : c <= d /\ d <= c => c = d
    OBVIOUS
  <2> QED
    BY <1>1, <1>2, <2>1
<1>4. ASSUME NEW d \in DOMAIN at
      PROVE  \E c \in Owners(at) : at[c] = at[d]
  <2> DEFINE S == {c \in DOMAIN at : at[c] = at[d]}
  <2>1. S \in SUBSET Nat /\ S # {}
    OBVIOUS
  <2>2. Least(S) \in S /\ \A c \in S : Least(S) <= c
    <3> HIDE DEF S
    <3> QED
      BY <2>1, LeastMember
  <2>3. Least(S) \in Owners(at)
    BY <2>2 DEF Owners
  <2> QED
    BY <2>2, <2>3
<1> QED
  BY <1>1, <1>3, <1>4

LEMMA RowSlotsClaim ==
  ASSUME NEW i, IsInput(i), NEW stem
  PROVE  /\ Claims(RowSlots(i, stem), Newcomers(i, stem))
         /\ DOMAIN RowSlots(i, stem) \in SUBSET Track
         /\ Newcomers(i, stem) \in SUBSET Track
         /\ \A t \in DOMAIN RowSlots(i, stem) :
              /\ t \in RowTracks(i)
              /\ RowPath(i, t).stem = stem
              /\ RowSlots(i, stem)[t] = RowPath(i, t).slot
<1>1. Newcomers(i, stem) \in SUBSET Desired(i)
  BY LeaderFacts DEF Newcomers
<1>2. DOMAIN RowSlots(i, stem) \in SUBSET RowTracks(i)
  BY DEF RowSlots
<1>3. IsFiniteSet(Newcomers(i, stem)) /\ IsFiniteSet(DOMAIN RowSlots(i, stem))
  BY <1>1, <1>2, InputParts, FS_Subset
<1>4. DOMAIN RowSlots(i, stem) \in SUBSET Track /\ Newcomers(i, stem) \in SUBSET Track
  BY <1>1, <1>2, InputParts
<1> QED
  BY <1>2, <1>3, <1>4, TracksAreOrdered DEF Claims, RowSlots

LEMMA PathParts ==
  /\ \A path \in Path : path.slot \in Slot
  /\ \A stem \in Stem, slot \in Slot, profile \in Profile :
       LET path == AudioPath(stem, slot, Extension[profile])
       IN  path \in Path /\ SidecarOf(path) \in Path
  /\ \A stem \in Stem, slot \in Slot : ListPath(stem, slot) \in Path
<1> DEFINE audio == {AudioPath(stem, slot, Extension[profile]) :
                       stem \in Stem, slot \in Slot, profile \in Profile}
           sidecars == {AnalysisPath(stem, slot) : stem \in Stem, slot \in Slot}
           lists == {ListPath(stem, slot) : stem \in Stem, slot \in Slot}
<1>1. Path = audio \cup sidecars \cup lists
  BY PathsAreNames DEF DevicePath
<1>2. \A path \in audio : path.slot \in Slot
  BY DEF AudioPath
<1>3. \A path \in lists : path.slot \in Slot
  BY DEF ListPath
<1>4. \A path \in sidecars : path.slot \in Slot
  BY DEF AnalysisPath
<1>5. \A stem \in Stem, slot \in Slot, profile \in Profile :
        AudioPath(stem, slot, Extension[profile]) \in audio
  OBVIOUS
<1>6. /\ \A stem \in Stem, slot \in Slot : ListPath(stem, slot) \in lists
      /\ \A stem \in Stem, slot \in Slot : AnalysisPath(stem, slot) \in sidecars
  OBVIOUS
<1>7. \A stem, slot, extension :
        SidecarOf(AudioPath(stem, slot, extension)) = AnalysisPath(stem, slot)
  <2> TAKE stem, slot, extension
  <2>1. [AudioPath(stem, slot, extension) EXCEPT !.kind = "analysis"] =
          [kind |-> "analysis", stem |-> stem, slot |-> slot, extension |-> extension]
    BY DEF AudioPath
  <2>2. [[kind |-> "analysis", stem |-> stem, slot |-> slot, extension |-> extension]
           EXCEPT !.extension = "analysis"] = AnalysisPath(stem, slot)
    BY DEF AnalysisPath
  <2> QED
    BY <2>1, <2>2 DEF SidecarOf
<1> HIDE DEF audio, sidecars, lists
<1> QED
  BY <1>1, <1>2, <1>3, <1>4, <1>5, <1>6, <1>7

\* A newcomer's number is among the numbers there are.
LEMMA NewcomersFit ==
  ASSUME NEW at, NEW newcomers, Claims(at, newcomers), NEW c \in newcomers,
         \/ DOMAIN at \subseteq Track /\ newcomers \subseteq Track
         \/ DOMAIN at \subseteq Source /\ newcomers \subseteq Source
  PROVE  FreeSlot(at, newcomers, c) \in Slot
<1> DEFINE slot == FreeSlot(at, newcomers, c)
<1>1. slot \in 1..(Cardinality(DOMAIN at) + Cardinality(newcomers))
  BY FreeSlotIsFree
<1>2. Cardinality(Track) \in Nat /\ Cardinality(Source) \in Nat
  BY TracksAreOrdered, FS_CardinalityType
<1>3. Cardinality(DOMAIN at) \in Nat /\ Cardinality(newcomers) \in Nat
  BY FS_CardinalityType DEF Claims
<1>4. \/ /\ Cardinality(DOMAIN at) <= Cardinality(Track)
         /\ Cardinality(newcomers) <= Cardinality(Track)
      \/ /\ Cardinality(DOMAIN at) <= Cardinality(Source)
         /\ Cardinality(newcomers) <= Cardinality(Source)
  BY TracksAreOrdered, FS_Subset
<1> HIDE DEF slot
<1>5. slot \in 1..(2 * (Cardinality(Track) + Cardinality(Source)))
  BY <1>1, <1>2, <1>3, <1>4
<1> QED
  BY <1>5 DEF slot, Slot

\* A wanted track takes the slot of an owner of its file, or one nobody has.
LEMMA DesiredSlotFrom ==
  ASSUME NEW i, IsInput(i), NEW t \in Desired(i), NEW at, NEW newcomers,
         at = RowSlots(i, i.lib.stem[t]), newcomers = Newcomers(i, i.lib.stem[t])
  PROVE  \/ \E o \in Owners(at) : o \in Unit(t) /\ DesiredSlot(i, t) = at[o]
         \/ /\ Leader(i, t) \in newcomers
            /\ DesiredSlot(i, t) = FreeSlot(at, newcomers, Leader(i, t))
<1> DEFINE owning == Owners(at) \cap Unit(t)
<1>1. owning = Owning(i, t)
  BY DEF Owning
<1>2. CASE owning # {}
  <2>1. owning \in SUBSET Nat
    BY OwnersFacts, RowSlotsClaim DEF Claims
  <2>2. Least(owning) \in owning
    <3> HIDE DEF owning
    <3> QED
      BY <1>2, <2>1, LeastMember
  <2>3. DesiredSlot(i, t) = at[Least(owning)]
    BY <1>1, <1>2 DEF DesiredSlot
  <2> QED
    BY <2>2, <2>3
<1>3. CASE owning = {}
  <2>1. DesiredSlot(i, t) = FreeSlot(at, newcomers, Leader(i, t))
    BY <1>1, <1>3 DEF DesiredSlot
  <2>2. Leader(i, t) \in newcomers
    BY <1>3 DEF Newcomers
  <2> QED
    BY <2>1, <2>2
<1> QED
  BY <1>2, <1>3

LEMMA DesiredSlotInRange ==
  ASSUME NEW i, IsInput(i), NEW t \in Desired(i)
  PROVE  DesiredSlot(i, t) \in Slot
<1>1. PICK at, newcomers : /\ at = RowSlots(i, i.lib.stem[t])
                           /\ newcomers = Newcomers(i, i.lib.stem[t])
  OBVIOUS
<1>2. /\ Claims(at, newcomers)
      /\ DOMAIN at \subseteq Track /\ newcomers \subseteq Track
      /\ \A u \in DOMAIN at : at[u] \in Slot
  BY <1>1, RowSlotsClaim, InputParts, PathParts
<1>3. Owners(at) \subseteq DOMAIN at
  BY <1>2, OwnersFacts DEF Claims
<1> QED
  BY <1>1, <1>2, <1>3, DesiredSlotFrom, NewcomersFit

\* The file of a wanted track has a name, which its siblings share.
LEMMA DesiredPathNamed ==
  ASSUME NEW i, IsInput(i), NEW t \in Desired(i)
  PROVE  /\ DesiredPath(i, t) \in Path /\ SidecarOf(DesiredPath(i, t)) \in Path
         /\ DesiredPath(i, t).stem = i.lib.stem[t]
         /\ DesiredPath(i, t).slot = DesiredSlot(i, t)
         /\ DesiredPath(i, t).extension = Extension[Mode(i.lib, t)]
         /\ DesiredPath(i, t).kind = "audio"
<1>1. /\ i.lib.stem[t] \in Stem /\ Mode(i.lib, t) \in Profile
      /\ DesiredSlot(i, t) \in Slot
  BY InputParts, DesiredSlotInRange
<1> QED
  BY <1>1, PathParts, DesiredPathParts DEF AudioPath

LEMMA SiblingsShareAPath ==
  ASSUME NEW i, IsInput(i), NEW t \in Desired(i), NEW u \in Unit(t) \cap Desired(i)
  PROVE  DesiredPath(i, u) = DesiredPath(i, t)
<1>1. t \in Track
  BY InputParts
<1>2. /\ Unit(u) = Unit(t) /\ i.lib.stem[u] = i.lib.stem[t]
      /\ Mode(i.lib, u) = Mode(i.lib, t)
  BY <1>1, SiblingsAgree
<1>3. Leader(i, u) = Leader(i, t)
  BY <1>2, LeaderFacts
<1>4. Owning(i, u) = Owning(i, t)
  BY <1>2 DEF Owning
<1> QED
  BY <1>2, <1>3, <1>4, DesiredPathParts DEF DesiredSlot

\* Wanted tracks of different files never get one name, whichever slots the rows of
\* earlier runs hold (the collision slots of transfer.rs).
THEOREM SlotsApart ==
  ASSUME NEW i, IsInput(i), NEW t \in Desired(i), NEW u \in Desired(i),
         i.lib.stem[t] = i.lib.stem[u], DesiredSlot(i, t) = DesiredSlot(i, u)
  PROVE  Unit(t) = Unit(u)
<1>1. PICK at, newcomers : /\ at = RowSlots(i, i.lib.stem[t])
                           /\ newcomers = Newcomers(i, i.lib.stem[t])
  OBVIOUS
<1>2. Claims(at, newcomers) /\ t \in Track /\ u \in Track
  BY <1>1, RowSlotsClaim, InputParts
<1>3. /\ Owners(at) \subseteq DOMAIN at
      /\ \A c, d \in Owners(at) : at[c] = at[d] => c = d
  BY <1>2, OwnersFacts DEF Claims
<1>4. \A c \in newcomers, o \in Owners(at) : FreeSlot(at, newcomers, c) # at[o]
  <2>1. \A o \in Owners(at) : at[o] \in Taken(at)
    BY <1>3 DEF Taken
  <2>2. \A c \in newcomers : FreeSlot(at, newcomers, c) \notin Taken(at)
    BY <1>2, FreeSlotIsFree
  <2> QED
    BY <2>1, <2>2
<1> DEFINE Owned(v) == \E o \in Owners(at) : o \in Unit(v) /\ DesiredSlot(i, v) = at[o]
           New(v) == /\ Leader(i, v) \in newcomers
                     /\ DesiredSlot(i, v) = FreeSlot(at, newcomers, Leader(i, v))
<1>5. (Owned(t) \/ New(t)) /\ (Owned(u) \/ New(u))
  BY <1>1, DesiredSlotFrom
<1>6. ~ (Owned(t) /\ New(u)) /\ ~ (New(t) /\ Owned(u))
  BY <1>4
<1>7. ASSUME Owned(t), Owned(u)
      PROVE  Unit(t) = Unit(u)
  <2>1. PICK o \in Owners(at) : o \in Unit(t) /\ o \in Unit(u)
    BY <1>3, <1>7
  <2> QED
    BY <1>2, <2>1, UnitsApart
<1>8. ASSUME New(t), New(u)
      PROVE  Unit(t) = Unit(u)
  <2>1. Leader(i, t) = Leader(i, u)
    BY <1>2, <1>8, FreeSlotsApart
  <2> QED
    BY <2>1, LeaderFacts
<1> HIDE DEF Owned, New
<1> QED
  BY <1>5, <1>6, <1>7, <1>8

\* No two rows of different files have one name.
RowsAreApart(rows) ==
  \A t, u \in DOMAIN rows :
    rows[t].path.stem = rows[u].path.stem /\ rows[t].path.slot = rows[u].path.slot
      => Unit(t) = Unit(u)

\* A wanted file never gets the name of another file's row.
LEMMA RowsKeepTheirSlots ==
  ASSUME NEW i, IsInput(i), RowsAreApart(i.store.rows), NEW t \in Desired(i),
         NEW r \in RowTracks(i),
         RowPath(i, r).stem = i.lib.stem[t], RowPath(i, r).slot = DesiredSlot(i, t)
  PROVE  Unit(r) = Unit(t)
<1>1. PICK at, newcomers : /\ at = RowSlots(i, i.lib.stem[t])
                           /\ newcomers = Newcomers(i, i.lib.stem[t])
  OBVIOUS
<1>2. /\ Claims(at, newcomers) /\ t \in Track /\ r \in Track
      /\ r \in DOMAIN at /\ at[r] = RowPath(i, r).slot
  BY <1>1, RowSlotsClaim, InputParts DEF RowSlots
<1>3. PICK o \in Owners(at) : o \in Unit(t) /\ DesiredSlot(i, t) = at[o]
  <2>1. \A c \in newcomers : FreeSlot(at, newcomers, c) # at[r]
    BY <1>2, FreeSlotIsFree DEF Taken
  <2> QED
    BY <1>1, <1>2, <2>1, DesiredSlotFrom
<1>4. o \in DOMAIN at
  BY <1>2, OwnersFacts DEF Claims
<1>5. /\ o \in RowTracks(i) /\ RowPath(i, o).stem = i.lib.stem[t]
      /\ RowPath(i, o).slot = RowPath(i, r).slot
  BY <1>1, <1>2, <1>3, <1>4, RowSlotsClaim
<1>6. Unit(r) = Unit(o)
  BY <1>5 DEF RowsAreApart, RowTracks, RowPath
<1> QED
  BY <1>2, <1>3, <1>6, UnitFacts

-----------------------------------------------------------------------------
(* The lists of a plan.                                                    *)

\* A list of what `item` makes of each member of S, once each.
ItemsOf(items, S, item) ==
  /\ \A x \in S : \E k \in DOMAIN items : items[k] = item[x]
  /\ \A k \in DOMAIN items : \E x \in S : items[k] = item[x]
  /\ (\A x, y \in S : item[x] = item[y] => x = y)
       => \A j, k \in DOMAIN items : items[j] = items[k] => j = k

Listing(order, item) == [k \in DOMAIN order |-> item[order[k]]]

LEMMA FunctionSeq ==
  ASSUME NEW n \in Nat, NEW T, NEW f \in [1..n -> T]
  PROVE  f \in Seq(T)
OBVIOUS

LEMMA ListedItems ==
  ASSUME NEW S, NEW order, Enumerates(order, S), NEW T, NEW item \in [S -> T]
  PROVE  /\ Listing(order, item) \in Seq(T)
         /\ ItemsOf(Listing(order, item), S, item)
<1> DEFINE items == Listing(order, item)
<1>1. /\ Cardinality(S) \in Nat /\ order \in [1..Cardinality(S) -> S]
      /\ \A x \in S : \E n \in 1..Cardinality(S) : order[n] = x
      /\ \A j, k \in 1..Cardinality(S) : order[j] = order[k] => j = k
  BY DEF Enumerates
<1>2. items \in [1..Cardinality(S) -> T]
  BY <1>1 DEF Listing
<1>3. items \in Seq(T)
  BY <1>1, <1>2, FunctionSeq, Zenon
<1>4. \A k \in 1..Cardinality(S) : items[k] = item[order[k]] /\ order[k] \in S
  BY <1>1 DEF Listing
<1>5. DOMAIN items = 1..Cardinality(S)
  BY <1>2
<1> HIDE DEF items
<1>6. ItemsOf(items, S, item)
  BY <1>1, <1>4, <1>5 DEF ItemsOf
<1> QED
  BY <1>3, <1>6 DEF items

LEMMA EachItem ==
  ASSUME NEW S \in SUBSET Nat, IsFiniteSet(S), NEW T, NEW item \in [S -> T]
  PROVE  /\ Listing(Ascending(S), item) \in Seq(T)
         /\ ItemsOf(Listing(Ascending(S), item), S, item)
<1>1. Enumerates(Ascending(S), S)
  BY AscendingListed
<1> QED
  BY <1>1, ListedItems

TransferOf(i, t) ==
  [track |-> t, path |-> DesiredPath(i, t),
   previous |-> IF RowMatches(i, t) THEN NoPath ELSE PreviousPath(i, t),
   transcode |-> Mode(i.lib, t) # Original, bytes |-> 0]

LEMMA PreviousPathNamed ==
  ASSUME NEW i, IsInput(i), NEW t
  PROVE  PreviousPath(i, t) \in PathOrNone
BY InputParts DEF PreviousPath, PathOrNone

LEMMA TransfersListed ==
  ASSUME NEW i, IsInput(i)
  PROVE  /\ Transfers(i) \in Seq(Transfer)
         /\ ItemsOf(Transfers(i), Transferred(i),
                    [t \in Transferred(i) |-> TransferOf(i, t)])
<1> DEFINE S == Transferred(i)
           item == [t \in S |-> TransferOf(i, t)]
           items == Transfers(i)
<1>1. S \in SUBSET Desired(i)
  BY DEF Transferred
<1>2. S \in SUBSET Nat /\ IsFiniteSet(S)
  BY <1>1, InputParts, FS_Subset
<1>3. ASSUME NEW t \in S
      PROVE  TransferOf(i, t) \in Transfer
  <2>1. t \in Track /\ DesiredPath(i, t) \in Path
    BY <1>1, InputParts, DesiredPathNamed
  <2> QED
    BY <2>1, PreviousPathNamed DEF TransferOf, Transfer, PathOrNone
<1>4. item \in [S -> Transfer]
  BY <1>3
<1>5. items = Listing(Ascending(S), item)
  <2> DEFINE order == Ascending(S)
  <2>1. items = [k \in DOMAIN order |-> TransferOf(i, order[k])]
    BY DEF Transfers, Each, TransferOf
  <2>2. \A k \in DOMAIN order : order[k] \in S
    BY <1>2, AscendingListed DEF Enumerates
  <2> HIDE DEF order, S, items
  <2> QED
    BY <2>1, <2>2 DEF order, Listing
<1> HIDE DEF S, item, items
<1>6. items \in Seq(Transfer) /\ ItemsOf(items, S, item)
  BY <1>2, <1>4, <1>5, EachItem
<1> QED
  BY <1>6 DEF S, item, items

SharedOf(i, t) ==
  [track |-> t, path |-> DesiredPath(i, t),
   carrier |-> IF Anchors(i, t) # {} THEN Least(Anchors(i, t)) ELSE Carrier(i, t),
   resident |-> Anchors(i, t) # {}, previous |-> PreviousPath(i, t)]

\* One of the wanted tracks of a file carries it.
LEMMA CarrierFacts ==
  ASSUME NEW i, IsInput(i), NEW t \in Desired(i)
  PROVE  /\ Carrier(i, t) \in Siblings(i, t)
         /\ Anchors(i, t) # {} => Least(Anchors(i, t)) \in Anchors(i, t)
<1>1. Siblings(i, t) \in SUBSET Nat /\ t \in Siblings(i, t)
  BY InputParts, UnitFacts DEF Siblings
<1>2. PICK S : /\ S = IF Siblings(i, t) \cap RowTracks(i) # {}
                      THEN Siblings(i, t) \cap RowTracks(i) ELSE Siblings(i, t)
               /\ S \in SUBSET Siblings(i, t) /\ S # {}
  BY <1>1
<1>3. Carrier(i, t) = Least(S)
  BY <1>2 DEF Carrier
<1>4. Least(S) \in S
  BY <1>1, <1>2, LeastMember
<1>5. Anchors(i, t) \in SUBSET Nat
  BY <1>1 DEF Anchors
<1> QED
  BY <1>2, <1>3, <1>4, <1>5, LeastMember

LEMMA SharedListed ==
  ASSUME NEW i, IsInput(i)
  PROVE  /\ SharedRecords(i) \in Seq(SharedRecord)
         /\ ItemsOf(SharedRecords(i), SharedTracks(i),
                    [t \in SharedTracks(i) |-> SharedOf(i, t)])
<1> DEFINE S == SharedTracks(i)
           Before(u, t) == \/ Leader(i, u) < Leader(i, t)
                           \/ Leader(i, u) = Leader(i, t) /\ u < t
           below == [t \in S |-> {u \in S : Before(u, t)}]
           order == Sorted(S, below)
           item == [t \in S |-> SharedOf(i, t)]
           items == SharedRecords(i)
<1>1. S \in SUBSET Desired(i)
  BY DEF SharedTracks
<1>2. S \in SUBSET Nat /\ IsFiniteSet(S)
  BY <1>1, InputParts, FS_Subset
<1>3. ASSUME NEW t \in S
      PROVE  SharedOf(i, t) \in SharedRecord
  <2>1. t \in Track /\ DesiredPath(i, t) \in Path
    BY <1>1, InputParts, DesiredPathNamed
  <2>2. Siblings(i, t) \subseteq Track /\ Anchors(i, t) \subseteq Siblings(i, t)
    BY InputParts DEF Siblings, Anchors
  <2>3. SharedOf(i, t).carrier \in Track
    BY <1>1, <2>2, CarrierFacts DEF SharedOf
  <2> QED
    BY <2>1, <2>3, PreviousPathNamed DEF SharedOf, SharedRecord
<1>4. item \in [S -> SharedRecord]
  BY <1>3
<1>5. \A t \in S : Leader(i, t) \in Nat
  BY <1>1, LeaderFacts, InputParts
<1>6. RanksAll(below, S)
  <2>1. \A t \in S : ~ Before(t, t)
    BY <1>2, <1>5
  <2>2. \A s, t, u \in S : Before(s, t) /\ Before(t, u) => Before(s, u)
    BY <1>2, <1>5
  <2>3. \A t, u \in S : t = u \/ Before(t, u) \/ Before(u, t)
    BY <1>2, <1>5
  <2>4. below \in [S -> SUBSET S]
    OBVIOUS
  <2>5. \A t, u \in S : t \in below[u] <=> Before(t, u)
    OBVIOUS
  <2> HIDE DEF below, Before, S
  <2>6. \A t, u \in S : Before(t, u) => below[t] \subseteq below[u]
    BY <2>2, <2>4, <2>5
  <2> QED
    BY <2>1, <2>3, <2>4, <2>5, <2>6 DEF RanksAll
<1>7. Enumerates(order, S)
  <2> HIDE DEF below, S
  <2> QED
    BY <1>2, <1>6, Listed, Zenon
<1>8. items = Listing(order, item)
  <2>1. items = [k \in DOMAIN order |-> SharedOf(i, order[k])]
    BY DEF SharedRecords, SharedOf
  <2>2. \A k \in DOMAIN order : order[k] \in S
    BY <1>7 DEF Enumerates
  <2> HIDE DEF order, S, items
  <2> QED
    BY <2>1, <2>2 DEF Listing
<1> HIDE DEF S, item, items, order
<1>9. items \in Seq(SharedRecord) /\ ItemsOf(items, S, item)
  BY <1>4, <1>7, <1>8, ListedItems
<1> QED
  BY <1>9 DEF S, item, items

LEMMA AnalysisListed ==
  ASSUME NEW i, IsInput(i)
  PROVE  /\ AnalysisWrites(i) \in Seq(SidecarWrite)
         /\ \A k \in DOMAIN AnalysisWrites(i) :
              \E t \in Desired(i) : AnalysisWrites(i)[k].path = SidecarOf(DesiredPath(i, t))
<1> DEFINE S == {t \in Desired(i) \cap i.lib.analysed :
                   /\ ~IsCue(t)
                   /\ DesiredPath(i, t) \in DOMAIN i.store.audio \cup Arriving(i)
                   /\ SidecarOf(DesiredPath(i, t)) \notin i.store.sidecars}
           ItemFor(t) == [track |-> t, path |-> SidecarOf(DesiredPath(i, t)), bytes |-> 0]
           item == [t \in S |-> ItemFor(t)]
           items == AnalysisWrites(i)
<1>1. S \in SUBSET Desired(i)
  OBVIOUS
<1>2. S \in SUBSET Nat /\ IsFiniteSet(S)
  BY <1>1, InputParts, FS_Subset
<1>3. \A t \in Desired(i) : t \in Track /\ SidecarOf(DesiredPath(i, t)) \in Path
  BY InputParts, DesiredPathNamed
<1>4. items = [k \in DOMAIN Ascending(S) |-> ItemFor(Ascending(S)[k])]
  BY DEF AnalysisWrites, Each, Arriving
<1> HIDE DEF S, items
<1>5. item \in [S -> SidecarWrite]
  BY <1>1, <1>3 DEF SidecarWrite
<1>6. \A k \in DOMAIN Ascending(S) : Ascending(S)[k] \in S
  BY <1>2, AscendingListed DEF Enumerates
<1>7. items = Listing(Ascending(S), item)
  BY <1>4, <1>6 DEF Listing
<1>8. \A t \in S : item[t].path = SidecarOf(DesiredPath(i, t))
  OBVIOUS
<1> HIDE DEF item
<1>9. items \in Seq(SidecarWrite) /\ ItemsOf(items, S, item)
  BY <1>2, <1>5, <1>7, EachItem
<1>10. ASSUME NEW k \in DOMAIN items
       PROVE  \E t \in Desired(i) : items[k].path = SidecarOf(DesiredPath(i, t))
  <2>1. PICK t \in S : items[k] = item[t]
    BY <1>9 DEF ItemsOf
  <2> QED
    BY <1>1, <1>8, <2>1
<1> QED
  BY <1>9, <1>10 DEF items

-----------------------------------------------------------------------------
(* Playlists.                                                              *)

ListSlots(i, name) ==
  [r \in {q \in DOMAIN i.store.listRows : i.store.listRows[q].stem = name} |->
     i.store.listRows[r].slot]
NewLists(i, name) ==
  {r \in i.lib.selected : i.lib.name[r] = name} \ Owners(ListSlots(i, name))

LEMMA ListParts ==
  ASSUME NEW i, IsInput(i)
  PROVE  /\ i.lib.selected \in SUBSET Source /\ IsFiniteSet(i.lib.selected)
         /\ DOMAIN i.store.listRows \in SUBSET Source
         /\ IsFiniteSet(DOMAIN i.store.listRows)
         /\ \A s \in DOMAIN i.store.listRows : i.store.listRows[s] \in Path
         /\ \A s \in Source : i.lib.name[s] \in Stem
<1>1. i.lib \in Library /\ IsPartialFunction(i.store.listRows, Source, Path)
  BY DEF IsInput, IsStore
<1>2. i.lib.selected \in SUBSET Source /\ \A s \in Source : i.lib.name[s] \in Stem
  BY <1>1 DEF Library
<1>3. /\ DOMAIN i.store.listRows \in SUBSET Source
      /\ \A s \in DOMAIN i.store.listRows : i.store.listRows[s] \in Path
  BY <1>1 DEF IsPartialFunction
<1> QED
  BY <1>2, <1>3, TracksAreOrdered, FS_Subset

LEMMA PlaylistPathNamed ==
  ASSUME NEW i, IsInput(i), NEW s \in i.lib.selected
  PROVE  PlaylistPath(i, s) \in Path
<1>1. PICK name, at, newcomers : /\ name = i.lib.name[s]
                                 /\ at = ListSlots(i, name)
                                 /\ newcomers = NewLists(i, name)
  OBVIOUS
<1>2. PlaylistPath(i, s) =
        ListPath(name, IF s \in Owners(at) THEN at[s] ELSE FreeSlot(at, newcomers, s))
  BY <1>1 DEF PlaylistPath, ListSlots, NewLists
<1>3. /\ DOMAIN at \subseteq Source /\ newcomers \subseteq Source
      /\ DOMAIN at \subseteq DOMAIN i.store.listRows
      /\ newcomers \subseteq i.lib.selected
      /\ \A r \in DOMAIN at : at[r] \in Slot
  BY <1>1, ListParts, PathParts DEF ListSlots, NewLists
<1>4. Claims(at, newcomers)
  BY <1>3, ListParts, FS_Subset, TracksAreOrdered DEF Claims
<1>5. Owners(at) \subseteq DOMAIN at
  BY DEF Owners
<1>6. s \notin Owners(at) => s \in newcomers
  BY <1>1 DEF NewLists
<1>7. (IF s \in Owners(at) THEN at[s] ELSE FreeSlot(at, newcomers, s)) \in Slot
  BY <1>3, <1>4, <1>5, <1>6, NewcomersFit
<1>8. name \in Stem
  BY <1>1, ListParts
<1> QED
  BY <1>2, <1>7, <1>8, PathParts

ListWriteOf(i, s) ==
  [source |-> s, path |-> PlaylistPath(i, s),
   entries |-> Rendered(i, s)]

\* The sources of the playlists a plan writes.
Written(i) == i.lib.selected \ FrozenLists(i)

LEMMA ListWritesListed ==
  ASSUME NEW i, IsInput(i)
  PROVE  /\ ListWrites(i) \in Seq(ListWrite)
         /\ ItemsOf(ListWrites(i), Written(i), [s \in Written(i) |-> ListWriteOf(i, s)])
<1> DEFINE S == Written(i)
           item == [s \in S |-> ListWriteOf(i, s)]
           items == ListWrites(i)
<1>1. S \subseteq i.lib.selected
  BY DEF Written
<1>1a. S \in SUBSET Nat /\ IsFiniteSet(S) /\ S \in SUBSET Source
  BY <1>1, ListParts, TracksAreOrdered, FS_Subset
<1>2. ASSUME NEW s \in S
      PROVE  ListWriteOf(i, s) \in ListWrite
  <2>1. PlaylistPath(i, s) \in Path
    BY <1>1, PlaylistPathNamed
  <2>2. \A t \in Desired(i) \cup RowTracks(i) : EntryPath(i, t) \in Path
    BY InputParts, DesiredPathNamed DEF EntryPath
  <2>3. Rendered(i, s) \in SUBSET Path
    BY <2>2 DEF Rendered
  <2> QED
    BY <1>1a, <2>1, <2>3 DEF ListWriteOf, ListWrite
<1>3. item \in [S -> ListWrite]
  BY <1>2
<1>4. items = [k \in DOMAIN Ascending(S) |-> ListWriteOf(i, Ascending(S)[k])]
  BY DEF ListWrites, Each, ListWriteOf, Written
<1> HIDE DEF S, items
<1>5. \A k \in DOMAIN Ascending(S) : Ascending(S)[k] \in S
  BY <1>1a, AscendingListed DEF Enumerates
<1>6. items = Listing(Ascending(S), item)
  BY <1>4, <1>5 DEF Listing
<1> HIDE DEF item
<1>7. items \in Seq(ListWrite) /\ ItemsOf(items, S, item)
  BY <1>1a, <1>3, <1>6, EachItem
<1> QED
  BY <1>7 DEF items, S, item

Outdated(i) ==
  {s \in DOMAIN i.store.listRows :
     s \in i.lib.selected => PlaylistPath(i, s) # i.store.listRows[s]}

LEMMA ListRemovalsListed ==
  ASSUME NEW i, IsInput(i)
  PROVE  /\ ListRemovals(i) \in Seq(ListRow)
         /\ ItemsOf(ListRemovals(i), Outdated(i),
                    [s \in Outdated(i) |-> [source |-> s, path |-> i.store.listRows[s]]])
<1> DEFINE S == Outdated(i)
           RowFor(s) == [source |-> s, path |-> i.store.listRows[s]]
           item == [s \in S |-> RowFor(s)]
           items == ListRemovals(i)
<1>1. S \in SUBSET DOMAIN i.store.listRows
  BY DEF Outdated
<1>2. S \in SUBSET Nat /\ IsFiniteSet(S) /\ S \in SUBSET Source
  BY <1>1, ListParts, TracksAreOrdered, FS_Subset
<1>3. item \in [S -> ListRow]
  BY <1>1, <1>2, ListParts DEF ListRow
<1>4. items = [k \in DOMAIN Ascending(S) |-> RowFor(Ascending(S)[k])]
  BY DEF ListRemovals, Each, Outdated
<1> HIDE DEF S, items
<1>5. \A k \in DOMAIN Ascending(S) : Ascending(S)[k] \in S
  BY <1>2, AscendingListed DEF Enumerates
<1>6. items = Listing(Ascending(S), item)
  BY <1>4, <1>5 DEF Listing
<1> HIDE DEF item
<1>7. items \in Seq(ListRow) /\ ItemsOf(items, S, item)
  BY <1>2, <1>3, <1>6, EachItem
<1> QED
  BY <1>7 DEF items, S, item

-----------------------------------------------------------------------------
(* Removals.                                                               *)

GoneOf(i, t) == [kind |-> LeavingKind(i, t), track |-> t, path |-> RowPath(i, t)]
OrphanAt(path) == [kind |-> "orphan", track |-> Unattributed, path |-> path]

LEMMA OrphansListed ==
  ASSUME NEW i, IsInput(i)
  PROVE  /\ Orphans(i) \in SUBSET Path
         /\ Enumerates(SetToSeq(Orphans(i)), Orphans(i))
<1> DEFINE S == Orphans(i)
<1>1. S \in SUBSET Path
  BY DEF Orphans, Resident, IsInput, IsStore, IsPartialFunction
<1>2. IsFiniteSet(S)
  BY <1>1, PathsAreNames, FS_Subset
<1> HIDE DEF S
<1>3. Cardinality(S) \in Nat /\ ExistsBijection(1..Cardinality(S), S)
  BY <1>2, FS_CardinalityType
<1>4. PICK f \in Bijection(1..Cardinality(S), S) : TRUE
  BY <1>3 DEF ExistsBijection
<1>5. f \in [1..Cardinality(S) -> S] /\ IsInjective(f)
  BY <1>4 DEF Bijection, Injection, IsInjective
<1>6. SetToSeq(S) \in [1..Cardinality(S) -> S] /\ IsInjective(SetToSeq(S))
  BY <1>5 DEF SetToSeq
<1> DEFINE D == 1..Cardinality(S)
           order == SetToSeq(S)
<1>7. /\ Cardinality(D) = Cardinality(S)
      /\ order \in [D -> S] /\ \A j, k \in D : order[j] = order[k] => j = k
  <2>1. Cardinality(D) = Cardinality(S)
    BY <1>3, FS_Interval
  <2>2. order \in [D -> S] /\ IsInjective(order)
    BY <1>6
  <2>3. \A j, k \in D : order[j] = order[k] => j = k
    <3> HIDE DEF D, order
    <3> QED
      BY <2>2 DEF IsInjective
  <2> QED
    BY <2>1, <2>2, <2>3
<1>8. \A x \in S : \E n \in D : order[n] = x
  <2> HIDE DEF D, order
  <2>1. order \in Injection(D, S)
    BY <1>7, Fun_IsInj
  <2>2. order \in Surjection(D, S)
    BY <1>2, <1>7, <2>1, FS_Injection
  <2> QED
    BY <2>2, Fun_SurjectionProperties
<1>9. Enumerates(order, S)
  BY <1>3, <1>7, <1>8 DEF Enumerates
<1> QED
  BY <1>1, <1>9 DEF S

LEMMA RemovalsListed ==
  ASSUME NEW i, IsInput(i)
  PROVE  /\ Removals(i) \in Seq(Removal)
         /\ \A k \in DOMAIN Removals(i) :
              \/ \E t \in Removed(i) : Removals(i)[k] = GoneOf(i, t)
              \/ \E path \in Orphans(i) : Removals(i)[k] = OrphanAt(path)
<1> DEFINE S == Removed(i)
           gone == [t \in S |-> GoneOf(i, t)]
           first == Listing(Ascending(S), gone)
           order == SetToSeq(Orphans(i))
           orphan == [path \in Orphans(i) |-> OrphanAt(path)]
           second == Listing(order, orphan)
<1>1. S \in SUBSET RowTracks(i)
  BY DEF Removed, Leaving
<1>2. S \in SUBSET Nat /\ IsFiniteSet(S) /\ S \in SUBSET Track
  BY <1>1, InputParts, TracksAreOrdered, FS_Subset
<1>3. gone \in [S -> Removal]
  BY <1>1, <1>2, InputParts DEF GoneOf, LeavingKind, Removal
<1>4. orphan \in [Orphans(i) -> Removal]
  BY OrphansListed DEF OrphanAt, Removal
<1>5. Enumerates(order, Orphans(i))
  BY OrphansListed
<1>6. Removals(i) = first \o second
  <2>1. Removals(i) = [k \in DOMAIN Ascending(S) |-> GoneOf(i, Ascending(S)[k])]
                        \o [k \in DOMAIN order |-> OrphanAt(order[k])]
    BY DEF Removals, Each, GoneOf, OrphanAt
  <2> HIDE DEF S, order
  <2>2. \A k \in DOMAIN Ascending(S) : Ascending(S)[k] \in S
    BY <1>2, AscendingListed DEF Enumerates
  <2>3. \A k \in DOMAIN order : order[k] \in Orphans(i)
    BY <1>5 DEF Enumerates
  <2>4. first = [k \in DOMAIN Ascending(S) |-> GoneOf(i, Ascending(S)[k])]
    BY <2>2 DEF Listing
  <2>5. second = [k \in DOMAIN order |-> OrphanAt(order[k])]
    BY <2>3 DEF Listing
  <2> HIDE DEF first, second
  <2> QED
    BY <2>1, <2>4, <2>5
<1> HIDE DEF S, gone, order, orphan
<1>7. first \in Seq(Removal) /\ ItemsOf(first, S, gone)
  BY <1>2, <1>3, EachItem
<1>8. second \in Seq(Removal) /\ ItemsOf(second, Orphans(i), orphan)
  BY <1>4, <1>5, ListedItems
<1> HIDE DEF first, second
<1>9. \A k \in DOMAIN first : \E t \in S : first[k] = GoneOf(i, t)
  BY <1>7 DEF ItemsOf, gone
<1>10. \A k \in DOMAIN second : \E path \in Orphans(i) : second[k] = OrphanAt(path)
  BY <1>8 DEF ItemsOf, orphan
<1>11. ASSUME NEW k \in DOMAIN (first \o second)
       PROVE  \/ k \in DOMAIN first /\ (first \o second)[k] = first[k]
              \/ \E j \in DOMAIN second : (first \o second)[k] = second[j]
  BY <1>7, <1>8
<1> QED
  BY <1>6, <1>7, <1>8, <1>9, <1>10, <1>11, ConcatProperties DEF S

-----------------------------------------------------------------------------
(* The plan.                                                               *)

\* The plan that plan_mirror makes of any library, inventory and device is one that
\* the reducer is written for.
THEOREM PlanWellFormed ==
  ASSUME NEW i, IsInput(i)
  PROVE  PlanMirror(i) \in MirrorPlan
<1>1. DesiredPaths(i) \in SUBSET Path
  BY DesiredPathNamed DEF DesiredPaths
<1>2. <<>> \in Seq(CueWrite) /\ <<>> \in Seq(SidecarWrite)
  BY EmptySeq
<1>3. /\ Transfers(i) \in Seq(Transfer) /\ SharedRecords(i) \in Seq(SharedRecord)
      /\ AnalysisWrites(i) \in Seq(SidecarWrite) /\ ListWrites(i) \in Seq(ListWrite)
      /\ ListRemovals(i) \in Seq(ListRow) /\ Removals(i) \in Seq(Removal)
  BY TransfersListed, SharedListed, AnalysisListed, ListWritesListed,
     ListRemovalsListed, RemovalsListed
<1> QED
  BY <1>1, <1>2, <1>3 DEF PlanMirror, MirrorPlan

\* Each track, and each file, is transferred once: of the tracks of a CUE file one
\* carries the file and the others are recorded after it (mirror_cue.rs).
THEOREM TransfersOncePerFile ==
  ASSUME NEW i, IsInput(i), NEW j \in DOMAIN Transfers(i), NEW k \in DOMAIN Transfers(i)
  PROVE  /\ Transfers(i)[j].track = Transfers(i)[k].track => j = k
         /\ Transfers(i)[j].path = Transfers(i)[k].path => j = k
<1> DEFINE S == Transferred(i)
           item == [t \in S |-> TransferOf(i, t)]
           items == Transfers(i)
<1>1. ItemsOf(items, S, item)
  BY TransfersListed
<1>2. \A t \in S : item[t] = TransferOf(i, t)
  OBVIOUS
<1> HIDE DEF item, items, S
<1>3. \A t \in S : item[t].track = t /\ item[t].path = DesiredPath(i, t)
  <2>1. \A t : TransferOf(i, t).track = t /\ TransferOf(i, t).path = DesiredPath(i, t)
    BY DEF TransferOf
  <2> QED
    BY <1>2, <2>1
<1>4. \A a, b \in DOMAIN items : items[a] = items[b] => a = b
  <2>1. \A t, u \in S : item[t] = item[u] => t = u
    BY <1>3
  <2> QED
    BY <1>1, <2>1 DEF ItemsOf
<1>5. PICK t \in S, u \in S : items[j] = item[t] /\ items[k] = item[u]
  BY <1>1 DEF ItemsOf, items
<1>6. t = u => j = k
  BY <1>4, <1>5 DEF items
<1>7. ASSUME DesiredPath(i, t) = DesiredPath(i, u)
      PROVE  t = u
  <2>1. t \in Desired(i) /\ u \in Desired(i) /\ t \in Track /\ u \in Track
    BY InputParts DEF S, Transferred
  <2>2. Unit(t) = Unit(u)
    BY <1>7, <2>1, DesiredPathNamed, SlotsApart
  <2>3. CASE ~ IsCue(t)
    BY <2>1, <2>2, <2>3, UnitFacts DEF IsCue
  <2>4. CASE IsCue(t)
    <3>1. t = Carrier(i, t) /\ u = Carrier(i, u)
      BY <2>2, <2>4 DEF S, Transferred, IsCue
    <3>2. Carrier(i, t) = Carrier(i, u)
      BY <2>2 DEF Carrier, Siblings
    <3> QED
      BY <3>1, <3>2
  <2> QED
    BY <2>3, <2>4
<1> QED
  BY <1>3, <1>5, <1>6, <1>7 DEF items

\* A planned removal that deletes a file deletes none that is wanted or retained: the
\* file changes and orphans of mirror_file_changes.rs.
THEOREM RemovalsSpareFiles ==
  ASSUME NEW i, IsInput(i), NEW k \in DOMAIN Removals(i),
         Removals(i)[k].kind # "unshared"
  PROVE  /\ Removals(i)[k].path \notin DesiredPaths(i)
         /\ \A t \in Retained(i) : RowPath(i, t) # Removals(i)[k].path
<1>1. CASE \E t \in Removed(i) : Removals(i)[k] = GoneOf(i, t)
  <2>1. PICK t \in Removed(i) : Removals(i)[k] = GoneOf(i, t)
    BY <1>1
  <2>2. LeavingKind(i, t) # "unshared" /\ Removals(i)[k].path = RowPath(i, t)
    BY <2>1 DEF GoneOf
  <2>3. RowPath(i, t) \notin DesiredPaths(i) \cup {RowPath(i, u) : u \in Retained(i)}
    BY <2>2 DEF LeavingKind
  <2> QED
    BY <2>2, <2>3
<1>2. CASE \E path \in Orphans(i) : Removals(i)[k] = OrphanAt(path)
  <2>1. Removals(i)[k].path \in Orphans(i)
    BY <1>2 DEF OrphanAt
  <2>2. DesiredPaths(i) \subseteq KnownPaths(i)
    BY DEF KnownPaths
  <2>3. \A t \in Retained(i) : RowPath(i, t) \in KnownPaths(i)
    BY DEF KnownPaths, Retained
  <2> QED
    BY <2>1, <2>2, <2>3 DEF Orphans
<1> QED
  BY <1>1, <1>2, RemovalsListed

\* The file that a transfer replaces elsewhere is not wanted by any track, and is not
\* the file of a retained row, unless a wanted track of the same file replaces it.
THEOREM ReplacedFilesAreFree ==
  ASSUME NEW i, IsInput(i), RowsAreApart(i.store.rows),
         NEW t \in Desired(i) \cap RowTracks(i), RowPath(i, t) # DesiredPath(i, t)
  PROVE  /\ RowPath(i, t) \notin DesiredPaths(i)
         /\ \A u \in Retained(i) :
              Siblings(i, u) = {} => RowPath(i, u) # RowPath(i, t)
<1>1. t \in Track /\ t \in Unit(t)
  BY InputParts, UnitFacts
<1>2. ASSUME NEW u \in Desired(i)
      PROVE  RowPath(i, t) # DesiredPath(i, u)
  <2> SUFFICES ASSUME RowPath(i, t) = DesiredPath(i, u)
               PROVE  FALSE
    OBVIOUS
  <2>1. Unit(t) = Unit(u)
    BY DesiredPathNamed, RowsKeepTheirSlots
  <2>2. DesiredPath(i, t) = DesiredPath(i, u)
    BY <1>1, <2>1, SiblingsShareAPath
  <2> QED
    BY <2>2
<1>3. ASSUME NEW u \in Retained(i), RowPath(i, u) = RowPath(i, t)
      PROVE  Siblings(i, u) # {}
  <2>1. u \in RowTracks(i)
    BY DEF Retained
  <2>2. Unit(u) = Unit(t)
    BY <1>3, <2>1 DEF RowsAreApart, RowTracks, RowPath
  <2> QED
    BY <1>1, <2>2 DEF Siblings
<1> QED
  BY <1>2, <1>3 DEF DesiredPaths

\* Rows that were there before a run and rows the run records stay apart.
LEMMA RecordedRowsStayApart ==
  ASSUME NEW i, IsInput(i), RowsAreApart(i.store.rows), NEW rows,
         \A t \in DOMAIN rows :
           \/ t \in RowTracks(i) /\ rows[t].path = RowPath(i, t)
           \/ t \in Desired(i) /\ rows[t].path = DesiredPath(i, t)
  PROVE  RowsAreApart(rows)
<1> SUFFICES ASSUME NEW t \in DOMAIN rows, NEW u \in DOMAIN rows,
                    rows[t].path.stem = rows[u].path.stem,
                    rows[t].path.slot = rows[u].path.slot
             PROVE  Unit(t) = Unit(u)
  BY DEF RowsAreApart
<1> DEFINE Kept(v) == v \in RowTracks(i) /\ rows[v].path = RowPath(i, v)
           Recorded(v) == v \in Desired(i) /\ rows[v].path = DesiredPath(i, v)
<1>1. CASE Kept(t) /\ Kept(u)
  BY <1>1 DEF RowsAreApart, RowTracks, RowPath
<1>2. CASE Kept(t) /\ Recorded(u)
  BY <1>2, DesiredPathNamed, RowsKeepTheirSlots
<1>3. CASE Recorded(t) /\ Kept(u)
  BY <1>3, DesiredPathNamed, RowsKeepTheirSlots
<1>4. CASE Recorded(t) /\ Recorded(u)
  BY <1>4, DesiredPathNamed, SlotsApart
<1> QED
  BY <1>1, <1>2, <1>3, <1>4

\* A desired file is on the device or transferred by the plan, also when the track it
\* is wanted for is one of several that share it.
THEOREM DesiredArrives ==
  ASSUME NEW i, IsInput(i), NEW path \in DesiredPaths(i)
  PROVE  \/ path \in DOMAIN i.store.audio
         \/ \E k \in DOMAIN Transfers(i) : Transfers(i)[k].path = path
<1>1. PICK t \in Desired(i) : path = DesiredPath(i, t)
  BY DEF DesiredPaths
<1>2. t \in Track /\ t \in Unit(t)
  BY <1>1, InputParts, UnitFacts
<1>3. CASE Anchors(i, t) # {}
  <2>1. PICK u \in Anchors(i, t) : TRUE
    BY <1>3
  <2>2. u \in Unit(t) \cap Desired(i) /\ DesiredPath(i, u) \in DOMAIN i.store.audio
    BY <2>1 DEF Anchors, Siblings, Delivered
  <2> QED
    BY <1>1, <2>2, SiblingsShareAPath
<1>4. CASE Anchors(i, t) = {}
  <2>1. PICK u \in Transferred(i) : DesiredPath(i, u) = path
    <3>1. CASE ~IsCue(t)
      BY <1>1, <1>4, <3>1 DEF Transferred
    <3>2. CASE IsCue(t)
      <4> DEFINE u == Carrier(i, t)
      <4>1. u \in Unit(t) \cap Desired(i)
        BY <1>1, CarrierFacts DEF Siblings
      <4> HIDE DEF u
      <4>2. Unit(u) = Unit(t) /\ DesiredPath(i, u) = path
        BY <1>1, <1>2, <4>1, UnitFacts, SiblingsShareAPath
      <4>3. Anchors(i, u) = {} /\ Carrier(i, u) = u
        BY <1>4, <4>2 DEF Anchors, Siblings, Carrier, u
      <4>4. u \in Transferred(i)
        BY <4>1, <4>3 DEF Transferred
      <4> QED
        BY <4>2, <4>4
    <3> QED
      BY <3>1, <3>2
  <2>2. PICK k \in DOMAIN Transfers(i) : Transfers(i)[k] = TransferOf(i, u)
    BY <2>1, TransfersListed DEF ItemsOf
  <2>3. Transfers(i)[k].path = DesiredPath(i, u)
    BY <2>2 DEF TransferOf
  <2> QED
    BY <2>1, <2>3
<1> QED
  BY <1>3, <1>4

\* What a transfer says.
LEMMA TransferFacts ==
  ASSUME NEW i, IsInput(i), NEW k \in DOMAIN Transfers(i)
  PROVE  LET transfer == Transfers(i)[k]
         IN  /\ transfer.track \in Desired(i)
             /\ transfer.path = DesiredPath(i, transfer.track)
             /\ transfer.previous # NoPath =>
                  /\ transfer.track \in RowTracks(i)
                  /\ transfer.previous = RowPath(i, transfer.track)
<1>1. PICK t \in Transferred(i) : Transfers(i)[k] = TransferOf(i, t)
  BY TransfersListed DEF ItemsOf
<1>2. /\ TransferOf(i, t).track = t /\ TransferOf(i, t).path = DesiredPath(i, t)
      /\ TransferOf(i, t).previous
           = IF RowMatches(i, t) THEN NoPath ELSE PreviousPath(i, t)
  BY DEF TransferOf
<1> QED
  BY <1>1, <1>2 DEF Transferred, PreviousPath

\* A shared record names the path its file was copied to.
LEMMA SharedFacts ==
  ASSUME NEW i, IsInput(i), NEW k \in DOMAIN SharedRecords(i)
  PROVE  LET shared == SharedRecords(i)[k]
         IN  /\ shared.track \in Desired(i)
             /\ shared.path = DesiredPath(i, shared.track)
             /\ shared.previous # NoPath =>
                  /\ shared.track \in RowTracks(i)
                  /\ shared.previous = RowPath(i, shared.track)
             /\ \A j \in DOMAIN Transfers(i) :
                  ~shared.resident /\ Transfers(i)[j].track = shared.carrier
                    => Transfers(i)[j].path = shared.path
<1>1. PICK t \in SharedTracks(i) : SharedRecords(i)[k] = SharedOf(i, t)
  BY SharedListed DEF ItemsOf
<1>2. /\ SharedOf(i, t).track = t /\ SharedOf(i, t).path = DesiredPath(i, t)
      /\ SharedOf(i, t).previous = PreviousPath(i, t)
      /\ SharedOf(i, t).resident = (Anchors(i, t) # {})
      /\ Anchors(i, t) = {} => SharedOf(i, t).carrier = Carrier(i, t)
  BY DEF SharedOf
<1>3. t \in Desired(i)
  BY DEF SharedTracks
<1>4. ASSUME NEW j \in DOMAIN Transfers(i), Transfers(i)[j].track = Carrier(i, t)
      PROVE  Transfers(i)[j].path = DesiredPath(i, t)
  <2>1. Transfers(i)[j].path = DesiredPath(i, Carrier(i, t))
    BY <1>4, TransferFacts
  <2>2. Carrier(i, t) \in Unit(t) \cap Desired(i)
    BY <1>3, CarrierFacts DEF Siblings
  <2> QED
    BY <1>3, <2>1, <2>2, SiblingsShareAPath
<1> QED
  BY <1>1, <1>2, <1>3, <1>4 DEF PreviousPath

\* No two playlists of the inventory have one name.
ListRowsAreApart(listRows) ==
  \A r, s \in DOMAIN listRows :
    listRows[r].stem = listRows[s].stem /\ listRows[r].slot = listRows[s].slot => r = s

\* The slot a playlist gets: the one its row owns, or a free one.
LEMMA ListSlotFrom ==
  ASSUME NEW i, IsInput(i), NEW s \in i.lib.selected,
         NEW at, NEW newcomers,
         at = ListSlots(i, i.lib.name[s]), newcomers = NewLists(i, i.lib.name[s])
  PROVE  /\ Claims(at, newcomers)
         /\ PlaylistPath(i, s).kind = "list"
         /\ PlaylistPath(i, s).stem = i.lib.name[s]
         /\ \/ s \in Owners(at) /\ PlaylistPath(i, s).slot = at[s]
            \/ s \in newcomers /\ PlaylistPath(i, s).slot = FreeSlot(at, newcomers, s)
<1>1. PlaylistPath(i, s) =
        ListPath(i.lib.name[s],
                 IF s \in Owners(at) THEN at[s] ELSE FreeSlot(at, newcomers, s))
  BY DEF PlaylistPath, ListSlots, NewLists
<1>2. /\ DOMAIN at \subseteq Source /\ newcomers \subseteq Source
      /\ DOMAIN at \subseteq DOMAIN i.store.listRows
      /\ newcomers \subseteq i.lib.selected
  BY ListParts DEF ListSlots, NewLists
<1>3. Claims(at, newcomers)
  BY <1>2, ListParts, FS_Subset, TracksAreOrdered DEF Claims
<1>4. s \notin Owners(at) => s \in newcomers
  BY DEF NewLists
<1> QED
  BY <1>1, <1>3, <1>4 DEF ListPath

LEMMA FreeSlotsFree ==
  ASSUME NEW at, NEW newcomers, Claims(at, newcomers),
         NEW c \in newcomers, NEW d \in DOMAIN at
  PROVE  FreeSlot(at, newcomers, c) # at[d]
<1>1. FreeSlot(at, newcomers, c) \notin Taken(at)
  BY FreeSlotIsFree
<1> QED
  BY <1>1 DEF Taken

\* A playlist never gets the name of another playlist's row.
LEMMA ListRowsKeepTheirSlots ==
  ASSUME NEW i, IsInput(i), NEW s \in i.lib.selected,
         ListRowsAreApart(i.store.listRows),
         NEW r \in DOMAIN i.store.listRows,
         i.store.listRows[r].stem = PlaylistPath(i, s).stem,
         i.store.listRows[r].slot = PlaylistPath(i, s).slot
  PROVE  r = s
<1>1. PICK at, newcomers : /\ at = ListSlots(i, i.lib.name[s])
                           /\ newcomers = NewLists(i, i.lib.name[s])
  OBVIOUS
<1>2. /\ Claims(at, newcomers)
      /\ PlaylistPath(i, s).stem = i.lib.name[s]
      /\ \/ s \in Owners(at) /\ PlaylistPath(i, s).slot = at[s]
         \/ s \in newcomers /\ PlaylistPath(i, s).slot = FreeSlot(at, newcomers, s)
  BY <1>1, ListSlotFrom
<1>3. r \in DOMAIN at /\ at[r] = i.store.listRows[r].slot
  BY <1>1, <1>2 DEF ListSlots
<1>4. s \in Owners(at) /\ at[r] = at[s]
  BY <1>2, <1>3, FreeSlotsFree
<1>5. s \in DOMAIN at
  BY <1>4 DEF Owners
<1>6. /\ s \in DOMAIN i.store.listRows
      /\ i.store.listRows[s].stem = i.lib.name[s]
      /\ at[s] = i.store.listRows[s].slot
  BY <1>1, <1>5 DEF ListSlots
<1> QED
  BY <1>2, <1>3, <1>4, <1>6 DEF ListRowsAreApart

\* No two selected playlists get one name (mirror_playlist_paths.rs).
THEOREM PlaylistPathsApart ==
  ASSUME NEW i, IsInput(i), NEW r \in i.lib.selected, NEW s \in i.lib.selected,
         PlaylistPath(i, r).stem = PlaylistPath(i, s).stem,
         PlaylistPath(i, r).slot = PlaylistPath(i, s).slot
  PROVE  r = s
<1>1. PICK at, newcomers : /\ at = ListSlots(i, i.lib.name[s])
                           /\ newcomers = NewLists(i, i.lib.name[s])
  OBVIOUS
<1>2. /\ Claims(at, newcomers)
      /\ PlaylistPath(i, s).stem = i.lib.name[s]
      /\ \/ s \in Owners(at) /\ PlaylistPath(i, s).slot = at[s]
         \/ s \in newcomers /\ PlaylistPath(i, s).slot = FreeSlot(at, newcomers, s)
  BY <1>1, ListSlotFrom
<1>3. PlaylistPath(i, r).stem = i.lib.name[r] /\ i.lib.name[r] = i.lib.name[s]
  BY <1>2, ListSlotFrom
<1>4. \/ r \in Owners(at) /\ PlaylistPath(i, r).slot = at[r]
      \/ r \in newcomers /\ PlaylistPath(i, r).slot = FreeSlot(at, newcomers, r)
  BY <1>1, <1>3, ListSlotFrom
<1>5. \A c \in newcomers, d \in Owners(at) : FreeSlot(at, newcomers, c) # at[d]
  <2>1. \A d \in Owners(at) : d \in DOMAIN at
    BY DEF Owners
  <2> QED
    BY <1>2, <2>1, FreeSlotsFree
<1>6. \A c, d \in Owners(at) : at[c] = at[d] => c = d
  <2>1. DOMAIN at \in SUBSET Nat
    BY <1>2 DEF Claims
  <2> QED
    BY <2>1, OwnersFacts
<1>7. \A c, d \in newcomers :
         FreeSlot(at, newcomers, c) = FreeSlot(at, newcomers, d) => c = d
  BY <1>2, FreeSlotsApart
<1> QED
  BY <1>2, <1>4, <1>5, <1>6, <1>7

\* Playlist rows that were there before a run and rows the run records stay apart.
LEMMA RecordedListsStayApart ==
  ASSUME NEW i, IsInput(i), ListRowsAreApart(i.store.listRows), NEW listRows,
         \A s \in DOMAIN listRows :
           \/ s \in DOMAIN i.store.listRows /\ listRows[s] = i.store.listRows[s]
           \/ s \in i.lib.selected /\ listRows[s] = PlaylistPath(i, s)
  PROVE  ListRowsAreApart(listRows)
<1> SUFFICES ASSUME NEW r \in DOMAIN listRows, NEW s \in DOMAIN listRows,
                    listRows[r].stem = listRows[s].stem,
                    listRows[r].slot = listRows[s].slot
             PROVE  r = s
  BY DEF ListRowsAreApart
<1> DEFINE Kept(q) == q \in DOMAIN i.store.listRows /\ listRows[q] = i.store.listRows[q]
           Given(q) == q \in i.lib.selected /\ listRows[q] = PlaylistPath(i, q)
<1>1. CASE Kept(r) /\ Kept(s)
  BY <1>1 DEF ListRowsAreApart
<1>2. CASE Kept(r) /\ Given(s)
  BY <1>2, ListRowsKeepTheirSlots
<1>3. CASE Given(r) /\ Kept(s)
  BY <1>3, ListRowsKeepTheirSlots
<1>4. CASE Given(r) /\ Given(s)
  BY <1>4, PlaylistPathsApart
<1> QED
  BY <1>1, <1>2, <1>3, <1>4

\* A planned playlist belongs to a selected source, each to one, that is not a
\* frozen playlist the device has, and names files
\* that are wanted or retained for want of any wanted track of the same file.
LEMMA ListWriteFacts ==
  ASSUME NEW i, IsInput(i), NEW k \in DOMAIN ListWrites(i)
  PROVE  LET list == ListWrites(i)[k]
         IN  /\ list.source \in Written(i) /\ list.source \in i.lib.selected
             /\ list.path = PlaylistPath(i, list.source)
             /\ \A j \in DOMAIN ListWrites(i) :
                  \/ j = k
                  \/ /\ ListWrites(i)[j].source # list.source
                     /\ ListWrites(i)[j].path # list.path
             /\ \A path \in list.entries :
                  \/ path \in DesiredPaths(i)
                  \/ \E t \in Retained(i) :
                       Siblings(i, t) = {} /\ path = RowPath(i, t)
<1> DEFINE S == Written(i)
           item == [s \in S |-> ListWriteOf(i, s)]
           items == ListWrites(i)
<1>1. ItemsOf(items, S, item)
  BY ListWritesListed
<1>2. \A s \in S : /\ item[s] = ListWriteOf(i, s)
                   /\ item[s].source = s /\ item[s].path = PlaylistPath(i, s)
  <2>1. \A s : ListWriteOf(i, s).source = s
               /\ ListWriteOf(i, s).path = PlaylistPath(i, s)
    BY DEF ListWriteOf
  <2> QED
    BY <2>1
<1>2a. S \subseteq i.lib.selected
  BY DEF Written
<1> HIDE DEF items, item, S
<1>3. PICK s \in S : items[k] = item[s]
  BY <1>1 DEF ItemsOf, items
<1>4. ASSUME NEW j \in DOMAIN items, j # k
      PROVE  items[j].source # s /\ items[j].path # PlaylistPath(i, s)
  <2>1. PICK r \in S : items[j] = item[r]
    BY <1>1 DEF ItemsOf
  <2>2. r # s
    <3>1. \A x, y \in S : item[x] = item[y] => x = y
      BY <1>2
    <3> QED
      BY <1>1, <1>3, <1>4, <2>1, <3>1 DEF ItemsOf, items
  <2> QED
    BY <1>2, <1>2a, <2>1, <2>2, PlaylistPathsApart
<1>5. ASSUME NEW path \in items[k].entries
      PROVE  \/ path \in DesiredPaths(i)
             \/ \E t \in Retained(i) : Siblings(i, t) = {} /\ path = RowPath(i, t)
  <2>1. PICK t \in Entries(i, s) \cap (Desired(i) \cup RowTracks(i)) :
          path = EntryPath(i, t)
    <3>1. ListWriteOf(i, s).entries = Rendered(i, s)
      BY DEF ListWriteOf
    <3> QED
      BY <1>2, <1>3, <1>5, <3>1 DEF Rendered
  <2>2. CASE t \in Desired(i)
    BY <2>1, <2>2 DEF EntryPath, DesiredPaths
  <2>3. CASE t \notin Desired(i)
    <3>1. t \in Wanted(i) /\ t \in RowTracks(i) /\ t \in Track
      BY <1>2a, <2>1, <2>3, InputParts DEF Wanted
    <3>2. t \in Retained(i) /\ t \notin i.lib.present /\ path = RowPath(i, t)
      BY <2>1, <2>3, <3>1 DEF Retained, EntryPath, Desired
    <3>3. \A u \in Unit(t) : u \notin i.lib.present
      BY <3>1, <3>2, UnitFacts DEF IsInput, IsCue
    <3> QED
      BY <3>2, <3>3 DEF Siblings, Desired
  <2> QED
    BY <2>2, <2>3
<1> QED
  BY <1>2, <1>2a, <1>3, <1>4, <1>5 DEF items, S

\* Every other selected playlist is written.
LEMMA SelectedListsWritten ==
  ASSUME NEW i, IsInput(i), NEW s \in Written(i)
  PROVE  \E k \in DOMAIN ListWrites(i) : ListWrites(i)[k].source = s
<1> DEFINE S == Written(i)
           item == [r \in S |-> ListWriteOf(i, r)]
<1>1. ItemsOf(ListWrites(i), S, item)
  BY ListWritesListed
<1>2. item[s].source = s
  BY DEF ListWriteOf
<1> HIDE DEF item
<1> QED
  BY <1>1, <1>2 DEF ItemsOf

\* An obsolete playlist is one the inventory knows, and no planned one is there.
LEMMA ListRemovalFacts ==
  ASSUME NEW i, IsInput(i), ListRowsAreApart(i.store.listRows)
  PROVE  /\ \A k \in DOMAIN ListRemovals(i) :
              LET row == ListRemovals(i)[k]
              IN  /\ row.source \in DOMAIN i.store.listRows
                  /\ row.path = i.store.listRows[row.source]
                  /\ \A s \in i.lib.selected : PlaylistPath(i, s) # row.path
         /\ \A s \in DOMAIN i.store.listRows \ i.lib.selected :
              \E k \in DOMAIN ListRemovals(i) :
                /\ ListRemovals(i)[k].source = s
                /\ ListRemovals(i)[k].path = i.store.listRows[s]
<1> DEFINE S == Outdated(i)
           item == [s \in S |-> [source |-> s, path |-> i.store.listRows[s]]]
<1>1. ItemsOf(ListRemovals(i), S, item)
  BY ListRemovalsListed
<1>2. \A s \in S : item[s].source = s /\ item[s].path = i.store.listRows[s]
  OBVIOUS
<1> HIDE DEF item
<1>3. ASSUME NEW k \in DOMAIN ListRemovals(i)
      PROVE  LET row == ListRemovals(i)[k]
             IN  /\ row.source \in DOMAIN i.store.listRows
                 /\ row.path = i.store.listRows[row.source]
                 /\ \A s \in i.lib.selected : PlaylistPath(i, s) # row.path
  <2>1. PICK r \in S : ListRemovals(i)[k] = item[r]
    BY <1>1 DEF ItemsOf
  <2>2. /\ r \in DOMAIN i.store.listRows
        /\ r \in i.lib.selected => PlaylistPath(i, r) # i.store.listRows[r]
    BY <2>1 DEF Outdated
  <2>3. \A s \in i.lib.selected : PlaylistPath(i, s) # i.store.listRows[r]
    BY <2>2, ListRowsKeepTheirSlots
  <2> QED
    BY <1>2, <2>1, <2>2, <2>3
<1>4. ASSUME NEW s \in DOMAIN i.store.listRows \ i.lib.selected
      PROVE  \E k \in DOMAIN ListRemovals(i) :
                /\ ListRemovals(i)[k].source = s
                /\ ListRemovals(i)[k].path = i.store.listRows[s]
  <2>1. s \in S
    BY DEF Outdated
  <2>2. PICK k \in DOMAIN ListRemovals(i) : ListRemovals(i)[k] = item[s]
    BY <1>1, <2>1 DEF ItemsOf
  <2> QED
    BY <1>2, <2>1, <2>2
<1> QED
  BY <1>3, <1>4

\* A sidecar and a playlist are written where no audio is wanted.
LEMMA WritesAreNoAudio ==
  ASSUME NEW i, IsInput(i)
  PROVE  /\ \A k \in DOMAIN AnalysisWrites(i) :
              AnalysisWrites(i)[k].path \notin DesiredPaths(i)
         /\ \A k \in DOMAIN ListWrites(i) :
              ListWrites(i)[k].path \notin DesiredPaths(i)
<1>1. \A path \in DesiredPaths(i) : path.kind = "audio"
  BY DesiredPathNamed DEF DesiredPaths
<1>2. ASSUME NEW t \in Desired(i)
      PROVE  SidecarOf(DesiredPath(i, t)).kind = "analysis"
  <2> DEFINE path == DesiredPath(i, t)
  <2>1. path \in [kind : {path.kind}, stem : {path.stem}, slot : {path.slot},
                  extension : {path.extension}]
    BY DesiredPathParts DEF AudioPath
  <2> HIDE DEF path
  <2> QED
    BY <2>1 DEF SidecarOf, path
<1>3. \A k \in DOMAIN AnalysisWrites(i) : AnalysisWrites(i)[k].path.kind = "analysis"
  BY <1>2, AnalysisListed
<1>4. ASSUME NEW k \in DOMAIN ListWrites(i)
      PROVE  ListWrites(i)[k].path.kind = "list"
  <2>1. PICK s \in i.lib.selected : ListWrites(i)[k].path = PlaylistPath(i, s)
    BY ListWriteFacts
  <2> QED
    BY <2>1, ListSlotFrom
<1> QED
  BY <1>1, <1>3, <1>4
=============================================================================
