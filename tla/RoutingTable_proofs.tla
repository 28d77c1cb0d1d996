------------------------ MODULE RoutingTable_proofs ------------------------
(***************************************************************************)
(* The buckets of a routing table stay a partition of the id space, for    *)
(* any holder, id space, bucket size and sequence of contacts, its         *)
(* pointers stay valid, and the table implements a set of contacts.        *)
(*                                                                         *)
(* What makes the halves and quarters of the holder bucket tile it is that *)
(* its width is a power of two, and at least four when it is split: it has *)
(* K contacts then, three or more, and the holder itself is none of them.  *)
(***************************************************************************)
EXTENDS RoutingTable, FiniteSetTheorems, TLAPS

HolderWidth == High(holder_bucket) - Low(holder_bucket) + 1 \in PowerOfTwo

\* The bucket b starts at a multiple of its width.
Aligned(b) == \E m \in Nat : Low(b) = m * (High(b) - Low(b) + 1)

\* The ids of b have the upper bits k, the others being those below w.
Within(b, w, k) == k * w <= Low(b) /\ High(b) < k * w + w

\* Some upper bits tell all ids of b from all of c.
Separated(b, c) ==
  \E w \in PowerOfTwo : \E i, j \in Nat : i # j /\ Within(b, w, i) /\ Within(c, w, j)

BucketsAreBlocks ==
  /\ Aligned(holder_bucket)
  /\ \A b, c \in buckets : b # c => Separated(b, c)

IInv == TypeOK /\ Partition /\ PointersAreValid /\ HolderWidth /\ BucketsAreBlocks

Apart(b, c) == High(b) < Low(c) \/ High(c) < Low(b)

-----------------------------------------------------------------------------
(* There is one set of the k closest                                       *)

\* Induction, for a set of numbers.
LEMMA InductiveSet ==
  ASSUME NEW S, 0 \in S, \A n \in Nat : n \in S => n + 1 \in S
  PROVE  Nat \subseteq S
<1> SUFFICES ASSUME NEW b \in Nat \ S PROVE FALSE
  OBVIOUS
<1> DEFINE T == {0 .. m : m \in Nat \ S}
<1>1. T \subseteq FiniteSubsetsOf(Nat) /\ T # {}
  <2>1. ASSUME NEW m \in Nat PROVE 0 .. m \in FiniteSubsetsOf(Nat)
    BY FS_Interval DEF FiniteSubsetsOf
  <2> QED
    BY <2>1
<1>2. PICK t \in T : \A u \in T : ~(<<u, t>> \in StrictSubsetOrdering(Nat))
  BY <1>1, FS_StrictSubsetOrderingWellFounded, WFMin
<1>3. PICK m \in Nat \ S : t = 0 .. m
  BY <1>2
<1>4. m # 0 /\ m - 1 \in Nat
  BY <1>3
<1>5. m - 1 \notin S
  BY <1>4
<1>6. 0 .. m - 1 \in T
  BY <1>4, <1>5
<1>7. <<0 .. m - 1, 0 .. m>> \in StrictSubsetOrdering(Nat)
  <2>1. 0 .. m - 1 \subseteq 0 .. m /\ m \in 0 .. m /\ m \notin 0 .. m - 1
    BY <1>4
  <2>2. 0 .. m \in SUBSET Nat /\ 0 .. m - 1 \in SUBSET Nat
    OBVIOUS
  <2> QED
    BY <2>1, <2>2 DEF StrictSubsetOrdering
<1> QED
  BY <1>2, <1>3, <1>6, <1>7

LEMMA LeastNumber ==
  ASSUME NEW S \in SUBSET Nat, S # {}
  PROVE  \E m \in S : \A n \in S : m <= n
<1> SUFFICES ASSUME \A m \in S : \E n \in S : n < m PROVE FALSE
  OBVIOUS
<1> DEFINE T == {n \in Nat : \A m \in S : n < m}
<1>1. 0 \in T
  OBVIOUS
<1>2. ASSUME NEW n \in Nat, n \in T PROVE n + 1 \in T
  <2>1. n + 1 \notin S
    BY <1>2
  <2>2. \A m \in S : n < m /\ m # n + 1
    BY <1>2, <2>1
  <2> QED
    BY <2>2
<1> HIDE DEF T
<1>3. Nat \subseteq T
  BY <1>1, <1>2, InductiveSet
<1>4. PICK m \in S : TRUE
  OBVIOUS
<1>5. m \in T
  BY <1>3
<1> QED
  BY <1>5 DEF T

\* The element of S closest to t.
LEMMA ClosestExists ==
  ASSUME NEW S \in SUBSET Id, S # {}, NEW t \in Id
  PROVE  \E m \in S : \A n \in S \ {m} : Closer(t, m, n)
<1>1. \A a, b \in Id : Dist[t][a] \in Nat /\ (Dist[t][a] = Dist[t][b] => a = b)
  BY DistAssumption
<1> DEFINE D == {Dist[t][a] : a \in S}
<1>2. D \in SUBSET Nat /\ D # {}
  BY <1>1
<1> HIDE DEF D
<1>3. PICK d \in D : \A e \in D : d <= e
  BY <1>2, LeastNumber
<1> USE DEF D
<1>4. PICK m \in S : d = Dist[t][m]
  BY <1>3
<1>5. ASSUME NEW n \in S \ {m} PROVE Closer(t, m, n)
  <2>1. Dist[t][m] <= Dist[t][n] /\ Dist[t][m] # Dist[t][n]
    BY <1>1, <1>3, <1>4
  <2> QED
    BY <1>1, <2>1 DEF Closer
<1> QED
  BY <1>5

\* A search that asks for the closest of some nodes finds them.
LEMMA NearestExists ==
  ASSUME NEW S \in SUBSET Id, IsFiniteSet(S), NEW t \in Id, NEW k \in Nat
  PROVE  Nearest(S, t, k) # {}
<1> DEFINE R == {n \in Nat : Nearest(S, t, n) # {}}
<1>1. Cardinality(S) \in Nat
  BY FS_CardinalityType
<1>2. 0 \in R
  <2>1. {} \in Nearest(S, t, 0)
    BY <1>1, FS_EmptySet DEF Nearest
  <2> QED
    BY <2>1
<1>3. ASSUME NEW n \in Nat, n \in R PROVE n + 1 \in R
  <2>1. PICK T : T \in Nearest(S, t, n)
    BY <1>3
  <2>2. /\ T \in SUBSET S
        /\ Cardinality(T) = IF Cardinality(S) < n THEN Cardinality(S) ELSE n
        /\ \A a \in T, b \in S \ T : Closer(t, a, b)
    BY <2>1 DEF Nearest
  <2>3. IsFiniteSet(T)
    BY <2>2, FS_Subset
  <2>4. CASE Cardinality(S) <= n
    <3>1. Cardinality(T) = IF Cardinality(S) < n + 1 THEN Cardinality(S) ELSE n + 1
      BY <1>1, <2>2, <2>4
    <3>2. T \in Nearest(S, t, n + 1)
      BY <2>2, <3>1 DEF Nearest
    <3> QED
      BY <3>2
  <2>5. CASE ~(Cardinality(S) <= n)
    <3>1. S \ T # {}
      BY <1>1, <2>2, <2>5
    <3>2. PICK m \in S \ T : \A b \in (S \ T) \ {m} : Closer(t, m, b)
      BY <3>1, ClosestExists
    <3>3. Cardinality(T \cup {m}) = n + 1
      <4>1. Cardinality(T) = n /\ m \notin T
        BY <1>1, <2>2, <2>5
      <4> QED
        BY <2>3, <4>1, FS_AddElement
    <3>4. T \cup {m} \in Nearest(S, t, n + 1)
      <4>1. T \cup {m} \in SUBSET S
        BY <2>2
      <4>2. Cardinality(T \cup {m}) = IF Cardinality(S) < n + 1 THEN Cardinality(S) ELSE n + 1
        BY <1>1, <2>5, <3>3
      <4>3. \A a \in T \cup {m}, b \in S \ (T \cup {m}) : Closer(t, a, b)
        BY <2>2, <3>2
      <4> QED
        BY <4>1, <4>2, <4>3 DEF Nearest
    <3> QED
      BY <3>4
  <2> QED
    BY <2>4, <2>5
<1> HIDE DEF R
<1>4. Nat \subseteq R
  BY <1>2, <1>3, InductiveSet
<1>5. k \in R
  BY <1>4
<1> QED
  BY <1>5 DEF R

\* No two elements tie, so that there are no two sets of the closest.
LEMMA NearestIsUnique ==
  ASSUME NEW S \in SUBSET Id, IsFiniteSet(S), NEW t \in Id, NEW k \in Nat,
         NEW T \in Nearest(S, t, k), NEW U \in Nearest(S, t, k)
  PROVE  T = U
<1>1. /\ T \in SUBSET S /\ U \in SUBSET S
      /\ Cardinality(T) = Cardinality(U)
      /\ \A a \in T, b \in S \ T : Closer(t, a, b)
      /\ \A a \in U, b \in S \ U : Closer(t, a, b)
  BY DEF Nearest
<1>2. IsFiniteSet(T) /\ IsFiniteSet(U)
  BY <1>1, FS_Subset
<1>3. \A a, b \in Id : ~(Closer(t, a, b) /\ Closer(t, b, a))
  <2>1. \A a \in Id : Dist[t][a] \in Nat
    BY DistAssumption
  <2> QED
    BY <2>1 DEF Closer
<1>4. T \subseteq U \/ U \subseteq T
  BY <1>1, <1>3
<1> QED
  BY <1>1, <1>2, <1>4, FS_Subset

-----------------------------------------------------------------------------
(* Facts about buckets and what they hold                                  *)

\* A bucket has two bounds, which are ids.
LEMMA BucketBounds ==
  ASSUME NEW b \in Bucket
  PROVE  /\ Low(b) \in Int /\ High(b) \in Int /\ Low(b) \in Id /\ High(b) \in Id
         /\ Low(b) <= High(b)
         /\ 0 <= Low(b) /\ High(b) < Size
         /\ b = <<Low(b), High(b)>>
  BY RoutingTableAssumption DEF Bucket, Low, High

\* Ids are numbers, and contacts have ids.
LEMMA IdsAreNumbers ==
  /\ Size \in Nat
  /\ \A id \in Id : id \in Int /\ 0 <= id /\ id < Size
  /\ \A id \in Int : 0 <= id /\ id < Size => id \in Id
  /\ \A p \in Peer : p \in Id /\ p # holder_id
  /\ holder_id \in Id
  /\ K \in Nat /\ K >= 3
<1>1. /\ Size \in PowerOfTwo /\ PowerOfTwo \subseteq Nat \ {0} /\ Id = 0 .. Size - 1
      /\ holder_id \in Id /\ Peer \subseteq Id \ {holder_id} /\ K \in Nat /\ K >= 3
  BY RoutingTableAssumption
<1> QED
  BY <1>1

\* Sets of contacts are finite.
LEMMA PeersAreFinite ==
  ASSUME NEW S \in SUBSET Peer
  PROVE  IsFiniteSet(S) /\ Cardinality(S) \in Nat
<1>1. IsFiniteSet(0 .. Size - 1)
  BY IdsAreNumbers, FS_Interval
<1>2. S \in SUBSET (0 .. Size - 1)
  BY RoutingTableAssumption
<1> QED
  BY <1>1, <1>2, FS_Subset, FS_CardinalityType

\* The bucket that lower_bound finds has the id in its range.
LEMMA LowerBoundFinds ==
  ASSUME IInv, NEW id \in Id, NEW b, IsLowerBound(b, id)
  PROVE  b \in buckets /\ b \in Bucket /\ InRange(b, id)
<1>1. b \in buckets /\ b \in Bucket /\ id <= High(b)
  BY DEF IsLowerBound, IInv, TypeOK
<1>2. PICK d \in buckets : InRange(d, id)
  BY DEF IInv, Partition
<1>3. d \in Bucket
  BY DEF IInv, TypeOK
<1>4. High(b) <= High(d)
  BY <1>2 DEF IsLowerBound, InRange
<1>5. CASE b # d
  <2>1. High(b) < Low(d) \/ High(d) < Low(b)
    BY <1>1, <1>2, <1>5 DEF IInv, Partition
  <2> QED
    BY <1>1, <1>2, <1>3, <1>4, <2>1, BucketBounds, IdsAreNumbers DEF InRange
<1> QED
  BY <1>1, <1>2, <1>5

\* An id is in the range of one bucket only.
LEMMA OneBucket ==
  ASSUME IInv, NEW id \in Id, NEW b \in buckets, NEW c \in buckets, InRange(b, id), InRange(c, id)
  PROVE  b = c
<1>1. b \in Bucket /\ c \in Bucket
  BY DEF IInv, TypeOK
<1>2. b # c => High(b) < Low(c) \/ High(c) < Low(b)
  BY DEF IInv, Partition
<1> QED
  BY <1>1, <1>2, BucketBounds, IdsAreNumbers DEF InRange

-----------------------------------------------------------------------------
(* The arithmetic of a split                                               *)

\* The holder bucket, when it is full, is wide enough to be cut in four.
LEMMA FourParts ==
  ASSUME IInv, IsFull(holder_bucket)
  PROVE  \E q \in Nat \ {0} : /\ High(holder_bucket) = Low(holder_bucket) + 4 * q - 1
                              /\ 2 * q \in PowerOfTwo /\ q \in PowerOfTwo
                              /\ \E m \in Nat : Low(holder_bucket) = m * (4 * q)
<1> DEFINE L == Low(holder_bucket)
           H == High(holder_bucket)
           w == H - L + 1
<1>1. holder_bucket \in buckets /\ holder_bucket \in Bucket
  BY DEF IInv, TypeOK
<1>2. L \in Int /\ H \in Int /\ L <= H /\ L <= holder_id /\ holder_id <= H
  BY <1>1, BucketBounds DEF IInv, PointersAreValid, InRange
<1> DEFINE S == held[holder_bucket]
<1>3. S \in SUBSET Peer /\ Cardinality(S) >= K
  BY <1>1 DEF IInv, TypeOK, IsFull
<1>4. S \in SUBSET ((L .. H) \ {holder_id})
  <2>1. ASSUME NEW p \in S PROVE p \in L .. H /\ p # holder_id
    <3>1. InRange(holder_bucket, p)
      BY <1>1 DEF IInv, Partition
    <3>2. p \in Int /\ p # holder_id
      BY <1>3, IdsAreNumbers
    <3> QED
      BY <1>2, <3>1, <3>2 DEF InRange
  <2> QED
    BY <2>1
<1>5. /\ IsFiniteSet((L .. H) \ {holder_id})
      /\ Cardinality((L .. H) \ {holder_id}) = w - 1
  <2>1. IsFiniteSet(L .. H) /\ Cardinality(L .. H) = w
    BY <1>2, FS_Interval
  <2>2. holder_id \in L .. H
    BY <1>2, IdsAreNumbers
  <2> QED
    BY <2>1, <2>2, FS_RemoveElement
<1>6. w >= 4
  <2>1. Cardinality(S) <= w - 1
    BY <1>4, <1>5, FS_Subset
  <2>2. Cardinality(S) \in Nat
    BY <1>3, PeersAreFinite
  <2> QED
    BY <1>2, <1>3, <2>1, <2>2, IdsAreNumbers
<1>7. w \in PowerOfTwo /\ w \in Nat
  BY <1>2, <1>6 DEF IInv, HolderWidth
<1> HIDE DEF w
<1>8. w % 2 = 0 /\ w \div 2 \in PowerOfTwo
  BY <1>6, <1>7, RoutingTableAssumption
<1> DEFINE v == w \div 2
<1>9. v \in Nat /\ w = 2 * v
  BY <1>7, <1>8
<1>10. v % 2 = 0 /\ v \div 2 \in Nat /\ v \div 2 \in PowerOfTwo
  BY <1>6, <1>8, <1>9, RoutingTableAssumption
<1> DEFINE q == v \div 2
<1> HIDE DEF v
<1>11. q \in Nat /\ v = 2 * q
  BY <1>9, <1>10
<1> HIDE DEF q
<1>12. q \in Nat \ {0} /\ w = 4 * q
  BY <1>6, <1>9, <1>11
<1>13. H = L + 4 * q - 1
  BY <1>2, <1>12 DEF w
<1>14. 2 * q \in PowerOfTwo
  BY <1>8, <1>11 DEF v
<1>15. q \in PowerOfTwo
  BY <1>10 DEF q
<1>16. \E m \in Nat : L = m * (4 * q)
  <2>1. PICK m \in Nat : L = m * w
    BY DEF IInv, BucketsAreBlocks, Aligned, w
  <2> QED
    BY <1>12, <2>1
<1> QED
  BY <1>12, <1>13, <1>14, <1>15, <1>16

\* The halves of a bucket of four parts, and the parts of a half.
LEMMA HalvesAre ==
  ASSUME NEW b \in Bucket, NEW q \in Nat \ {0}, High(b) = Low(b) + 4 * q - 1
  PROVE  Halves(b) = {<<Low(b), Low(b) + 2 * q - 1>>, <<Low(b) + 2 * q, Low(b) + 4 * q - 1>>}
<1> DEFINE L == Low(b)
<1>1. L \in Int
  BY BucketBounds
<1>2. Wid(b) = 2 * q - 1
  BY <1>1 DEF Wid
<1>3. Halves(b) = {<<L + i * (2 * q), L + i * (2 * q) + 2 * q - 1>> : i \in {0, 1}}
  <2>1. 0 .. rt_pow2_r - 1 = {0, 1}
    BY DEF rt_pow2_r
  <2>2. Halves(b) = {<<L + i * (Wid(b) + 1), L + i * (Wid(b) + 1) + Wid(b)>> : i \in {0, 1}}
    BY <2>1 DEF Halves
  <2>3. \A i \in {0, 1} : L + i * (Wid(b) + 1) = L + i * (2 * q)
    BY <1>1, <1>2
  <2>4. \A i \in {0, 1} : L + i * (Wid(b) + 1) + Wid(b) = L + i * (2 * q) + 2 * q - 1
    BY <1>1, <1>2
  <2> QED
    BY <2>2, <2>3, <2>4
<1>4. /\ L + 0 * (2 * q) = L /\ L + 0 * (2 * q) + 2 * q - 1 = L + 2 * q - 1
      /\ L + 1 * (2 * q) = L + 2 * q /\ L + 1 * (2 * q) + 2 * q - 1 = L + 4 * q - 1
  BY <1>1
<1> QED
  BY <1>3, <1>4

LEMMA PartsAre ==
  ASSUME NEW b \in Bucket, NEW q \in Nat \ {0}, High(b) = Low(b) + 4 * q - 1,
         NEW h, Low(h) \in Int
  PROVE  Parts(b, h) = {<<Low(h), Low(h) + q - 1>>, <<Low(h) + q, Low(h) + 2 * q - 1>>}
<1> DEFINE l == Low(h)
           b_wid == Wid(b) \div 2
<1>1. b_wid = q - 1
  BY BucketBounds DEF Wid
<1>2. 0 .. rt_pow2_b_r - 1 = {0, 1}
  BY DEF rt_pow2_b_r
<1>3. Parts(b, h) = {<<l + j * (b_wid + 1), l + j * (b_wid + 1) + b_wid>> : j \in {0, 1}}
  BY <1>2 DEF Parts
<1> HIDE DEF b_wid
<1>4. /\ l + 0 * (b_wid + 1) = l /\ l + 0 * (b_wid + 1) + b_wid = l + q - 1
      /\ l + 1 * (b_wid + 1) = l + q /\ l + 1 * (b_wid + 1) + b_wid = l + 2 * q - 1
  BY <1>1
<1> QED
  BY <1>3, <1>4

\* The half with the holder and the parts of the other one tile the bucket.
LEMMA SplitTiles ==
  ASSUME IInv, NEW p, Split(p), IsFull(holder_bucket)
  PROVE  \E h, brothers :
           /\ held' = [b \in (buckets \ {holder_bucket}) \cup {h} \cup brothers |->
                         IF b \in buckets \ {holder_bucket} THEN held[b]
                         ELSE ContactsFor(holder_bucket, b)]
           /\ holder_bucket' = h
           /\ holder_brother_bucket' = brothers
           /\ h \notin brothers
           /\ InRange(h, holder_id) /\ High(h) - Low(h) + 1 \in PowerOfTwo
           /\ {h} \cup brothers \subseteq Bucket
           /\ \A b \in {h} \cup brothers : Low(holder_bucket) <= Low(b) /\ High(b) <= High(holder_bucket)
           /\ \A id \in Id : InRange(holder_bucket, id) => \E b \in {h} \cup brothers : InRange(b, id)
           /\ \A b, c \in {h} \cup brothers : b # c => Apart(b, c)
           /\ Aligned(h) /\ \A b, c \in {h} \cup brothers : b # c => Separated(b, c)
<1>1. holder_bucket \in Bucket
  BY DEF IInv, TypeOK
<1> DEFINE L == Low(holder_bucket)
           H == High(holder_bucket)
<1>2. PICK q \in Nat \ {0} :
        /\ H = L + 4 * q - 1 /\ 2 * q \in PowerOfTwo /\ q \in PowerOfTwo
        /\ \E m \in Nat : L = m * (4 * q)
  BY FourParts
<1>3. L \in Int /\ H \in Int /\ 0 <= L /\ H < Size
  BY <1>1, BucketBounds
<1> DEFINE lower == <<L, L + 2 * q - 1>>
           upper == <<L + 2 * q, L + 4 * q - 1>>
<1>4. Halves(holder_bucket) = {lower, upper} /\ lower # upper
  BY <1>1, <1>2, <1>3, HalvesAre
<1>5. PICK h \in HolderHalf(holder_bucket) :
        LET brothers == UNION {Parts(holder_bucket, g) : g \in Halves(holder_bucket) \ {h}}
            kept == buckets \ {holder_bucket}
        IN  /\ held' = [b \in kept \cup {h} \cup brothers |->
                          IF b \in kept THEN held[b] ELSE ContactsFor(holder_bucket, b)]
            /\ holder_bucket' = h
            /\ holder_brother_bucket' = brothers
  BY DEF Split
<1>6. h \in {lower, upper} /\ InRange(h, holder_id)
  BY <1>4, <1>5 DEF HolderHalf
<1> DEFINE g == IF h = lower THEN upper ELSE lower
           brothers == {<<Low(g), Low(g) + q - 1>>, <<Low(g) + q, Low(g) + 2 * q - 1>>}
<1>7. Low(g) \in Int /\ Low(g) = IF h = lower THEN L + 2 * q ELSE L
  BY <1>3 DEF Low
<1>8. UNION {Parts(holder_bucket, f) : f \in Halves(holder_bucket) \ {h}} = brothers
  <2>1. Halves(holder_bucket) \ {h} = {g}
    BY <1>4, <1>6
  <2>2. Parts(holder_bucket, g) = brothers
    BY <1>1, <1>2, <1>7, PartsAre
  <2> QED
    BY <2>1, <2>2
<1>9. /\ held' = [b \in (buckets \ {holder_bucket}) \cup {h} \cup brothers |->
                    IF b \in buckets \ {holder_bucket} THEN held[b]
                    ELSE ContactsFor(holder_bucket, b)]
      /\ holder_bucket' = h
      /\ holder_brother_bucket' = brothers
  BY <1>5, <1>8
<1> DEFINE part1 == <<Low(g), Low(g) + q - 1>>
           part2 == <<Low(g) + q, Low(g) + 2 * q - 1>>
<1>10. /\ Low(h) = (IF h = lower THEN L ELSE L + 2 * q) /\ High(h) = Low(h) + 2 * q - 1
       /\ Low(part1) = Low(g) /\ High(part1) = Low(g) + q - 1
       /\ Low(part2) = Low(g) + q /\ High(part2) = Low(g) + 2 * q - 1
       /\ brothers = {part1, part2}
       /\ h = <<Low(h), High(h)>>
  BY <1>3, <1>6 DEF Low, High
<1>11. /\ Low(h) \in Int
       /\ \/ Low(h) = L /\ Low(g) = L + 2 * q
          \/ Low(h) = L + 2 * q /\ Low(g) = L
  BY <1>3, <1>6, <1>7, <1>10
<1> HIDE DEF g, part1, part2, brothers, lower, upper, L, H
<1>12. Apart(h, part1) /\ Apart(h, part2) /\ Apart(part1, part2)
  BY <1>2, <1>3, <1>7, <1>10, <1>11 DEF Apart
<1>13. h \notin brothers
  BY <1>2, <1>3, <1>7, <1>10, <1>11
<1>14. High(h) - Low(h) + 1 \in PowerOfTwo
  <2>1. High(h) - Low(h) + 1 = 2 * q
    BY <1>10, <1>11
  <2> QED
    BY <1>2, <2>1
<1>15. \A b \in {h, part1, part2} : L <= Low(b) /\ High(b) <= H /\ Low(b) <= High(b)
                                    /\ Low(b) \in Int /\ High(b) \in Int
  BY <1>2, <1>3, <1>7, <1>10, <1>11
<1>16. {h, part1, part2} \subseteq Bucket
  <2>1. ASSUME NEW b \in {h, part1, part2} PROVE b \in Bucket
    <3>1. b = <<Low(b), High(b)>>
      BY <1>7, <1>10 DEF part1, part2
    <3>2. Low(b) \in Id /\ High(b) \in Id
      BY <1>3, <1>15, IdsAreNumbers
    <3> QED
      BY <1>15, <3>1, <3>2 DEF Bucket, Low, High
  <2> QED
    BY <2>1
<1>17. ASSUME NEW id \in Id, InRange(holder_bucket, id)
       PROVE  \E b \in {h, part1, part2} : InRange(b, id)
  <2>1. id \in Int /\ L <= id /\ id <= H
    BY <1>17, IdsAreNumbers DEF InRange, L, H
  <2>2. InRange(h, id) \/ InRange(part1, id) \/ InRange(part2, id)
    BY <1>2, <1>3, <1>7, <1>10, <1>11, <2>1 DEF InRange
  <2> QED
    BY <2>2
<1>18. {h} \cup brothers = {h, part1, part2}
  BY <1>10
<1>19. \A b, c \in {h} \cup brothers : b # c => Apart(b, c)
  BY <1>12, <1>18 DEF Apart
<1>20. PICK i, j \in Nat : i # j /\ Low(h) = i * (2 * q) /\ Low(g) = j * (2 * q)
  <2>1. PICK m \in Nat : L = m * (4 * q)
    BY <1>2
  <2>2. L = (2 * m) * (2 * q) /\ L + 2 * q = (2 * m + 1) * (2 * q)
    BY <2>1
  <2>3. 2 * m \in Nat /\ 2 * m + 1 \in Nat /\ 2 * m # 2 * m + 1
    OBVIOUS
  <2> QED
    BY <1>11, <2>2, <2>3
<1>21. Aligned(h)
  <2>1. High(h) - Low(h) + 1 = 2 * q
    BY <1>10, <1>11
  <2> QED
    BY <1>20, <2>1 DEF Aligned
<1>22. Separated(h, part1) /\ Separated(part1, h) /\ Separated(h, part2) /\ Separated(part2, h)
  <2>1. Within(h, 2 * q, i) /\ Within(part1, 2 * q, j) /\ Within(part2, 2 * q, j)
    BY <1>7, <1>10, <1>11, <1>20 DEF Within
  <2> QED
    BY <1>2, <1>20, <2>1 DEF Separated
<1>23. Separated(part1, part2) /\ Separated(part2, part1)
  <2>1. Low(g) = (2 * j) * q /\ Low(g) + q = (2 * j + 1) * q
    BY <1>20
  <2>2. 2 * j \in Nat /\ 2 * j + 1 \in Nat /\ 2 * j # 2 * j + 1
    OBVIOUS
  <2>3. Within(part1, q, 2 * j) /\ Within(part2, q, 2 * j + 1)
    BY <1>7, <1>10, <2>1 DEF Within
  <2> QED
    BY <1>2, <2>2, <2>3 DEF Separated
<1>24. \A b, c \in {h} \cup brothers : b # c => Separated(b, c)
  BY <1>18, <1>22, <1>23
<1> QED
  BY <1>6, <1>9, <1>13, <1>14, <1>15, <1>16, <1>17, <1>18, <1>19, <1>21, <1>24 DEF L, H

-----------------------------------------------------------------------------
(* The steps.  Each keeps the invariant and is one of a set of contacts.   *)

AbsStep == [Abs!Next]_contacts

LEMMA InitIInv == Init => IInv /\ Abs!Init
<1> SUFFICES ASSUME Init PROVE IInv /\ Abs!Init
  OBVIOUS
<1> DEFINE all == <<0, Size - 1>>
<1>1. held = [b \in {all} |-> {}] /\ holder_bucket = all /\ holder_brother_bucket = {}
  BY DEF Init
<1>2. buckets = {all} /\ held[all] = {}
  BY <1>1 DEF buckets
<1>3. all \in Bucket /\ Low(all) = 0 /\ High(all) = Size - 1
  BY IdsAreNumbers DEF Bucket, Low, High
<1> HIDE DEF all
<1>4. TypeOK
  <2>1. held \in [buckets -> SUBSET Peer]
    BY <1>1, <1>2
  <2>2. now \in 0 .. MaxTime /\ last_seen \in [Peer -> 0 .. MaxTime]
    BY RoutingTableAssumption DEF Init
  <2> QED
    BY <1>1, <1>2, <1>3, <2>1, <2>2 DEF Init, TypeOK
<1>5. \A id \in Id : InRange(all, id)
  BY <1>3, IdsAreNumbers DEF InRange
<1>6. Cardinality({}) = 0
  BY FS_EmptySet
<1>7. Partition
  BY <1>2, <1>5, <1>6, IdsAreNumbers DEF Partition
<1>8. PointersAreValid
  BY <1>1, <1>2, <1>5, IdsAreNumbers DEF PointersAreValid
<1>9. HolderWidth
  BY <1>1, <1>3, IdsAreNumbers, RoutingTableAssumption DEF HolderWidth
<1>10. Abs!Init
  BY <1>2 DEF Abs!Init, contacts
<1>11. BucketsAreBlocks
  <2>1. Low(all) = 0 * (High(all) - Low(all) + 1)
    BY <1>3, IdsAreNumbers
  <2>2. Aligned(all)
    BY <2>1 DEF Aligned
  <2> QED
    BY <1>1, <1>2, <2>2 DEF BucketsAreBlocks
<1> QED
  BY <1>4, <1>7, <1>8, <1>9, <1>10, <1>11 DEF IInv

LEMMA SplitIInv ==
  ASSUME IInv, NEW p \in Peer, Split(p), IsFull(holder_bucket)
  PROVE  IInv' /\ contacts' = contacts
<1>1. PICK h, brothers :
        /\ held' = [b \in (buckets \ {holder_bucket}) \cup {h} \cup brothers |->
                      IF b \in buckets \ {holder_bucket} THEN held[b]
                      ELSE ContactsFor(holder_bucket, b)]
        /\ holder_bucket' = h
        /\ holder_brother_bucket' = brothers
        /\ h \notin brothers
        /\ InRange(h, holder_id) /\ High(h) - Low(h) + 1 \in PowerOfTwo
        /\ {h} \cup brothers \subseteq Bucket
        /\ \A b \in {h} \cup brothers : Low(holder_bucket) <= Low(b) /\ High(b) <= High(holder_bucket)
        /\ \A id \in Id : InRange(holder_bucket, id) => \E b \in {h} \cup brothers : InRange(b, id)
        /\ \A b, c \in {h} \cup brothers : b # c => Apart(b, c)
        /\ Aligned(h) /\ \A b, c \in {h} \cup brothers : b # c => Separated(b, c)
  BY SplitTiles
<1>2. adding' = p /\ ret' = "NONE" /\ is_close_to_holder' = FALSE /\ UNCHANGED <<last_seen, now>>
  BY DEF Split
<1> DEFINE kept == buckets \ {holder_bucket}
           new == {h} \cup brothers
           old == held[holder_bucket]
<1>3. /\ holder_bucket \in buckets /\ holder_bucket \in Bucket /\ old \in SUBSET Peer
      /\ buckets \subseteq Bucket /\ held \in [buckets -> SUBSET Peer]
  BY DEF IInv, TypeOK
<1>4. \A b \in kept : Apart(b, holder_bucket)
  BY <1>3 DEF IInv, Partition, Apart
<1>5. \A b \in kept, c \in new : Apart(b, c) /\ Apart(c, b)
  <2>1. ASSUME NEW b \in kept, NEW c \in new PROVE Apart(b, c) /\ Apart(c, b)
    <3>1. b \in Bucket /\ c \in Bucket /\ Apart(b, holder_bucket)
      BY <1>1, <1>3, <1>4
    <3>2. Low(holder_bucket) <= Low(c) /\ High(c) <= High(holder_bucket)
      BY <1>1
    <3> QED
      BY <1>3, <3>1, <3>2, BucketBounds DEF Apart
  <2> QED
    BY <2>1
<1>6. kept \cap new = {}
  <2>1. ASSUME NEW b \in kept, b \in new PROVE FALSE
    BY <1>3, <1>5, <2>1, BucketBounds DEF Apart
  <2> QED
    BY <2>1
<1>7. /\ buckets' = kept \cup new
      /\ \A b \in kept : held'[b] = held[b]
      /\ \A b \in new : held'[b] = {q \in old : InRange(b, q)}
  BY <1>1, <1>6 DEF ContactsFor, buckets
<1>8. \A b \in new : held'[b] \in SUBSET Peer
  BY <1>3, <1>7
<1>9. TypeOK'
  <2>1. buckets' \subseteq Bucket
    BY <1>1, <1>3, <1>7
  <2>2. held' \in [buckets' -> SUBSET Peer]
    BY <1>1, <1>3, <1>7, <1>8
  <2>3. holder_bucket' \in buckets' /\ holder_brother_bucket' \subseteq Bucket
    BY <1>1, <1>7
  <2> QED
    BY <1>2, <2>1, <2>2, <2>3 DEF TypeOK, IInv
<1>10. \A id \in Id : \E b \in buckets' : InRange(b, id)
  <2>1. ASSUME NEW id \in Id PROVE \E b \in buckets' : InRange(b, id)
    <3>1. PICK b \in buckets : InRange(b, id)
      BY DEF IInv, Partition
    <3> QED
      BY <1>1, <1>7, <3>1
  <2> QED
    BY <2>1
<1>11. \A b, c \in buckets' : b # c => Apart(b, c)
  <2>1. \A b, c \in kept : b # c => Apart(b, c)
    BY DEF IInv, Partition, Apart
  <2> QED
    BY <1>1, <1>5, <1>7, <2>1
<1>12. \A b \in buckets' : (\A q \in held'[b] : InRange(b, q)) /\ Cardinality(held'[b]) <= K
  <2>1. ASSUME NEW b \in kept
        PROVE  (\A q \in held'[b] : InRange(b, q)) /\ Cardinality(held'[b]) <= K
    BY <1>7 DEF IInv, Partition
  <2>2. ASSUME NEW b \in new
        PROVE  (\A q \in held'[b] : InRange(b, q)) /\ Cardinality(held'[b]) <= K
    <3>1. held'[b] \in SUBSET old /\ held'[b] \in SUBSET Peer
      BY <1>7, <1>8
    <3>2. Cardinality(held'[b]) <= Cardinality(old) /\ Cardinality(old) \in Nat
          /\ Cardinality(held'[b]) \in Nat
      BY <1>3, <3>1, PeersAreFinite, FS_Subset
    <3>3. Cardinality(old) <= K
      BY <1>3 DEF IInv, Partition
    <3> QED
      BY <1>7, <3>2, <3>3, IdsAreNumbers
  <2> QED
    BY <1>7, <2>1, <2>2
<1>13. Partition'
  BY <1>10, <1>11, <1>12 DEF Partition, Apart
<1>14. PointersAreValid' /\ HolderWidth'
  BY <1>1, <1>7 DEF PointersAreValid, HolderWidth
<1>16. BucketsAreBlocks'
  <2>1. ASSUME NEW b \in kept, NEW c \in new PROVE Separated(b, c) /\ Separated(c, b)
    <3>1. Separated(b, holder_bucket)
      BY <1>3 DEF IInv, BucketsAreBlocks
    <3>2. PICK w \in PowerOfTwo, i \in Nat, j \in Nat : i # j /\ Within(b, w, i) /\ Within(holder_bucket, w, j)
      BY <3>1 DEF Separated
    <3>3. Within(c, w, j)
      <4>1. /\ Low(holder_bucket) <= Low(c) /\ High(c) <= High(holder_bucket)
            /\ c \in Bucket
        BY <1>1
      <4>2. j * w \in Int /\ w \in Int
        BY RoutingTableAssumption
      <4> QED
        BY <1>3, <3>2, <4>1, <4>2, BucketBounds DEF Within
    <3> QED
      BY <3>2, <3>3 DEF Separated
  <2>2. \A b, c \in kept : b # c => Separated(b, c)
    BY DEF IInv, BucketsAreBlocks
  <2>3. \A b, c \in buckets' : b # c => Separated(b, c)
    BY <1>1, <1>7, <2>1, <2>2
  <2> QED
    BY <1>1, <2>3 DEF BucketsAreBlocks, Aligned, Separated, Within, Low, High
<1>15. contacts' = contacts
  <2>1. ASSUME NEW q \in contacts PROVE q \in contacts'
    <3>1. PICK b \in buckets : q \in held[b]
      BY DEF contacts
    <3>2. CASE b # holder_bucket
      BY <1>7, <3>1, <3>2 DEF contacts
    <3>3. CASE b = holder_bucket
      <4>1. q \in Id /\ InRange(holder_bucket, q)
        BY <1>3, <3>1, <3>3, IdsAreNumbers DEF IInv, Partition
      <4>2. PICK c \in new : InRange(c, q)
        BY <1>1, <4>1
      <4> QED
        BY <1>7, <3>1, <3>3, <4>2 DEF contacts
    <3> QED
      BY <3>2, <3>3
  <2>2. ASSUME NEW q \in contacts' PROVE q \in contacts
    <3>1. PICK b \in buckets' : q \in held'[b]
      BY DEF contacts
    <3> QED
      BY <1>3, <1>7, <3>1 DEF contacts
  <2> QED
    BY <2>1, <2>2
<1> QED
  BY <1>9, <1>13, <1>14, <1>15, <1>16 DEF IInv

\* A bucket is given other contacts, which belong to it and are not too many.
LEMMA ReplaceIInv ==
  ASSUME IInv, NEW b \in buckets, NEW s \in SUBSET Peer,
         \A q \in s : InRange(b, q), Cardinality(s) <= K,
         held' = [held EXCEPT ![b] = s],
         UNCHANGED <<holder_bucket, holder_brother_bucket, now>>,
         adding' = NoContact,
         last_seen' \in [Peer -> 0 .. MaxTime],
         ret' \in {"NONE", "SUCCEED", "FULL", "EXISTED", "REMOVED", "NOT_FOUND"},
         is_close_to_holder' \in BOOLEAN
  PROVE  IInv' /\ contacts' = (contacts \ held[b]) \cup s
<1>1. held \in [buckets -> SUBSET Peer] /\ buckets \subseteq Bucket
  BY DEF IInv, TypeOK
<1>2. /\ buckets' = buckets
      /\ \A c \in buckets : held'[c] = IF c = b THEN s ELSE held[c]
      /\ held' \in [buckets -> SUBSET Peer]
  BY <1>1 DEF buckets
<1>3. TypeOK'
  BY <1>2 DEF IInv, TypeOK
<1>4. Partition'
  BY <1>2 DEF IInv, Partition
<1>5. PointersAreValid' /\ HolderWidth' /\ BucketsAreBlocks'
  BY <1>2 DEF IInv, PointersAreValid, HolderWidth, BucketsAreBlocks
<1>6. ASSUME NEW c \in buckets, c # b PROVE held[c] \cap held[b] = {}
  <2>1. ASSUME NEW q \in held[c], q \in held[b] PROVE FALSE
    <3>1. InRange(c, q) /\ InRange(b, q) /\ q \in Id
      BY <1>1, <2>1, IdsAreNumbers DEF IInv, Partition
    <3> QED
      BY <1>6, <3>1, OneBucket
  <2> QED
    BY <2>1
<1>7. contacts' = (contacts \ held[b]) \cup s
  <2>1. contacts' = UNION {held'[c] : c \in buckets}
    BY <1>2 DEF contacts
  <2>2. ASSUME NEW q \in contacts' PROVE q \in (contacts \ held[b]) \cup s
    BY <1>2, <1>6, <2>1, <2>2 DEF contacts
  <2>3. ASSUME NEW q \in (contacts \ held[b]) \cup s PROVE q \in contacts'
    BY <1>2, <2>1, <2>3 DEF contacts
  <2> QED
    BY <2>2, <2>3
<1> QED
  BY <1>3, <1>4, <1>5, <1>7 DEF IInv

\* What a call to InsertInto leaves in last_seen and ret has its type.
LEMMA InsertTypes ==
  ASSUME IInv, NEW p \in Peer, NEW b \in buckets, NEW c, InsertInto(b, c, p)
  PROVE  /\ last_seen' \in [Peer -> 0 .. MaxTime]
         /\ ret' \in {"EXISTED", "SUCCEED"}
         /\ held' = [held EXCEPT ![b] = c \cup {p}]
  BY RoutingTableAssumption DEF InsertInto, IInv, TypeOK

\* A bucket that has room, or has it already, takes the contact.
LEMMA InsertIInv ==
  ASSUME IInv, NEW p \in Peer, NEW b, IsLowerBound(b, p), ~IsFull(b), InsertInto(b, held[b], p),
         UNCHANGED <<holder_bucket, holder_brother_bucket, now>>, adding' = NoContact,
         is_close_to_holder' \in BOOLEAN
  PROVE  IInv' /\ contacts' = contacts \cup {p}
<1>1. b \in buckets /\ InRange(b, p)
  BY LowerBoundFinds, IdsAreNumbers
<1> DEFINE s == held[b] \cup {p}
<1>2. held[b] \in SUBSET Peer /\ s \in SUBSET Peer
  BY <1>1 DEF IInv, TypeOK
<1>3. \A q \in s : InRange(b, q)
  BY <1>1 DEF IInv, Partition
<1>4. Cardinality(s) <= K
  <2>1. IsFiniteSet(held[b]) /\ Cardinality(held[b]) \in Nat
    BY <1>2, PeersAreFinite
  <2>2. Cardinality(s) = IF p \in held[b] THEN Cardinality(held[b]) ELSE Cardinality(held[b]) + 1
    BY <2>1, FS_AddElement
  <2> QED
    BY <2>1, <2>2, IdsAreNumbers DEF IsFull
<1>5. IInv' /\ contacts' = (contacts \ held[b]) \cup s
  <2> HIDE DEF s
  <2>1. /\ last_seen' \in [Peer -> 0 .. MaxTime]
        /\ ret' \in {"EXISTED", "SUCCEED"}
        /\ held' = [held EXCEPT ![b] = s]
    BY <1>1, InsertTypes DEF s
  <2> QED
    BY <1>1, <1>2, <1>3, <1>4, <2>1, ReplaceIInv
<1>6. held[b] \subseteq contacts
  BY <1>1 DEF contacts
<1> QED
  BY <1>5, <1>6

\* A full bucket gives up one of its contacts for the new one.
LEMMA DisplaceIInv ==
  ASSUME IInv, NEW p \in Peer, NEW b, IsLowerBound(b, p), IsFull(b),
         NEW v \in held[b], InsertInto(b, held[b] \ {v}, p),
         UNCHANGED <<holder_bucket, holder_brother_bucket, now>>, adding' = NoContact,
         is_close_to_holder' \in BOOLEAN
  PROVE  IInv' /\ contacts' = (contacts \ {v}) \cup {p} /\ v \in contacts
<1>1. b \in buckets /\ InRange(b, p)
  BY LowerBoundFinds, IdsAreNumbers
<1> DEFINE s == (held[b] \ {v}) \cup {p}
<1>2. held[b] \in SUBSET Peer /\ s \in SUBSET Peer
  BY <1>1 DEF IInv, TypeOK
<1>3. \A q \in s : InRange(b, q)
  BY <1>1 DEF IInv, Partition
<1>4. Cardinality(s) <= K
  <2>1. IsFiniteSet(held[b]) /\ Cardinality(held[b]) \in Nat /\ Cardinality(held[b]) <= K
    BY <1>1, <1>2, PeersAreFinite DEF IInv, Partition
  <2>2. /\ IsFiniteSet(held[b] \ {v})
        /\ Cardinality(held[b] \ {v}) = Cardinality(held[b]) - 1
    BY <2>1, FS_RemoveElement
  <2>3. Cardinality(s) = IF p \in held[b] \ {v} THEN Cardinality(held[b] \ {v})
                         ELSE Cardinality(held[b] \ {v}) + 1
    BY <2>2, FS_AddElement
  <2> QED
    BY <2>1, <2>2, <2>3, IdsAreNumbers
<1>5. IInv' /\ contacts' = (contacts \ held[b]) \cup s
  <2> HIDE DEF s
  <2>1. /\ last_seen' \in [Peer -> 0 .. MaxTime]
        /\ ret' \in {"EXISTED", "SUCCEED"}
        /\ held' = [held EXCEPT ![b] = s]
    BY <1>1, InsertTypes DEF s
  <2> QED
    BY <1>1, <1>2, <1>3, <1>4, <2>1, ReplaceIInv
<1>6. held[b] \subseteq contacts
  BY <1>1 DEF contacts
<1> QED
  BY <1>5, <1>6

\* A bucket that refuses keeps what it has.
LEMMA RefuseIInv ==
  ASSUME IInv, Refuse, UNCHANGED <<holder_bucket, holder_brother_bucket, now>>,
         adding' = NoContact, is_close_to_holder' \in BOOLEAN
  PROVE  IInv' /\ contacts' = contacts
<1>1. held' = held /\ last_seen' = last_seen /\ ret' = "FULL"
  BY DEF Refuse
<1>2. buckets' = buckets /\ contacts' = contacts
  BY <1>1 DEF buckets, contacts
<1>3. TypeOK' /\ Partition' /\ PointersAreValid' /\ HolderWidth' /\ BucketsAreBlocks'
  BY <1>1, <1>2 DEF IInv, TypeOK, Partition, PointersAreValid, HolderWidth, BucketsAreBlocks
<1> QED
  BY <1>2, <1>3 DEF IInv

\* There are K contacts when a bucket is full.
LEMMA FullTable ==
  ASSUME IInv, NEW b \in buckets, IsFull(b)
  PROVE  Cardinality(contacts) >= K
<1>1. held[b] \in SUBSET contacts /\ contacts \in SUBSET Peer
  BY DEF contacts, IInv, TypeOK
<1>2. held[b] \in SUBSET Peer
  BY <1>1
<1> QED
  BY <1>1, <1>2, PeersAreFinite, FS_Subset, IdsAreNumbers DEF IsFull

LEMMA AddIInv ==
  ASSUME IInv, NEW p \in Peer, AddContact(p)
  PROVE  IInv' /\ AbsStep
<1>1. PICK b \in buckets :
        /\ IsLowerBound(b, p)
        /\ IF IsFull(b) /\ b = holder_bucket
             THEN Split(p)
             ELSE LET count == K - Cardinality(held[holder_bucket]) IN
                  /\ IF ~IsFull(b)
                       THEN InsertInto(b, held[b], p)
                       ELSE IF b \in holder_brother_bucket /\ count > 0
                              THEN AddContactForceK(b, p, count)
                              ELSE Refuse
                  /\ is_close_to_holder' = (ret' = "SUCCEED" /\ b = holder_bucket)
                  /\ adding' = NoContact
                  /\ UNCHANGED <<holder_bucket, holder_brother_bucket, now>>
  BY DEF AddContact
<1>2. CASE IsFull(b) /\ b = holder_bucket
  BY <1>1, <1>2, SplitIInv DEF AbsStep
<1>3. CASE ~(IsFull(b) /\ b = holder_bucket)
  <2>1. /\ UNCHANGED <<holder_bucket, holder_brother_bucket, now>>
        /\ adding' = NoContact
        /\ is_close_to_holder' \in BOOLEAN
    BY <1>1, <1>3
  <2>2. p \in Id
    BY IdsAreNumbers
  <2>3. CASE ~IsFull(b)
    <3>1. InsertInto(b, held[b], p)
      BY <1>1, <1>3, <2>3
    <3>2. IInv' /\ contacts' = contacts \cup {p}
      BY <1>1, <2>1, <2>3, <3>1, InsertIInv
    <3>3. Abs!Add(p)
      BY <3>2 DEF Abs!Add, Abs!AddContact
    <3> QED
      BY <2>2, <3>2, <3>3 DEF AbsStep, Abs!Next
  <2>4. CASE Refuse
    BY <2>1, <2>4, RefuseIInv DEF AbsStep
  <2>5. CASE IsFull(b) /\ ~Refuse
    <3>1. \E F \in Farthest(b, K - Cardinality(held[holder_bucket])) :
            \E v \in F : InsertInto(b, held[b] \ {v}, p)
      BY <1>1, <1>3, <2>5 DEF AddContactForceK
    <3>2. PICK v \in held[b] : InsertInto(b, held[b] \ {v}, p)
      BY <3>1 DEF Farthest
    <3>3. IInv' /\ contacts' = (contacts \ {v}) \cup {p} /\ v \in contacts
      BY <1>1, <2>1, <2>5, <3>2, DisplaceIInv
    <3>4. Cardinality(contacts) >= K /\ K \in Nat /\ Cardinality(contacts) \in Nat
      <4>1. contacts \in SUBSET Peer
        BY DEF contacts, IInv, TypeOK
      <4> QED
        BY <2>5, <4>1, FullTable, PeersAreFinite, IdsAreNumbers
    <3>5. Abs!Add(p)
      <4>1. Abs!Cardinality(contacts) = Cardinality(contacts)
        BY Zenon DEF Cardinality, Abs!Cardinality
      <4> QED
        BY <3>3, <3>4, <4>1 DEF Abs!Add, Abs!AddContact
    <3> QED
      BY <2>2, <3>3, <3>5 DEF AbsStep, Abs!Next
  <2> QED
    BY <1>1, <1>3, <2>3, <2>4, <2>5
<1> QED
  BY <1>2, <1>3

LEMMA RemoveIInv ==
  ASSUME IInv, NEW p \in Peer, RemoveContact(p)
  PROVE  IInv' /\ AbsStep /\ contacts' = contacts \ {p}
<1>1. PICK b \in buckets :
        /\ IsLowerBound(b, p)
        /\ is_close_to_holder' = (b = holder_bucket \/ IsCloseToHolder(p))
        /\ held' = [held EXCEPT ![b] = @ \ {p}]
        /\ ret' = IF p \in held[b] THEN "REMOVED" ELSE "NOT_FOUND"
  BY DEF RemoveContact
<1>2. p \in Id /\ InRange(b, p)
  BY <1>1, LowerBoundFinds, IdsAreNumbers
<1> DEFINE s == held[b] \ {p}
<1>3. held[b] \in SUBSET Peer /\ s \in SUBSET Peer
  BY DEF IInv, TypeOK
<1>4. \A q \in s : InRange(b, q)
  BY DEF IInv, Partition
<1>5. Cardinality(s) <= K
  <2>1. Cardinality(s) <= Cardinality(held[b])
    BY <1>3, PeersAreFinite, FS_Subset
  <2>2. Cardinality(held[b]) <= K
    BY DEF IInv, Partition
  <2> QED
    BY <1>3, <2>1, <2>2, PeersAreFinite, IdsAreNumbers
<1>6. /\ last_seen' \in [Peer -> 0 .. MaxTime]
      /\ UNCHANGED <<holder_bucket, holder_brother_bucket, now>>
      /\ adding' = NoContact
      /\ is_close_to_holder' \in BOOLEAN
  <2>1. last_seen' = [last_seen EXCEPT ![p] = 0] /\ 0 \in 0 .. MaxTime
    BY RoutingTableAssumption DEF RemoveContact
  <2>2. is_close_to_holder' \in BOOLEAN
    BY <1>1 DEF IsCloseToHolder
  <2> QED
    BY <2>1, <2>2 DEF RemoveContact, IInv, TypeOK
<1>7. IInv' /\ contacts' = (contacts \ held[b]) \cup s
  <2>1. held' = [held EXCEPT ![b] = s] /\ ret' \in {"REMOVED", "NOT_FOUND"}
    BY <1>1
  <2> HIDE DEF s
  <2> QED
    BY <1>3, <1>4, <1>5, <1>6, <2>1, ReplaceIInv
<1>8. \A c \in buckets : p \in held[c] => c = b
  <2>1. ASSUME NEW c \in buckets, p \in held[c] PROVE c = b
    <3>1. InRange(c, p)
      BY <2>1 DEF IInv, Partition
    <3> QED
      BY <1>2, <3>1, OneBucket
  <2> QED
    BY <2>1
<1>9. contacts' = contacts \ {p}
  <2>1. held[b] \subseteq contacts
    BY DEF contacts
  <2>2. p \in contacts => p \in held[b]
    BY <1>8 DEF contacts
  <2> QED
    BY <1>7, <2>1, <2>2
<1>10. Abs!Remove(p)
  BY <1>9 DEF Abs!Remove, Abs!RemoveContact
<1> QED
  BY <1>2, <1>7, <1>9, <1>10 DEF AbsStep, Abs!Next

LEMMA OtherIInv ==
  ASSUME IInv, Tick \/ UNCHANGED vars
  PROVE  IInv' /\ contacts' = contacts
<1>1. /\ UNCHANGED <<held, holder_bucket, holder_brother_bucket, last_seen, adding, ret,
                     is_close_to_holder>>
      /\ now' \in 0 .. MaxTime
  <2>1. MaxTime \in Nat
    BY RoutingTableAssumption
  <2> QED
    BY <2>1 DEF Tick, vars, table, IInv, TypeOK
<1>2. buckets' = buckets /\ contacts' = contacts
  BY <1>1 DEF buckets, contacts
<1>3. TypeOK' /\ Partition' /\ PointersAreValid' /\ HolderWidth' /\ BucketsAreBlocks'
  BY <1>1, <1>2 DEF IInv, TypeOK, Partition, PointersAreValid, HolderWidth, BucketsAreBlocks
<1> QED
  BY <1>2, <1>3 DEF IInv

LEMMA NextIInv == IInv /\ [Next]_vars => IInv' /\ AbsStep
<1> SUFFICES ASSUME IInv, [Next]_vars PROVE IInv' /\ AbsStep
  OBVIOUS
<1>1. CASE Tick \/ UNCHANGED vars
  BY <1>1, OtherIInv DEF AbsStep
<1> QED
  BY <1>1, AddIInv, RemoveIInv DEF Next

LEMMA IInvAlways == Spec => []IInv
<1>1. Init => IInv
  BY InitIInv
<1>2. IInv /\ [Next]_vars => IInv'
  BY NextIInv
<1> QED
  BY <1>1, <1>2, PTL DEF Spec

-----------------------------------------------------------------------------
\* Every variable always holds a value of its type.
THEOREM TypeCorrect == Spec => []TypeOK
  BY IInvAlways, PTL DEF IInv

\* Splits always leave a partition, whose buckets hold what belongs to them and no
\* more than K: the assertions behind lower_bound never fail.
THEOREM PartitionAlways == Spec => []Partition
  BY IInvAlways, PTL DEF IInv

\* The pointers to the holder bucket and its brothers never dangle.
THEOREM PointersAlways == Spec => []PointersAreValid
  BY IInvAlways, PTL DEF IInv

\* CRoutingTable is a set of contacts to the rest of the node: a split loses and
\* doubles none, and a contact is only displaced, and by another one, when K are known.
THEOREM Refinement == Spec => ImplementsContactSet
<1>1. Init => Abs!Init
  BY InitIInv
<1>2. IInv /\ [Next]_vars => [Abs!Next]_contacts
  BY NextIInv DEF AbsStep
<1> QED
  BY IInvAlways, <1>1, <1>2, PTL DEF Spec, ImplementsContactSet, Abs!Spec

-----------------------------------------------------------------------------
(* The order of the buckets                                                *)

LEMMA QuotientIs ==
  ASSUME NEW w \in Nat \ {0}, NEW k \in Nat, NEW x \in Nat, k * w <= x, x < k * w + w
  PROVE  x \div w = k
<1>1. PICK d \in Int : d = x \div w
  OBVIOUS
<1>2. w * d <= x /\ x < w * d + w
  BY <1>1
<1>3. \A i, j \in Int : i + 1 <= j => w * i + w <= w * j
  OBVIOUS
<1>4. w * k = k * w
  OBVIOUS
<1> QED
  BY <1>1, <1>2, <1>3, <1>4

LEMMA QuotientGrows ==
  ASSUME NEW w \in Nat \ {0}, NEW x \in Nat, NEW y \in Nat, x \div w < y \div w
  PROVE  x < y
<1>1. PICK d \in Int : d = x \div w
  OBVIOUS
<1>2. PICK e \in Int : e = y \div w
  OBVIOUS
<1>3. x < w * d + w /\ w * e <= y
  BY <1>1, <1>2
<1>4. \A i, j \in Int : i + 1 <= j => w * i + w <= w * j
  OBVIOUS
<1>5. w * d + w <= w * e
  BY <1>1, <1>2, <1>4
<1>6. w * d \in Int /\ w * e \in Int
  OBVIOUS
<1> QED
  BY <1>3, <1>5, <1>6

CloserBucket(id, b, c) == \A x, y \in Id : InRange(b, x) /\ InRange(c, y) => Closer(id, x, y)

\* The ids of a bucket have the same upper bits, so that all ids of one bucket are
\* closer to an id than all of another, or farther.
LEMMA BucketsDoNotMix ==
  ASSUME NEW b \in Bucket, NEW c \in Bucket, Separated(b, c), NEW id \in Id
  PROVE  CloserBucket(id, b, c) \/ CloserBucket(id, c, b)
<1>1. PICK w \in PowerOfTwo, i \in Nat, j \in Nat : i # j /\ Within(b, w, i) /\ Within(c, w, j)
  BY DEF Separated
<1>2. w \in Nat \ {0}
  BY RoutingTableAssumption
<1>3. /\ Low(b) \in Nat /\ High(b) \in Nat /\ Low(b) \in Id /\ InRange(b, Low(b))
      /\ Low(c) \in Nat /\ High(c) \in Nat /\ Low(c) \in Id /\ InRange(c, Low(c))
  BY BucketBounds DEF InRange
<1>4. ASSUME NEW x \in Id, InRange(b, x) PROVE x \div w = i
  <2>1. x \in Nat /\ i * w <= x /\ x < i * w + w
    <3>1. i * w \in Int /\ x \in Nat
      BY <1>2, IdsAreNumbers
    <3> QED
      BY <1>1, <1>2, <1>3, <1>4, <3>1 DEF InRange, Within
  <2> QED
    BY <1>2, <2>1, QuotientIs
<1>5. ASSUME NEW x \in Id, InRange(c, x) PROVE x \div w = j
  <2>1. x \in Nat /\ j * w <= x /\ x < j * w + w
    <3>1. j * w \in Int /\ x \in Nat
      BY <1>2, IdsAreNumbers
    <3> QED
      BY <1>1, <1>2, <1>3, <1>5, <3>1 DEF InRange, Within
  <2> QED
    BY <1>2, <2>1, QuotientIs
<1>6. \A x, y \in Id : Dist[id][x] \in Nat /\ (Dist[id][x] \div w = Dist[id][y] \div w <=> x \div w = y \div w)
  <2>1. \A x \in Id : Dist[id][x] \in Nat
    BY DistAssumption
  <2>2. \A x, y \in Id : Dist[id][x] \div w = Dist[id][y] \div w <=> x \div w = y \div w
    BY RoutingTableAssumption, Zenon
  <2> QED
    BY <2>1, <2>2
<1>7. PICK A \in Int : A = Dist[id][Low(b)] \div w
  BY <1>2, <1>3, <1>6
<1>8. PICK B \in Int : B = Dist[id][Low(c)] \div w
  BY <1>2, <1>3, <1>6
<1>9. A # B
  BY <1>1, <1>3, <1>4, <1>5, <1>6, <1>7, <1>8
<1>10. \A x \in Id : InRange(b, x) => Dist[id][x] \div w = A
  BY <1>3, <1>4, <1>6, <1>7
<1>11. \A x \in Id : InRange(c, x) => Dist[id][x] \div w = B
  BY <1>3, <1>5, <1>6, <1>8
<1>12. CASE A < B
  <2>1. ASSUME NEW x \in Id, NEW y \in Id, InRange(b, x), InRange(c, y) PROVE Closer(id, x, y)
    BY <1>2, <1>6, <1>10, <1>11, <1>12, <2>1, QuotientGrows DEF Closer
  <2> QED
    BY <2>1 DEF CloserBucket
<1>13. CASE B < A
  <2>1. ASSUME NEW x \in Id, NEW y \in Id, InRange(b, x), InRange(c, y) PROVE Closer(id, y, x)
    BY <1>2, <1>6, <1>10, <1>11, <1>13, <2>1, QuotientGrows DEF Closer
  <2> QED
    BY <2>1 DEF CloserBucket
<1> QED
  BY <1>9, <1>12, <1>13

\* The order of the high bounds is the order of all that the buckets hold.
LEMMA BucketsInOrder ==
  ASSUME IInv, NEW id \in Id, NEW b \in buckets, NEW c \in buckets, b # c
  PROVE  \/ b \in Nearer(id, c) /\ c \notin Nearer(id, b) /\ CloserBucket(id, b, c)
         \/ c \in Nearer(id, b) /\ b \notin Nearer(id, c) /\ CloserBucket(id, c, b)
<1>1. b \in Bucket /\ c \in Bucket /\ Separated(b, c)
  BY DEF IInv, TypeOK, BucketsAreBlocks
<1>2. CloserBucket(id, b, c) \/ CloserBucket(id, c, b)
  BY <1>1, BucketsDoNotMix
<1>3. /\ High(b) \in Id /\ InRange(b, High(b))
      /\ High(c) \in Id /\ InRange(c, High(c))
  BY <1>1, BucketBounds DEF InRange
<1>4. Dist[id][High(b)] \in Nat /\ Dist[id][High(c)] \in Nat
  BY <1>3, DistAssumption
<1>5. /\ b \in Nearer(id, c) <=> Dist[id][High(b)] < Dist[id][High(c)]
      /\ c \in Nearer(id, b) <=> Dist[id][High(c)] < Dist[id][High(b)]
  BY DEF Nearer, BucketDistance
<1>6. /\ CloserBucket(id, b, c) => Dist[id][High(b)] < Dist[id][High(c)]
      /\ CloserBucket(id, c, b) => Dist[id][High(c)] < Dist[id][High(b)]
  BY <1>3 DEF CloserBucket, Closer
<1> QED
  BY <1>2, <1>4, <1>5, <1>6

\* The bucket of an id is the nearest one.
LEMMA OwnBucketIsNearest ==
  ASSUME IInv, NEW id \in Id, NEW b \in buckets, InRange(b, id)
  PROVE  /\ Nearer(id, b) = {}
         /\ \A c \in buckets \ {b} : b \in Nearer(id, c) /\ CloserBucket(id, b, c)
<1>1. ASSUME NEW c \in buckets \ {b} PROVE ~CloserBucket(id, c, b)
  <2>1. c \in Bucket
    BY DEF IInv, TypeOK
  <2>2. High(c) \in Id /\ InRange(c, High(c))
    BY <2>1, BucketBounds DEF InRange
  <2>3. Dist[id][id] = 0 /\ Dist[id][High(c)] \in Nat
    BY <2>2, RoutingTableAssumption, DistAssumption
  <2> QED
    BY <2>2, <2>3 DEF CloserBucket, Closer
<1>2. \A c \in buckets \ {b} : b \in Nearer(id, c) /\ c \notin Nearer(id, b) /\ CloserBucket(id, b, c)
  BY <1>1, BucketsInOrder
<1>3. b \notin Nearer(id, b)
  <2>1. b \in Bucket
    BY DEF IInv, TypeOK
  <2>2. Dist[id][High(b)] \in Nat
    BY <2>1, BucketBounds, DistAssumption
  <2> QED
    BY <2>2 DEF Nearer, BucketDistance
<1>4. Nearer(id, b) \subseteq buckets
  BY DEF Nearer
<1> QED
  BY <1>2, <1>3, <1>4

-----------------------------------------------------------------------------
(* GetClosestContacts                                                      *)

\* What it takes from other buckets than id's, b.
Seen(id, b, c) == UNION {held[d] : d \in Nearer(id, c) \ {b}}
Needed(b) == K - Cardinality(held[b])
More(id, b) == UNION {held[c] : c \in {d \in buckets \ {b} : Cardinality(Seen(id, b, d)) < Needed(b)}}

LEMMA AnswersAre ==
  ASSUME IInv, NEW id \in Id, NEW b \in buckets, InRange(b, id)
  PROVE  GetClosestContacts(id) = {held[b] \cup extra : extra \in Nearest(More(id, b), id, Needed(b))}
<1>1. {c \in buckets : IsLowerBound(c, id)} = {b}
  <2>1. IsLowerBound(b, id)
    <3>1. ASSUME NEW c \in buckets, id <= High(c) PROVE High(b) <= High(c)
      <4>1. CASE c = b
        BY <4>1, BucketBounds DEF IInv, TypeOK
      <4>2. CASE c # b
        <5>1. High(b) < Low(c) \/ High(c) < Low(b)
          BY <4>2 DEF IInv, Partition
        <5>2. b \in Bucket /\ c \in Bucket
          BY DEF IInv, TypeOK
        <5> QED
          BY <3>1, <5>1, <5>2, BucketBounds, IdsAreNumbers DEF InRange
      <4> QED
        BY <4>1, <4>2
    <3> QED
      BY <3>1 DEF IsLowerBound, InRange
  <2>2. \A c \in buckets : IsLowerBound(c, id) => c = b
    BY LowerBoundFinds, OneBucket
  <2> QED
    BY <2>1, <2>2
<1>2. {c \in buckets : Nearer(id, c) = {}} = {b}
  BY OwnBucketIsNearest
<1> DEFINE Answers(c, first) ==
             LET needed == K - Cardinality(held[c])
                 seen(d) == UNION {held[e] : e \in Nearer(id, d) \ {first}}
                 more == UNION {held[d] : d \in {e \in buckets \ {first} :
                                                    Cardinality(seen(e)) < needed}}
             IN  {held[c] \cup extra : extra \in Nearest(more, id, needed)}
<1>3. GetClosestContacts(id) =
        UNION {Answers(c, first) : c \in {d \in buckets : IsLowerBound(d, id)},
                                   first \in {d \in buckets : Nearer(id, d) = {}}}
  BY DEF GetClosestContacts
<1>4. Answers(b, b) = {held[b] \cup extra : extra \in Nearest(More(id, b), id, Needed(b))}
  BY DEF More, Seen, Needed
<1> HIDE DEF Answers
<1>5. GetClosestContacts(id) = Answers(b, b)
  BY <1>1, <1>2, <1>3
<1> QED
  BY <1>4, <1>5

\* The buckets are disjoint, finite sets of contacts.
LEMMA HeldFacts ==
  ASSUME IInv
  PROVE  /\ contacts \in SUBSET Peer /\ contacts \in SUBSET Id /\ IsFiniteSet(contacts)
         /\ \A b \in buckets : /\ held[b] \in SUBSET contacts
                               /\ Cardinality(held[b]) \in Nat /\ Cardinality(held[b]) <= K
                               /\ \A p \in held[b] : p \in Id /\ InRange(b, p)
         /\ \A p \in contacts : \E b \in buckets : p \in held[b]
<1>1. contacts \in SUBSET Peer
  BY DEF contacts, IInv, TypeOK
<1>2. contacts \in SUBSET Id
  BY <1>1, IdsAreNumbers
<1>3. \A b \in buckets : held[b] \in SUBSET contacts /\ held[b] \in SUBSET Peer
  BY <1>1 DEF contacts
<1>4. \A b \in buckets : Cardinality(held[b]) \in Nat
  BY <1>3, PeersAreFinite
<1>5. \A p \in contacts : \E b \in buckets : p \in held[b]
  BY DEF contacts
<1> QED
  BY <1>1, <1>2, <1>3, <1>4, <1>5, PeersAreFinite DEF IInv, Partition

\* Buckets are left out only when those before them hold enough.
LEMMA MoreIsEnough ==
  ASSUME IInv, NEW id \in Id, NEW b \in buckets, InRange(b, id)
  PROVE  /\ More(id, b) \subseteq contacts \ held[b]
         /\ More(id, b) = contacts \ held[b] \/ Cardinality(More(id, b)) >= Needed(b)
         /\ \A p \in More(id, b), q \in (contacts \ held[b]) \ More(id, b) : Closer(id, p, q)
<1> DEFINE Left == {d \in buckets \ {b} : ~(Cardinality(Seen(id, b, d)) < Needed(b))}
<1>1. More(id, b) \subseteq contacts \ held[b]
  <2>1. ASSUME NEW c \in buckets \ {b}, NEW p \in held[c] PROVE p \in contacts \ held[b]
    <3>1. p \in contacts /\ p \in Id /\ InRange(c, p)
      BY HeldFacts
    <3>2. p \notin held[b]
      BY <3>1, HeldFacts, OneBucket
    <3> QED
      BY <3>1, <3>2
  <2> QED
    BY <2>1 DEF More
<1>2. \A c \in buckets \ {b} : c \notin Left => held[c] \subseteq More(id, b)
  BY DEF More
<1>3. \A p \in (contacts \ held[b]) \ More(id, b) : \E c \in Left : p \in held[c]
  BY <1>2, HeldFacts
<1>4. ASSUME NEW d \in buckets PROVE /\ Seen(id, b, d) \in SUBSET Peer
                                     /\ Seen(id, b, d) \in SUBSET contacts
                                     /\ IsFiniteSet(Seen(id, b, d))
                                     /\ Cardinality(Seen(id, b, d)) \in Nat
  <2>1. Nearer(id, d) \subseteq buckets
    BY DEF Nearer
  <2>2. Seen(id, b, d) \in SUBSET contacts
    BY <2>1, HeldFacts DEF Seen
  <2> QED
    BY <2>2, HeldFacts, PeersAreFinite
<1>5. Needed(b) \in Nat
  BY HeldFacts, IdsAreNumbers DEF Needed
<1>6. More(id, b) \in SUBSET Peer /\ IsFiniteSet(More(id, b)) /\ Cardinality(More(id, b)) \in Nat
  BY <1>1, HeldFacts, PeersAreFinite
<1>7. Left = {} => More(id, b) = contacts \ held[b]
  BY <1>1, <1>3
<1>8. ASSUME Left # {} PROVE Cardinality(More(id, b)) >= Needed(b)
  <2>1. \A c \in buckets : BucketDistance(id, c) \in Nat
    <3>1. \A c \in buckets : High(c) \in Id
      BY BucketBounds DEF IInv, TypeOK
    <3> QED
      BY <3>1, DistAssumption DEF BucketDistance
  <2>2. PICK c \in Left : \A d \in Left : BucketDistance(id, c) <= BucketDistance(id, d)
    <3> DEFINE D == {BucketDistance(id, d) : d \in Left}
    <3>1. D \in SUBSET Nat /\ D # {}
      BY <1>8, <2>1
    <3> HIDE DEF D
    <3>2. PICK m \in D : \A n \in D : m <= n
      BY <3>1, LeastNumber
    <3> USE DEF D
    <3>3. PICK c \in Left : m = BucketDistance(id, c)
      BY <3>2
    <3> QED
      BY <3>2, <3>3
  <2>3. \A d \in Nearer(id, c) : d \in buckets /\ d \notin Left
    <3>1. \A d \in Nearer(id, c) : d \in buckets /\ BucketDistance(id, d) < BucketDistance(id, c)
      BY DEF Nearer
    <3> QED
      BY <2>1, <2>2, <3>1
  <2>4. Seen(id, b, c) \subseteq More(id, b)
    BY <1>2, <2>3 DEF Seen
  <2>5. Cardinality(Seen(id, b, c)) <= Cardinality(More(id, b))
    BY <1>6, <2>4, FS_Subset
  <2>6. Cardinality(Seen(id, b, c)) \in Nat /\ ~(Cardinality(Seen(id, b, c)) < Needed(b))
    BY <1>4
  <2> QED
    BY <1>5, <1>6, <2>5, <2>6
<1>9. ASSUME NEW p \in More(id, b), NEW q \in (contacts \ held[b]) \ More(id, b)
      PROVE  Closer(id, p, q)
  <2>1. PICK d \in buckets \ {b} : p \in held[d] /\ Cardinality(Seen(id, b, d)) < Needed(b)
    BY DEF More
  <2>2. PICK c \in Left : q \in held[c]
    BY <1>3
  <2>3. c # d
    BY <2>1
  <2>4. CASE c \in Nearer(id, d)
    <3>1. Nearer(id, c) \subseteq Nearer(id, d)
      <4>1. \A e \in buckets : BucketDistance(id, e) \in Nat
        <5>1. \A e \in buckets : High(e) \in Id
          BY BucketBounds DEF IInv, TypeOK
        <5> QED
          BY <5>1, DistAssumption DEF BucketDistance
      <4>2. BucketDistance(id, c) < BucketDistance(id, d)
        BY <2>4 DEF Nearer
      <4> QED
        BY <4>1, <4>2 DEF Nearer
    <3>2. Seen(id, b, c) \subseteq Seen(id, b, d)
      BY <3>1 DEF Seen
    <3>3. Cardinality(Seen(id, b, c)) <= Cardinality(Seen(id, b, d))
      BY <1>4, <3>2, FS_Subset
    <3>4. /\ Cardinality(Seen(id, b, c)) \in Nat /\ Cardinality(Seen(id, b, d)) \in Nat
          /\ ~(Cardinality(Seen(id, b, c)) < Needed(b))
      BY <1>4
    <3> QED
      BY <1>5, <2>1, <3>3, <3>4
  <2>5. CASE c \notin Nearer(id, d)
    <3>1. CloserBucket(id, d, c)
      BY <2>3, <2>5, BucketsInOrder
    <3>2. p \in Id /\ InRange(d, p) /\ q \in Id /\ InRange(c, q)
      BY <2>1, <2>2, HeldFacts
    <3> QED
      BY <3>1, <3>2 DEF CloserBucket
  <2> QED
    BY <2>4, <2>5
<1> QED
  BY <1>1, <1>7, <1>8, <1>9

LEMMA AnswerIsNearest ==
  ASSUME IInv, NEW id \in Id, NEW b \in buckets, InRange(b, id),
         NEW extra \in Nearest(More(id, b), id, Needed(b))
  PROVE  held[b] \cup extra \in Nearest(contacts, id, K)
<1>1. PICK more : more = More(id, b)
  OBVIOUS
<1>2. PICK own : own = held[b]
  OBVIOUS
<1>3. PICK n : n = Needed(b)
  OBVIOUS
<1>4. /\ more \subseteq contacts \ own
      /\ more = contacts \ own \/ Cardinality(more) >= n
      /\ \A p \in more, q \in (contacts \ own) \ more : Closer(id, p, q)
  BY <1>1, <1>2, <1>3, MoreIsEnough
<1>5. /\ contacts \in SUBSET Peer /\ IsFiniteSet(contacts)
      /\ own \in SUBSET contacts /\ Cardinality(own) \in Nat /\ Cardinality(own) <= K
      /\ n = K - Cardinality(own) /\ n \in Nat /\ K \in Nat
  BY <1>2, <1>3, HeldFacts, IdsAreNumbers DEF Needed
<1>6. /\ extra \in SUBSET more
      /\ Cardinality(extra) = IF Cardinality(more) < n THEN Cardinality(more) ELSE n
      /\ \A p \in extra, q \in more \ extra : Closer(id, p, q)
  BY <1>1, <1>3 DEF Nearest
<1>7. /\ IsFiniteSet(more) /\ Cardinality(more) \in Nat
      /\ IsFiniteSet(extra) /\ Cardinality(extra) \in Nat
      /\ IsFiniteSet(own) /\ IsFiniteSet(contacts \ own)
  BY <1>4, <1>5, <1>6, FS_Subset, FS_CardinalityType
<1>8. Cardinality(own \cup extra) = Cardinality(own) + Cardinality(extra)
  <2>1. own \cap extra = {}
    BY <1>4, <1>6
  <2>2. Cardinality(own \cup extra) = Cardinality(own) + Cardinality(extra) - Cardinality(own \cap extra)
    BY <1>7, FS_Union
  <2>3. Cardinality(own \cap extra) = 0
    BY <2>1, FS_EmptySet
  <2> QED
    BY <1>5, <1>7, <2>2, <2>3
<1>9. own \cup extra \in SUBSET contacts
  BY <1>4, <1>5, <1>6
<1>10. Cardinality(contacts) \in Nat
  BY <1>5, FS_CardinalityType
<1>11. Cardinality(own \cup extra) = IF Cardinality(contacts) < K THEN Cardinality(contacts) ELSE K
  <2>1. CASE Cardinality(more) < n
    <3>1. more = contacts \ own
      BY <1>4, <1>5, <1>7, <2>1
    <3>2. extra = more
      <4>1. Cardinality(extra) = Cardinality(more)
        BY <1>6, <2>1
      <4> QED
        BY <1>6, <1>7, <4>1, FS_Subset
    <3>3. own \cup extra = contacts
      BY <1>5, <3>1, <3>2
    <3>4. Cardinality(contacts) < K
      <4>1. Cardinality(contacts) = Cardinality(own) + Cardinality(extra)
        BY <1>8, <3>3
      <4>2. Cardinality(extra) < n
        BY <1>6, <2>1
      <4> QED
        BY <1>5, <1>7, <4>1, <4>2
    <3> QED
      BY <3>3, <3>4
  <2>2. CASE ~(Cardinality(more) < n)
    <3>1. Cardinality(own \cup extra) = K
      BY <1>5, <1>6, <1>8, <2>2
    <3>2. Cardinality(own \cup extra) <= Cardinality(contacts)
      BY <1>5, <1>9, FS_Subset
    <3> QED
      BY <1>5, <1>10, <3>1, <3>2
  <2> QED
    BY <2>1, <2>2
<1>12. ASSUME NEW p \in own \cup extra, NEW q \in contacts \ (own \cup extra)
       PROVE  Closer(id, p, q)
  <2>1. CASE p \in own
    <3>1. PICK c \in buckets : q \in held[c]
      BY HeldFacts
    <3>2. c # b
      BY <1>2, <3>1
    <3>3. CloserBucket(id, b, c)
      BY <3>2, OwnBucketIsNearest
    <3>4. p \in Id /\ InRange(b, p) /\ q \in Id /\ InRange(c, q)
      BY <1>2, <2>1, <3>1, HeldFacts
    <3> QED
      BY <3>3, <3>4 DEF CloserBucket
  <2>2. CASE p \in extra /\ q \in more
    BY <1>6, <2>2
  <2>3. CASE p \in extra /\ q \notin more
    BY <1>4, <1>6, <2>3
  <2> QED
    BY <2>1, <2>2, <2>3
<1> QED
  BY <1>2, <1>9, <1>11, <1>12 DEF Nearest

\* The bucket of an id.
LEMMA BucketOf ==
  ASSUME IInv, NEW id \in Id
  PROVE  \E b \in buckets : InRange(b, id)
  BY DEF IInv, Partition

LEMMA MoreHasNearest ==
  ASSUME IInv, NEW id \in Id, NEW b \in buckets, InRange(b, id)
  PROVE  Nearest(More(id, b), id, Needed(b)) # {}
<1>1. More(id, b) \in SUBSET contacts
  BY MoreIsEnough
<1>2. More(id, b) \in SUBSET Id /\ IsFiniteSet(More(id, b))
  BY <1>1, HeldFacts, FS_Subset
<1>3. Needed(b) \in Nat
  BY HeldFacts, IdsAreNumbers DEF Needed
<1> QED
  BY <1>2, <1>3, NearestExists

LEMMA ClosestFromIInv ==
  ASSUME IInv
  PROVE  ClosestAreClosest
<1> SUFFICES ASSUME NEW id \in Id PROVE GetClosestContacts(id) = Nearest(contacts, id, K)
  BY DEF ClosestAreClosest
<1>1. PICK b \in buckets : InRange(b, id)
  BY BucketOf
<1>2. GetClosestContacts(id) = {held[b] \cup extra : extra \in Nearest(More(id, b), id, Needed(b))}
  BY <1>1, AnswersAre
<1>3. PICK extra : extra \in Nearest(More(id, b), id, Needed(b))
  BY <1>1, MoreHasNearest
<1>4. GetClosestContacts(id) \subseteq Nearest(contacts, id, K)
  BY <1>1, <1>2, AnswerIsNearest
<1>5. \A T, U \in Nearest(contacts, id, K) : T = U
  BY HeldFacts, IdsAreNumbers, NearestIsUnique
<1>6. held[b] \cup extra \in GetClosestContacts(id)
  BY <1>2, <1>3
<1> QED
  BY <1>4, <1>5, <1>6

\* There is one answer, and it has all of the bucket that it begins with.
LEMMA OneAnswer ==
  ASSUME IInv, NEW id \in Id, NEW b \in buckets, InRange(b, id)
  PROVE  \E T \in Nearest(contacts, id, K) :
           /\ Nearest(contacts, id, K) = {T} /\ GetClosestContacts(id) = {T}
           /\ held[b] \subseteq T /\ T \subseteq contacts
<1>1. PICK extra : extra \in Nearest(More(id, b), id, Needed(b))
  BY MoreHasNearest
<1>2. PICK T : T = held[b] \cup extra
  OBVIOUS
<1>3. T \in Nearest(contacts, id, K)
  BY <1>1, <1>2, AnswerIsNearest
<1>4. \A U \in Nearest(contacts, id, K) : U = T
  BY <1>3, HeldFacts, IdsAreNumbers, NearestIsUnique
<1>5. Nearest(contacts, id, K) = {T}
  BY <1>3, <1>4
<1>6. GetClosestContacts(id) = {T}
  BY <1>5, ClosestFromIInv DEF ClosestAreClosest
<1>7. T \subseteq contacts
  BY <1>3 DEF Nearest
<1> QED
  BY <1>2, <1>3, <1>5, <1>6, <1>7

\* What GetClosestContacts visits, and skips, makes no difference: it answers with the
\* K contacts closest to the id, in any id space whose distance is the XOR, for every
\* sequence of splits, displacements and removals.
THEOREM ClosestStayClosest == Spec => []ClosestAreClosest
<1>1. IInv => ClosestAreClosest
  BY ClosestFromIInv
<1> QED
  BY <1>1, IInvAlways, PTL

-----------------------------------------------------------------------------
(* What the table tells the store                                          *)

\* The bounds that IsCloseToHolder looks at.
LEMMA BoundsFind ==
  ASSUME NEW c \in SUBSET Peer, NEW p \in c
  PROVE  MinId(c) <= p /\ p <= MaxId(c)
<1>1. c \in SUBSET Nat /\ Size - 1 \in Nat /\ \A q \in c : q <= Size - 1
  <2>1. \A q \in c : q \in Nat /\ q <= Size - 1
    BY IdsAreNumbers
  <2> QED
    BY <2>1, IdsAreNumbers
<1>2. \E m \in c \cup {Size - 1} : \A q \in c : m <= q
  <2>1. PICK m \in c : \A q \in c : m <= q
    BY <1>1, LeastNumber
  <2> QED
    BY <2>1
<1>3. \E m \in c \cup {0} : \A q \in c : q <= m
  <2> DEFINE D == {Size - 1 - q : q \in c}
  <2>1. D \in SUBSET Nat /\ D # {}
    BY <1>1
  <2> HIDE DEF D
  <2>2. PICK d \in D : \A e \in D : d <= e
    BY <2>1, LeastNumber
  <2> USE DEF D
  <2>3. PICK m \in c : d = Size - 1 - m
    BY <2>2
  <2>4. ASSUME NEW q \in c PROVE q <= m
    <3>1. Size - 1 - m <= Size - 1 - q
      BY <2>2, <2>3
    <3> QED
      BY <1>1, <3>1
  <2> QED
    BY <2>4
<1>4. \A q \in c : MinId(c) <= q
  BY <1>2 DEF MinId
<1>5. \A q \in c : q <= MaxId(c)
  BY <1>3 DEF MaxId
<1> QED
  BY <1>4, <1>5

\* The contacts of the holder bucket are among the closest to the holder.
HolderBucketIsClosest ==
  \A p \in held[holder_bucket] : p \in UNION Nearest(contacts, holder_id, K)

LEMMA HolderBucketFromIInv == IInv => HolderBucketIsClosest
<1> SUFFICES ASSUME IInv, NEW p \in held[holder_bucket] PROVE p \in UNION Nearest(contacts, holder_id, K)
  BY DEF HolderBucketIsClosest
<1>1. holder_bucket \in buckets /\ InRange(holder_bucket, holder_id) /\ holder_id \in Id
  BY IdsAreNumbers DEF IInv, PointersAreValid
<1>2. PICK T \in Nearest(contacts, holder_id, K) : held[holder_bucket] \subseteq T
  BY <1>1, OneAnswer
<1> QED
  BY <1>2

\* What is added as close is in the holder bucket.
LEMMA AddedAreClose ==
  ASSUME IInv, NEW q \in Peer, AddContact(q), is_close_to_holder',
         NEW p \in contacts' \ contacts
  PROVE  p \in UNION Nearest(contacts', holder_id, K)
<1>1. PICK b \in buckets :
        /\ IsLowerBound(b, q)
        /\ IF IsFull(b) /\ b = holder_bucket
             THEN Split(q)
             ELSE LET count == K - Cardinality(held[holder_bucket]) IN
                  /\ IF ~IsFull(b)
                       THEN InsertInto(b, held[b], q)
                       ELSE IF b \in holder_brother_bucket /\ count > 0
                              THEN AddContactForceK(b, q, count)
                              ELSE Refuse
                  /\ is_close_to_holder' = (ret' = "SUCCEED" /\ b = holder_bucket)
                  /\ adding' = NoContact
                  /\ UNCHANGED <<holder_bucket, holder_brother_bucket, now>>
  BY DEF AddContact
<1>2. ~(IsFull(b) /\ b = holder_bucket)
  BY <1>1 DEF Split
<1>3. b = holder_bucket /\ ~IsFull(b)
  BY <1>1, <1>2
<1>4. /\ InsertInto(b, held[b], q)
      /\ UNCHANGED <<holder_bucket, holder_brother_bucket, now>>
      /\ adding' = NoContact
      /\ is_close_to_holder' \in BOOLEAN
  BY <1>1, <1>2, <1>3
<1>5. IInv' /\ contacts' = contacts \cup {q}
  BY <1>1, <1>3, <1>4, InsertIInv
<1>6. p = q
  BY <1>5
<1>7. q \in held'[holder_bucket']
  BY <1>3, <1>4 DEF InsertInto, IInv, TypeOK
<1>8. HolderBucketIsClosest'
  BY <1>5, HolderBucketFromIInv, PTL
<1> QED
  BY <1>6, <1>7, <1>8 DEF HolderBucketIsClosest

\* A contact is told to be close before it is removed.
LEMMA RemovedAreTold ==
  ASSUME IInv, NEW q \in Peer, RemoveContact(q), NEW p \in contacts \ contacts',
         p \in UNION Nearest(contacts, holder_id, K)
  PROVE  is_close_to_holder'
<1>1. contacts' = contacts \ {q}
  BY RemoveIInv
<1>2. p = q
  BY <1>1
<1>3. holder_bucket \in buckets /\ InRange(holder_bucket, holder_id) /\ holder_id \in Id
  BY IdsAreNumbers DEF IInv, PointersAreValid
<1>4. PICK T \in Nearest(contacts, holder_id, K) :
        /\ Nearest(contacts, holder_id, K) = {T} /\ GetClosestContacts(holder_id) = {T}
        /\ T \subseteq contacts
  BY <1>3, OneAnswer
<1>5. p \in T /\ T \in SUBSET Peer
  BY <1>4, HeldFacts
<1>6. MinId(T) <= p /\ p <= MaxId(T)
  BY <1>5, BoundsFind
<1>7. IsCloseToHolder(q)
  BY <1>2, <1>4, <1>6 DEF IsCloseToHolder
<1> QED
  BY <1>7 DEF RemoveContact

LEMMA AddingIsNoRemoval ==
  ASSUME NEW q \in Peer, AddContact(q)
  PROVE  ret' # "REMOVED"
<1>1. ASSUME NEW b, NEW c, InsertInto(b, c, q) PROVE ret' # "REMOVED"
  BY <1>1 DEF InsertInto
<1>2. Split(q) => ret' # "REMOVED"
  BY DEF Split
<1>3. Refuse => ret' # "REMOVED"
  BY DEF Refuse
<1>4. ASSUME NEW b, NEW count, AddContactForceK(b, q, count) PROVE ret' # "REMOVED"
  BY <1>1, <1>3, <1>4 DEF AddContactForceK
<1> QED
  BY <1>1, <1>2, <1>3, <1>4 DEF AddContact

\* The store is told the truth of every contact: one it is told of is one of the K
\* closest, and it is told of every one of the K closest that goes.
THEOREM ClosenessStaysTold == Spec => ClosenessIsTold
<1> DEFINE closest(c) == UNION Nearest(c, holder_id, K)
           Told == /\ \A p \in contacts' \ contacts : is_close_to_holder' => p \in closest(contacts')
                   /\ \A p \in contacts \ contacts' :
                        ret' = "REMOVED" /\ p \in closest(contacts) => is_close_to_holder'
<1>1. ASSUME IInv, [Next]_vars PROVE [Told]_vars
  <2>1. ASSUME NEW q \in Peer, AddContact(q) PROVE Told
    BY <1>1, <2>1, AddedAreClose, AddingIsNoRemoval
  <2>2. ASSUME NEW q \in Peer, RemoveContact(q) PROVE Told
    <3>1. contacts' = contacts \ {q}
      BY <1>1, <2>2, RemoveIInv
    <3> QED
      BY <1>1, <2>2, <3>1, RemovedAreTold
  <2>3. ASSUME Tick PROVE Told
    BY <1>1, <2>3, OtherIInv
  <2> QED
    BY <1>1, <2>1, <2>2, <2>3 DEF Next
<1> QED
  BY <1>1, IInvAlways, PTL DEF Spec, ClosenessIsTold
=============================================================================
