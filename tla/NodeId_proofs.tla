---------------------------- MODULE NodeId_proofs ----------------------------
(***************************************************************************)
(* The arithmetic of NodeID is that of numbers, for every number of bytes  *)
(* and every width of a byte, and its exclusive or is a distance as the    *)
(* searches, the store and the routing table assume it.                    *)
(*                                                                         *)
(* The loops over the bytes are recursive functions.  Recursion shows that *)
(* such a function exists; what it computes is then proved byte by byte    *)
(* with InductiveSet.                                                      *)
(***************************************************************************)
EXTENDS NodeId, WellFoundedInduction, TLAPS

-----------------------------------------------------------------------------
(* Induction and recursion over numbers                                    *)

\* Every set of numbers has a least one.
LEMMA LeastNumber ==
  ASSUME NEW T \in SUBSET Nat, T # {}
  PROVE  \E x \in T : \A y \in T : x <= y
<1> DEFINE R == {ss \in Nat \X Nat : ss[1] < ss[2]}
<1>1. IsWellFoundedOn(R, Nat)
  BY NatLessThanWellFounded DEF OpToRel
<1> HIDE DEF R
<1>2. PICK x \in T : \A y \in T : ~(<<y, x>> \in R)
  BY <1>1, WFMin
<1>3. \A y \in T : y < x => <<y, x>> \in R
  BY DEF R
<1>4. \A y \in T : x <= y
  <2> TAKE y \in T
  <2>1. x \in Nat /\ y \in Nat
    OBVIOUS
  <2>2. ~(y < x)
    BY <1>2, <1>3
  <2> QED
    BY <2>1, <2>2
<1> QED
  BY <1>4

\* Induction: a set with 0 and with each number the next one holds all numbers.
LEMMA InductiveSet ==
  ASSUME NEW S, 0 \in S, \A n \in Nat : n \in S => n + 1 \in S
  PROVE  Nat \subseteq S
<1> SUFFICES ASSUME Nat \ S # {} PROVE FALSE
  OBVIOUS
<1>1. PICK m \in Nat \ S : \A n \in Nat \ S : m <= n
  BY LeastNumber
<1>2. m # 0 /\ m - 1 \in Nat
  OBVIOUS
<1>3. m - 1 \in S
  BY <1>1, <1>2
<1> QED
  BY <1>2, <1>3

\* f begins with c and goes from each number to the next one by a step.
IsRecursive(f, S, c, step) ==
  f \in [Nat -> S] /\ f[0] = c /\ \A n \in Nat : f[n + 1] = step[n][f[n]]

IsStep(step, S, D) == step \in [D -> [S -> S]]

\* Whatever the step, there is a function that goes on by it.
LEMMA Recursion ==
  ASSUME NEW S, NEW c \in S, NEW step, IsStep(step, S, Nat)
  PROVE  \E f : IsRecursive(f, S, c, step)
<1>0. step \in [Nat -> [S -> S]]
  BY DEF IsStep
<1> DEFINE IsRun(g, n) == /\ g \in [0 .. n -> S]
                          /\ g[0] = c
                          /\ \A k \in 0 .. n - 1 : g[k + 1] = step[k][g[k]]
<1> DEFINE Reached == {n \in Nat : \E g : IsRun(g, n)}
<1>1. Nat \subseteq Reached
  <2>1. 0 \in Reached
    <3>1. IsRun([k \in 0 .. 0 |-> c], 0)
      OBVIOUS
    <3> QED
      BY <3>1
  <2>2. ASSUME NEW n \in Nat, n \in Reached PROVE n + 1 \in Reached
    <3>1. PICK g : IsRun(g, n)
      BY <2>2
    <3>2. PICK v \in S : v = step[n][g[n]]
      BY <1>0, <3>1
    <3>3. PICK h : h = [k \in 0 .. n + 1 |-> IF k = n + 1 THEN v ELSE g[k]]
      OBVIOUS
    <3>4. h \in [0 .. n + 1 -> S]
      BY <3>1, <3>3
    <3>5. h[0] = c
      BY <3>1, <3>3
    <3>6. ASSUME NEW k \in 0 .. n PROVE h[k + 1] = step[k][h[k]]
      <4>1. h[k] = g[k]
        BY <3>3
      <4>2. CASE k = n
        BY <3>2, <3>3, <4>1, <4>2
      <4>3. CASE k # n
        <5>1. k \in 0 .. n - 1 /\ k + 1 \in 0 .. n + 1 /\ k + 1 # n + 1
          BY <4>3
        <5>2. h[k + 1] = g[k + 1]
          BY <3>3, <5>1
        <5> QED
          BY <3>1, <4>1, <5>1, <5>2
      <4> QED
        BY <4>2, <4>3
    <3>7. IsRun(h, n + 1)
      BY <3>4, <3>5, <3>6
    <3> QED
      BY <3>7
  <2> HIDE DEF Reached
  <2> QED
    BY <2>1, <2>2, InductiveSet
<1>2. ASSUME NEW m \in Nat, NEW n \in Nat, NEW g, NEW h, IsRun(g, m), IsRun(h, n),
             NEW i \in Nat, i <= m, i <= n
      PROVE  g[i] = h[i]
  <2> DEFINE Same == {k \in Nat : k <= m /\ k <= n => g[k] = h[k]}
  <2>1. 0 \in Same
    BY <1>2
  <2>2. ASSUME NEW k \in Nat, k \in Same PROVE k + 1 \in Same
    <3> SUFFICES ASSUME k + 1 <= m, k + 1 <= n PROVE g[k + 1] = h[k + 1]
      OBVIOUS
    <3>1. k \in 0 .. m - 1 /\ k \in 0 .. n - 1 /\ k <= m /\ k <= n
      OBVIOUS
    <3>2. g[k] = h[k]
      BY <2>2, <3>1
    <3> QED
      BY <1>2, <3>1, <3>2
  <2> HIDE DEF Same
  <2>3. Nat \subseteq Same
    BY <2>1, <2>2, InductiveSet
  <2> QED
    BY <1>2, <2>3 DEF Same
<1>3. PICK run : run = [n \in Nat |-> CHOOSE g : IsRun(g, n)]
  OBVIOUS
<1>4. ASSUME NEW n \in Nat PROVE IsRun(run[n], n)
  <2>1. \E g : IsRun(g, n)
    BY <1>1
  <2> HIDE DEF IsRun
  <2>2. IsRun(CHOOSE g : IsRun(g, n), n)
    BY <2>1
  <2> QED
    BY <1>3, <2>2
<1>5. PICK f : f = [n \in Nat |-> run[n][n]]
  OBVIOUS
<1>6. f \in [Nat -> S]
  BY <1>4, <1>5
<1>7. f[0] = c
  BY <1>4, <1>5
<1>8. ASSUME NEW n \in Nat PROVE f[n + 1] = step[n][f[n]]
  <2>1. n + 1 \in Nat /\ n <= n + 1 /\ n \in 0 .. (n + 1) - 1
    OBVIOUS
  <2>2. PICK g : g = run[n]
    OBVIOUS
  <2>3. PICK h : h = run[n + 1]
    OBVIOUS
  <2>4. IsRun(g, n) /\ IsRun(h, n + 1)
    BY <1>4, <2>1, <2>2, <2>3
  <2>5. h[n + 1] = step[n][h[n]]
    BY <2>1, <2>4
  <2>6. g[n] = h[n]
    <3> HIDE DEF IsRun
    <3> QED
      BY <1>2, <2>1, <2>4
  <2> QED
    BY <1>5, <2>1, <2>2, <2>3, <2>5, <2>6
<1> QED
  BY <1>6, <1>7, <1>8 DEF IsRecursive

-----------------------------------------------------------------------------
(* Numbers                                                                 *)

\* Quotient and remainder make up the number.
LEMMA DivMod ==
  ASSUME NEW a \in Int, NEW b \in Nat \ {0}
  PROVE  /\ a \div b \in Int
         /\ a % b \in Nat /\ a % b < b
         /\ a = b * (a \div b) + (a % b)
  OBVIOUS

LEMMA DivNat ==
  ASSUME NEW a \in Nat, NEW b \in Nat \ {0}
  PROVE  a \div b \in Nat
  OBVIOUS

\* ... and are the only ones that do.
LEMMA Unique ==
  ASSUME NEW m \in Nat \ {0}, NEW q \in Int, NEW r \in 0 .. m - 1
  PROVE  (m * q + r) \div m = q /\ (m * q + r) % m = r
  OBVIOUS


\* The powers of a number are what they should be.
LEMMA PowerFacts ==
  ASSUME NEW b \in Nat \ {0}
  PROVE  /\ Power(b)[0] = 1
         /\ \A n \in Nat : Power(b)[n] \in Nat \ {0} /\ Power(b)[n + 1] = b * Power(b)[n]
<1> DEFINE times == [n \in Nat |-> [v \in Nat \ {0} |-> b * v]]
<1>1. IsStep(times, Nat \ {0}, Nat)
  BY DEF IsStep
<1> HIDE DEF times
<1>2. PICK f : IsRecursive(f, Nat \ {0}, 1, times)
  BY <1>1, Recursion
<1>3. f \in [Nat -> Nat \ {0}] /\ f[0] = 1 /\ \A n \in Nat : f[n + 1] = b * f[n]
  BY <1>2 DEF IsRecursive, times
<1>4. f = [n \in Nat |-> IF n = 0 THEN 1 ELSE b * f[n - 1]]
  <2>1. ASSUME NEW n \in Nat PROVE f[n] = IF n = 0 THEN 1 ELSE b * f[n - 1]
    <3>1. CASE n = 0
      BY <1>3, <3>1
    <3>2. CASE n # 0
      <4>1. n - 1 \in Nat /\ (n - 1) + 1 = n
        BY <3>2
      <4> QED
        BY <1>3, <3>2, <4>1
    <3> QED
      BY <3>1, <3>2
  <2> QED
    BY <1>3, <2>1
<1>5. PICK p : p = Power(b)
  OBVIOUS
<1>6. p = [n \in Nat |-> IF n = 0 THEN 1 ELSE b * p[n - 1]]
  BY <1>4, <1>5 DEF Power
<1>7. p[0] = 1
  BY <1>6
<1>8. ASSUME NEW n \in Nat PROVE p[n + 1] = b * p[n]
  BY <1>6
<1> DEFINE Positive == {n \in Nat : p[n] \in Nat \ {0}}
<1>9. ASSUME NEW n \in Nat, n \in Positive PROVE n + 1 \in Positive
  <2>1. p[n] \in Nat \ {0} /\ p[n + 1] = b * p[n]
    BY <1>8, <1>9
  <2>2. b * p[n] \in Nat \ {0}
    BY <2>1
  <2> QED
    BY <2>1, <2>2
<1>10. 0 \in Positive
  BY <1>7
<1> HIDE DEF Positive
<1>11. Nat \subseteq Positive
  BY <1>9, <1>10, InductiveSet
<1> QED
  BY <1>5, <1>7, <1>8, <1>11 DEF Positive

\* A byte has values, and there are ids.
LEMMA BaseFacts == Base \in Nat \ {0} /\ Modulus \in Nat \ {0}
<1>1. Base \in Nat \ {0}
  BY PowerFacts, NodeIdAssumption DEF Base
<1> QED
  BY <1>1, PowerFacts, NodeIdAssumption DEF Modulus

-----------------------------------------------------------------------------
(* Over the bytes of an id                                                 *)

\* Induction over the bytes from the first to the last, and back.
LEMMA OverBytes ==
  ASSUME NEW S, 0 \in S, \A i \in 1 .. Length - 1 : i - 1 \in S => i \in S
  PROVE  Index \subseteq S
<1> DEFINE T == {n \in Nat : n < Length => n \in S}
<1>1. 0 \in T
  OBVIOUS
<1>2. ASSUME NEW n \in Nat, n \in T PROVE n + 1 \in T
  <2> SUFFICES ASSUME n + 1 < Length PROVE n + 1 \in S
    OBVIOUS
  <2>1. n + 1 \in 1 .. Length - 1 /\ n < Length /\ (n + 1) - 1 = n
    BY NodeIdAssumption
  <2>2. n \in S
    BY <1>2, <2>1
  <2> QED
    BY <2>1, <2>2
<1> HIDE DEF T
<1>3. Nat \subseteq T
  BY <1>1, <1>2, InductiveSet
<1> QED
  BY <1>3, NodeIdAssumption DEF T, Index

LEMMA OverBytesBack ==
  ASSUME NEW S, Length - 1 \in S, \A i \in 0 .. Length - 2 : i + 1 \in S => i \in S
  PROVE  Index \subseteq S
<1> DEFINE T == {i \in Index : Length - 1 - i \in S}
<1>1. \A i \in Index : Length - 1 - i \in Index /\ Length - 1 - (Length - 1 - i) = i
  BY NodeIdAssumption DEF Index
<1>2. 0 \in T
  BY NodeIdAssumption DEF Index
<1>3. ASSUME NEW i \in 1 .. Length - 1, i - 1 \in T PROVE i \in T
  <2>1. PICK j : j = Length - 1 - i
    OBVIOUS
  <2>2. j \in 0 .. Length - 2 /\ j + 1 = Length - 1 - (i - 1) /\ i \in Index
    BY <2>1, NodeIdAssumption DEF Index
  <2>3. j + 1 \in S
    BY <1>3, <2>2
  <2> QED
    BY <2>1, <2>2, <2>3
<1> HIDE DEF T
<1>4. Index \subseteq T
  BY <1>2, <1>3, OverBytes
<1>5. ASSUME NEW i \in Index PROVE i \in S
  <2>1. Length - 1 - i \in T
    BY <1>1, <1>4
  <2> QED
    BY <1>1, <2>1 DEF T
<1> QED
  BY <1>5

\* A loop from the first byte to the last one.
IsForwards(v, S, c, step) ==
  v \in [Index -> S] /\ v[0] = c /\ \A i \in 1 .. Length - 1 : v[i] = step[i][v[i - 1]]

\* Such a loop computes something.
LEMMA Forwards ==
  ASSUME NEW S, NEW c \in S, NEW step, IsStep(step, S, Index)
  PROVE  \E v : IsForwards(v, S, c, step)
<1> DEFINE next == [n \in Nat |-> [u \in S |-> IF n + 1 \in Index THEN step[n + 1][u] ELSE u]]
<1>1. IsStep(next, S, Nat)
  BY DEF IsStep
<1> HIDE DEF next
<1>0. PICK f : IsRecursive(f, S, c, next)
  BY <1>1, Recursion
<1>2. f \in [Nat -> S] /\ f[0] = c /\ \A n \in Nat : f[n + 1] = next[n][f[n]]
  BY <1>0 DEF IsRecursive
<1>3. PICK v : v = [i \in Index |-> f[i]]
  OBVIOUS
<1>4. v \in [Index -> S] /\ v[0] = c
  BY <1>2, <1>3, NodeIdAssumption DEF Index
<1>5. ASSUME NEW i \in 1 .. Length - 1 PROVE v[i] = step[i][v[i - 1]]
  <2>1. i - 1 \in Nat /\ (i - 1) + 1 = i /\ i \in Index /\ i - 1 \in Index
    BY NodeIdAssumption DEF Index
  <2>2. f[(i - 1) + 1] = next[i - 1][f[i - 1]]
    BY <1>2, <2>1
  <2>3. next[i - 1][f[i - 1]] = step[i][f[i - 1]]
    BY <1>2, <2>1 DEF next
  <2> QED
    BY <1>3, <2>1, <2>2, <2>3
<1> QED
  BY <1>4, <1>5 DEF IsForwards

\* A loop from the last byte to the first one.
IsBackwards(v, S, c, step) ==
  v \in [Index -> S] /\ v[Length - 1] = c /\ \A i \in 0 .. Length - 2 : v[i] = step[i][v[i + 1]]

\* Such a loop computes something.
LEMMA Backwards ==
  ASSUME NEW S, NEW c \in S, NEW step, IsStep(step, S, Index)
  PROVE  \E v : IsBackwards(v, S, c, step)
<1> DEFINE mirror == [i \in Index |-> step[Length - 1 - i]]
<1>1. \A i \in Index : Length - 1 - i \in Index
  BY NodeIdAssumption DEF Index
<1>2. IsStep(mirror, S, Index)
  BY <1>1 DEF IsStep
<1> HIDE DEF mirror
<1>0. PICK u : IsForwards(u, S, c, mirror)
  BY <1>2, Forwards
<1>3. u \in [Index -> S] /\ u[0] = c /\ \A i \in 1 .. Length - 1 : u[i] = mirror[i][u[i - 1]]
  BY <1>0 DEF IsForwards
<1>4. PICK v : v = [i \in Index |-> u[Length - 1 - i]]
  OBVIOUS
<1>5. v \in [Index -> S] /\ v[Length - 1] = c
  BY <1>1, <1>3, <1>4, NodeIdAssumption DEF Index
<1>6. ASSUME NEW i \in 0 .. Length - 2 PROVE v[i] = step[i][v[i + 1]]
  <2>1. PICK j : j = Length - 1 - i
    OBVIOUS
  <2>2. /\ j \in 1 .. Length - 1 /\ j \in Index /\ i \in Index /\ i + 1 \in Index
        /\ Length - 1 - (i + 1) = j - 1 /\ Length - 1 - j = i
    BY <2>1, NodeIdAssumption DEF Index
  <2>3. u[j] = mirror[j][u[j - 1]]
    BY <1>3, <2>2
  <2>4. mirror[j] = step[i]
    BY <2>2 DEF mirror
  <2> QED
    BY <1>4, <2>1, <2>2, <2>3, <2>4
<1> QED
  BY <1>5, <1>6 DEF IsBackwards

LEMMA BytesFacts ==
  ASSUME NEW x \in NodeID, NEW i \in Index
  PROVE  x[i] \in Nat /\ x[i] < Base
BY BaseFacts DEF NodeID

LEMMA IndexFacts ==
  /\ 0 \in Index /\ Length - 1 \in Index /\ Index \subseteq Nat
  /\ \A i \in 1 .. Length - 1 : i \in Index /\ i - 1 \in Index /\ i # 0 /\ i - 1 \in 0 .. Length - 2
  /\ \A i \in 0 .. Length - 2 : i \in Index /\ i + 1 \in Index /\ i # Length - 1
  /\ \A i \in Index : (i = 0 \/ i \in 1 .. Length - 1) /\ (i = Length - 1 \/ i \in 0 .. Length - 2)
BY NodeIdAssumption DEF Index

\* The number up to a byte, from that up to the byte before.
LEMMA LeadingFacts ==
  ASSUME NEW x \in NodeID
  PROVE  /\ Leading(x) \in [Index -> Nat]
         /\ Leading(x)[0] = x[0]
         /\ \A i \in 1 .. Length - 1 : Leading(x)[i] = x[i] + Base * Leading(x)[i - 1]
<1> DEFINE step == [i \in Index |-> [u \in Nat |-> x[i] + Base * u]]
<1>1. IsStep(step, Nat, Index)
  <2>1. ASSUME NEW i \in Index, NEW u \in Nat PROVE x[i] + Base * u \in Nat
    BY BytesFacts, BaseFacts
  <2> QED
    BY <2>1 DEF IsStep
<1> HIDE DEF step
<1>2. x[0] \in Nat
  BY BytesFacts, IndexFacts
<1>3. PICK v : IsForwards(v, Nat, x[0], step)
  BY <1>1, <1>2, Forwards
<1>4. /\ v \in [Index -> Nat]
      /\ v[0] = x[0]
      /\ \A i \in 1 .. Length - 1 : v[i] = x[i] + Base * v[i - 1]
  <2>1. v \in [Index -> Nat] /\ v[0] = x[0]
    BY <1>3 DEF IsForwards
  <2>2. ASSUME NEW i \in 1 .. Length - 1 PROVE v[i] = x[i] + Base * v[i - 1]
    <3>1. v[i] = step[i][v[i - 1]]
      BY <1>3 DEF IsForwards
    <3>2. i \in Index /\ v[i - 1] \in Nat
      BY <2>1, IndexFacts
    <3> QED
      BY <3>1, <3>2 DEF step
  <2> QED
    BY <2>1, <2>2
<1>5. v = [i \in Index |-> x[i] + (IF i = 0 THEN 0 ELSE Base * v[i - 1])]
  <2>1. ASSUME NEW i \in Index PROVE v[i] = x[i] + (IF i = 0 THEN 0 ELSE Base * v[i - 1])
    <3>1. CASE i = 0
      BY <1>2, <1>4, <3>1
    <3>2. CASE i # 0
      BY <1>4, <3>2, IndexFacts
    <3> QED
      BY <3>1, <3>2
  <2> QED
    BY <1>4, <2>1
<1>6. PICK w : w = Leading(x)
  OBVIOUS
<1>7. w = [i \in Index |-> x[i] + (IF i = 0 THEN 0 ELSE Base * w[i - 1])]
  BY <1>5, <1>6 DEF Leading
<1>8. w[0] = x[0]
  BY <1>2, <1>7, IndexFacts
<1>9. ASSUME NEW i \in 1 .. Length - 1 PROVE w[i] = x[i] + Base * w[i - 1]
  BY <1>7, IndexFacts
<1>10. Index \subseteq {i \in Index : w[i] \in Nat}
  <2>1. 0 \in {i \in Index : w[i] \in Nat}
    BY <1>2, <1>8, IndexFacts
  <2>2. ASSUME NEW i \in 1 .. Length - 1, w[i - 1] \in Nat PROVE w[i] \in Nat
    <3>1. x[i] \in Nat
      BY BytesFacts, IndexFacts
    <3> QED
      BY <1>9, <2>2, <3>1, BaseFacts
  <2>3. \A i \in 1 .. Length - 1 :
          i - 1 \in {k \in Index : w[k] \in Nat} => i \in {k \in Index : w[k] \in Nat}
    BY <2>2, IndexFacts
  <2> QED
    BY <2>1, <2>3, OverBytes
<1> QED
  BY <1>6, <1>7, <1>8, <1>9, <1>10

\* The number of an id is in the id space.
LEMMA ValueFacts ==
  ASSUME NEW x \in NodeID
  PROVE  /\ Value(x) \in Nat
         /\ \A i \in Index : Leading(x)[i] \in Nat /\ Leading(x)[i] < Power(Base)[i + 1]
         /\ Value(x) < Modulus
<1> DEFINE L == Leading(x)
<1> DEFINE P == Power(Base)
<1> DEFINE T == {i \in Index : L[i] < P[i + 1]}
<1>1. /\ L \in [Index -> Nat]
      /\ L[0] = x[0]
      /\ \A i \in 1 .. Length - 1 : L[i] = x[i] + Base * L[i - 1]
  BY LeadingFacts
<1>2. P[0] = 1 /\ \A n \in Nat : P[n] \in Nat \ {0} /\ P[n + 1] = Base * P[n]
  BY PowerFacts, BaseFacts
<1> HIDE DEF L, P
<1>3. 0 \in T
  <2>1. P[0 + 1] = Base * 1
    BY <1>2
  <2>2. P[0 + 1] = Base
    BY <2>1, BaseFacts
  <2> QED
    BY <1>1, <2>2, BytesFacts, IndexFacts
<1>4. ASSUME NEW i \in 1 .. Length - 1, i - 1 \in T PROVE i \in T
  <2>1. i \in Index /\ i \in Nat /\ i - 1 \in Index /\ (i - 1) + 1 = i
    BY IndexFacts
  <2>2. L[i - 1] \in Nat /\ L[i - 1] < P[i] /\ P[i] \in Nat
    BY <1>1, <1>2, <1>4, <2>1
  <2>3. x[i] \in Nat /\ x[i] < Base
    BY <2>1, BytesFacts
  <2>4. L[i] = x[i] + Base * L[i - 1] /\ P[i + 1] = Base * P[i]
    BY <1>1, <1>2, <2>1
  <2>5. ASSUME NEW a \in Nat, NEW p \in Nat, NEW b \in Nat, NEW y \in Nat, a < p, y < b
        PROVE  y + b * a < b * p
    <3>1. b * (a + 1) <= b * p
      BY <2>5
    <3>2. b * (a + 1) = b * a + b
      OBVIOUS
    <3> QED
      BY <2>5, <3>1, <3>2
  <2>6. x[i] + Base * L[i - 1] < Base * P[i]
    BY <2>2, <2>3, <2>5, BaseFacts
  <2> QED
    BY <2>1, <2>4, <2>6
<1> HIDE DEF T
<1>5. Index \subseteq T
  BY <1>3, <1>4, OverBytes
<1>6. L[Length - 1] < P[(Length - 1) + 1]
  BY <1>5, IndexFacts DEF T
<1>7. (Length - 1) + 1 = Length
  BY NodeIdAssumption
<1> QED
  BY <1>1, <1>5, <1>6, <1>7, IndexFacts DEF L, P, T, Value, Modulus

-----------------------------------------------------------------------------
(* Carrying                                                                *)

\* A number that differs from r < m by a multiple of m.
LEMMA Wraps ==
  ASSUME NEW r \in Nat, NEW q \in Int, NEW m \in Nat \ {0}, NEW n \in Int,
         r < m, n = r + q * m
  PROVE  n % m = r
<1>1. n = m * q + r
  OBVIOUS
<1> QED
  BY <1>1, Unique

\* What goes into the bytes of x and y from the right, a, leaves p behind and goes on to the
\* left: in[0] to q, out of the id.
CarriesOn(x, y, a, p, q) ==
  /\ a \in [Index -> Nat] /\ q \in Nat
  /\ x[0] + y[0] + a[0] = p[0] + Base * q
  /\ \A i \in 1 .. Length - 1 : x[i] + y[i] + a[i] = p[i] + Base * a[i - 1]

\* Carried on through all bytes, x and y and what came in from the right make p and q times the id space.
LEMMA CarriedSum ==
  ASSUME NEW x \in NodeID, NEW y \in NodeID, NEW p \in NodeID, NEW a, NEW q, CarriesOn(x, y, a, p, q)
  PROVE  Value(x) + Value(y) + a[Length - 1] = Value(p) + q * Modulus
<1>1. /\ a \in [Index -> Nat] /\ q \in Nat
      /\ x[0] + y[0] + a[0] = p[0] + Base * q
      /\ \A i \in 1 .. Length - 1 : x[i] + y[i] + a[i] = p[i] + Base * a[i - 1]
  BY DEF CarriesOn
<1> DEFINE P == Power(Base)
<1>2. P[0] = 1 /\ \A n \in Nat : P[n] \in Nat \ {0} /\ P[n + 1] = Base * P[n]
  BY PowerFacts, BaseFacts
<1> DEFINE X == Leading(x)
<1> DEFINE Y == Leading(y)
<1> DEFINE S == Leading(p)
<1>3. /\ X \in [Index -> Nat] /\ Y \in [Index -> Nat] /\ S \in [Index -> Nat]
      /\ X[0] = x[0] /\ Y[0] = y[0] /\ S[0] = p[0]
      /\ \A i \in 1 .. Length - 1 : /\ X[i] = x[i] + Base * X[i - 1]
                                   /\ Y[i] = y[i] + Base * Y[i - 1]
                                   /\ S[i] = p[i] + Base * S[i - 1]
  BY LeadingFacts
<1> HIDE DEF P, X, Y, S
<1> DEFINE T == {i \in Index : X[i] + Y[i] + a[i] = S[i] + q * P[i + 1]}
<1>4. 0 \in T
  <2>1. P[0 + 1] = Base * 1
    BY <1>2
  <2>2. P[0 + 1] = Base
    BY <2>1, BaseFacts
  <2>3. Base * q = q * Base
    BY <1>1, BaseFacts
  <2> QED
    BY <1>1, <1>3, <2>2, <2>3, IndexFacts
<1>5. ASSUME NEW i \in 1 .. Length - 1, i - 1 \in T PROVE i \in T
  <2>1. i \in Index /\ i \in Nat /\ i - 1 \in Index /\ (i - 1) + 1 = i
    BY IndexFacts
  <2>3. X[i - 1] + Y[i - 1] + a[i - 1] = S[i - 1] + q * P[i]
    BY <1>5, <2>1
  <2>4. x[i] + y[i] + a[i] = p[i] + Base * a[i - 1]
    BY <1>1
  <2>5. P[i + 1] = Base * P[i] /\ P[i] \in Nat
    BY <1>2, <2>1
  <2>6. /\ X[i] = x[i] + Base * X[i - 1] /\ Y[i] = y[i] + Base * Y[i - 1]
        /\ S[i] = p[i] + Base * S[i - 1]
    BY <1>3
  <2>7. /\ x[i] \in Nat /\ y[i] \in Nat /\ a[i] \in Nat /\ p[i] \in Nat /\ a[i - 1] \in Nat
        /\ X[i - 1] \in Nat /\ Y[i - 1] \in Nat /\ S[i - 1] \in Nat
    BY <1>1, <1>3, <2>1, BytesFacts
  <2>8. (x[i] + Base * X[i - 1]) + (y[i] + Base * Y[i - 1]) + a[i]
          = (p[i] + Base * S[i - 1]) + q * (Base * P[i])
    <3>1. PICK Q \in Nat, u \in Nat, v \in Nat, w \in Nat, c \in Nat :
            Q = P[i] /\ u = X[i - 1] /\ v = Y[i - 1] /\ w = S[i - 1] /\ c = a[i - 1]
      BY <2>5, <2>7
    <3>2. PICK xi \in Nat, yi \in Nat, ai \in Nat, pi \in Nat :
            xi = x[i] /\ yi = y[i] /\ ai = a[i] /\ pi = p[i]
      BY <2>7
    <3>3. PICK k \in Nat, l \in Nat, m \in Nat, n \in Nat, o \in Nat :
            k = Base * u /\ l = Base * v /\ m = Base * w /\ n = Base * c /\ o = q * (Base * Q)
      BY <1>1, BaseFacts
    <3>4. xi + yi + ai = pi + n /\ u + v + c = w + q * Q
      BY <2>3, <2>4, <3>1, <3>2, <3>3
    <3>5. Base * (u + v + c) = Base * (w + q * Q)
      BY <3>4
    <3>6. Base * (u + v + c) = k + l + n /\ Base * (w + q * Q) = m + o
      BY <1>1, <3>3, BaseFacts
    <3>7. (xi + k) + (yi + l) + ai = (pi + m) + o
      BY <3>4, <3>5, <3>6
    <3> QED
      BY <3>1, <3>2, <3>3, <3>7
  <2>9. X[i] + Y[i] + a[i] = S[i] + q * P[i + 1]
    BY <2>5, <2>6, <2>8
  <2> QED
    BY <2>1, <2>9
<1> HIDE DEF T
<1>6. Index \subseteq T
  BY <1>4, <1>5, OverBytes
<1>7. X[Length - 1] + Y[Length - 1] + a[Length - 1] = S[Length - 1] + q * P[(Length - 1) + 1]
  BY <1>6, IndexFacts DEF T
<1>8. (Length - 1) + 1 = Length
  BY NodeIdAssumption
<1>9. X[Length - 1] + Y[Length - 1] + a[Length - 1] = S[Length - 1] + q * P[Length]
  BY <1>7, <1>8
<1> QED
  BY <1>9 DEF X, Y, S, P, Value, Modulus

-----------------------------------------------------------------------------
(* Sums                                                                    *)

\* The carries of a sum, from the last byte to the first.
LEMMA CarryFacts ==
  ASSUME NEW x \in NodeID, NEW y \in NodeID
  PROVE  /\ Carry(x, y) \in [Index -> Nat]
         /\ Carry(x, y)[Length - 1] = 0
         /\ \A i \in 0 .. Length - 2 : Carry(x, y)[i] = (x[i + 1] + y[i + 1] + Carry(x, y)[i + 1]) \div Base
<1> DEFINE step == [i \in Index |-> [u \in Nat |->
                      IF i = Length - 1 THEN 0 ELSE (x[i + 1] + y[i + 1] + u) \div Base]]
<1>1. IsStep(step, Nat, Index)
  <2>1. ASSUME NEW i \in Index, NEW u \in Nat, i # Length - 1
        PROVE  (x[i + 1] + y[i + 1] + u) \div Base \in Nat
    <3>1. x[i + 1] \in Nat /\ y[i + 1] \in Nat
      BY <2>1, BytesFacts, IndexFacts
    <3>2. PICK s \in Nat : s = x[i + 1] + y[i + 1] + u
      BY <3>1
    <3> QED
      BY <3>2, DivNat, BaseFacts
  <2> QED
    BY <2>1 DEF IsStep
<1> HIDE DEF step
<1>2. PICK v : IsBackwards(v, Nat, 0, step)
  BY <1>1, Backwards
<1>3. /\ v \in [Index -> Nat]
      /\ v[Length - 1] = 0
      /\ \A i \in 0 .. Length - 2 : v[i] = (x[i + 1] + y[i + 1] + v[i + 1]) \div Base
  <2>1. v \in [Index -> Nat] /\ v[Length - 1] = 0
    BY <1>2 DEF IsBackwards
  <2>2. ASSUME NEW i \in 0 .. Length - 2 PROVE v[i] = (x[i + 1] + y[i + 1] + v[i + 1]) \div Base
    <3>1. v[i] = step[i][v[i + 1]]
      BY <1>2 DEF IsBackwards
    <3>2. i \in Index /\ v[i + 1] \in Nat /\ i # Length - 1
      BY <2>1, IndexFacts
    <3> QED
      BY <3>1, <3>2 DEF step
  <2> QED
    BY <2>1, <2>2
<1>4. v = [i \in Index |-> IF i = Length - 1 THEN 0 ELSE (x[i + 1] + y[i + 1] + v[i + 1]) \div Base]
  BY <1>3, IndexFacts
<1>5. PICK w : w = Carry(x, y)
  OBVIOUS
<1>6. w = [i \in Index |-> IF i = Length - 1 THEN 0 ELSE (x[i + 1] + y[i + 1] + w[i + 1]) \div Base]
  BY <1>4, <1>5 DEF Carry
<1>7. w[Length - 1] = 0
  BY <1>6, IndexFacts
<1>8. ASSUME NEW i \in 0 .. Length - 2 PROVE w[i] = (x[i + 1] + y[i + 1] + w[i + 1]) \div Base
  BY <1>6, IndexFacts
<1> DEFINE T == {i \in Index : w[i] \in Nat}
<1>9. Length - 1 \in T
  BY <1>7, IndexFacts
<1>10. ASSUME NEW i \in 0 .. Length - 2, i + 1 \in T PROVE i \in T
  <2>1. x[i + 1] \in Nat /\ y[i + 1] \in Nat /\ w[i + 1] \in Nat
    BY <1>10, BytesFacts, IndexFacts
  <2>2. (x[i + 1] + y[i + 1] + w[i + 1]) \div Base \in Nat
    BY <2>1, DivNat, BaseFacts
  <2> QED
    BY <1>8, <2>2, IndexFacts
<1> HIDE DEF T
<1>11. Index \subseteq T
  BY <1>9, <1>10, OverBytesBack
<1> QED
  BY <1>5, <1>6, <1>7, <1>8, <1>11 DEF T

\* The sum of ids is that of their numbers, less the id space if it does not fit.
LEMMA PlusIsSum ==
  ASSUME NEW x \in NodeID, NEW y \in NodeID
  PROVE  /\ Plus(x, y) \in NodeID
         /\ Value(Plus(x, y)) = (Value(x) + Value(y)) % Modulus
<1>1. PICK a : a = Carry(x, y)
  OBVIOUS
<1>2. /\ a \in [Index -> Nat]
      /\ a[Length - 1] = 0
      /\ \A i \in 0 .. Length - 2 : a[i] = (x[i + 1] + y[i + 1] + a[i + 1]) \div Base
  BY <1>1, CarryFacts
<1>3. PICK p : p = Plus(x, y)
  OBVIOUS
<1>4. p = [i \in Index |-> (x[i] + y[i] + a[i]) % Base]
  BY <1>1, <1>3 DEF Plus
<1> DEFINE out(i) == (x[i] + y[i] + a[i]) \div Base
<1>5. ASSUME NEW i \in Index
      PROVE  p[i] \in 0 .. Base - 1 /\ out(i) \in Nat /\ x[i] + y[i] + a[i] = p[i] + Base * out(i)
  <2>1. x[i] \in Nat /\ y[i] \in Nat /\ a[i] \in Nat
    BY <1>2, BytesFacts
  <2>2. PICK s \in Nat : s = x[i] + y[i] + a[i]
    BY <2>1
  <2>3. PICK c \in Nat : c = s \div Base
    BY DivNat, BaseFacts
  <2>4. p[i] = s % Base
    BY <1>4, <2>2
  <2>5. p[i] \in Nat /\ p[i] < Base /\ s = Base * c + p[i]
    BY <2>3, <2>4, DivMod, BaseFacts
  <2>6. out(i) = c
    BY <2>2, <2>3
  <2>7. Base * c \in Nat
    BY BaseFacts
  <2>8. s = p[i] + Base * c
    BY <2>5, <2>7
  <2> QED
    BY <2>2, <2>5, <2>6, <2>8, BaseFacts
<1>6. p \in NodeID
  BY <1>4, <1>5 DEF NodeID
<1>7. \A i \in 1 .. Length - 1 : out(i) = a[i - 1]
  <2> TAKE i \in 1 .. Length - 1
  <2>1. i - 1 \in 0 .. Length - 2 /\ (i - 1) + 1 = i
    BY IndexFacts
  <2> QED
    BY <1>2, <2>1
<1> HIDE DEF out
<1>8. CarriesOn(x, y, a, p, out(0))
  BY <1>2, <1>5, <1>7, IndexFacts DEF CarriesOn
<1>9. Value(x) + Value(y) + 0 = Value(p) + out(0) * Modulus
  BY <1>2, <1>6, <1>8, CarriedSum
<1>10. Value(x) \in Nat /\ Value(y) \in Nat /\ Value(p) \in Nat /\ Value(p) < Modulus
  BY <1>6, ValueFacts
<1>11. PICK q \in Nat : q = out(0)
  BY <1>5, IndexFacts
<1>12. PICK n \in Nat : n = Value(x) + Value(y)
  BY <1>10
<1>13. PICK r \in Nat : r = Value(p)
  BY <1>10
<1>14. n = r + q * Modulus
  BY <1>9, <1>10, <1>11, <1>12, <1>13
<1>15. n % Modulus = r
  BY <1>10, <1>13, <1>14, Wraps, BaseFacts
<1> QED
  BY <1>3, <1>6, <1>12, <1>13, <1>15

-----------------------------------------------------------------------------
(* Differences                                                             *)

\* The borrows of a difference: one at most.
LEMMA BorrowFacts ==
  ASSUME NEW x \in NodeID, NEW y \in NodeID
  PROVE  /\ Borrow(x, y) \in [Index -> {0, 1}]
         /\ Borrow(x, y)[Length - 1] = 0
         /\ \A i \in 0 .. Length - 2 :
              Borrow(x, y)[i] = IF x[i + 1] < y[i + 1] + Borrow(x, y)[i + 1] THEN 1 ELSE 0
<1> DEFINE step == [i \in Index |-> [u \in {0, 1} |->
                      IF i = Length - 1 THEN 0 ELSE IF x[i + 1] < y[i + 1] + u THEN 1 ELSE 0]]
<1>1. IsStep(step, {0, 1}, Index)
  BY DEF IsStep
<1> HIDE DEF step
<1>2. PICK v : IsBackwards(v, {0, 1}, 0, step)
  BY <1>1, Backwards
<1>3. /\ v \in [Index -> {0, 1}]
      /\ v[Length - 1] = 0
      /\ \A i \in 0 .. Length - 2 : v[i] = IF x[i + 1] < y[i + 1] + v[i + 1] THEN 1 ELSE 0
  <2>1. v \in [Index -> {0, 1}] /\ v[Length - 1] = 0
    BY <1>2 DEF IsBackwards
  <2>2. ASSUME NEW i \in 0 .. Length - 2
        PROVE  v[i] = IF x[i + 1] < y[i + 1] + v[i + 1] THEN 1 ELSE 0
    <3>1. v[i] = step[i][v[i + 1]]
      BY <1>2 DEF IsBackwards
    <3>2. i \in Index /\ v[i + 1] \in {0, 1} /\ i # Length - 1
      BY <2>1, IndexFacts
    <3> QED
      BY <3>1, <3>2 DEF step
  <2> QED
    BY <2>1, <2>2
<1>4. v = [i \in Index |-> IF i = Length - 1 THEN 0
                           ELSE IF x[i + 1] < y[i + 1] + v[i + 1] THEN 1 ELSE 0]
  BY <1>3, IndexFacts
<1>5. PICK w : w = Borrow(x, y)
  OBVIOUS
<1>6. w = [i \in Index |-> IF i = Length - 1 THEN 0
                           ELSE IF x[i + 1] < y[i + 1] + w[i + 1] THEN 1 ELSE 0]
  BY <1>4, <1>5 DEF Borrow
<1>7. \A i \in 0 .. Length - 2 : w[i] = IF x[i + 1] < y[i + 1] + w[i + 1] THEN 1 ELSE 0
  BY <1>6, IndexFacts
<1>8. w \in [Index -> {0, 1}] /\ w[Length - 1] = 0
  BY <1>6, IndexFacts
<1> QED
  BY <1>5, <1>7, <1>8

\* The difference of ids is that of their numbers; borrowing is carrying when the difference is added up again.
LEMMA MinusIsDifference ==
  ASSUME NEW x \in NodeID, NEW y \in NodeID
  PROVE  /\ Minus(x, y) \in NodeID
         /\ Value(Minus(x, y)) = (Value(x) - Value(y)) % Modulus
<1>1. PICK a : a = Borrow(x, y)
  OBVIOUS
<1>2. /\ a \in [Index -> {0, 1}]
      /\ a[Length - 1] = 0
      /\ \A i \in 0 .. Length - 2 : a[i] = IF x[i + 1] < y[i + 1] + a[i + 1] THEN 1 ELSE 0
  BY <1>1, BorrowFacts
<1>3. PICK p : p = Minus(x, y)
  OBVIOUS
<1>4. p = [i \in Index |-> IF x[i] < y[i] + a[i] THEN x[i] + Base - (y[i] + a[i])
                                                 ELSE x[i] - (y[i] + a[i])]
  BY <1>1, <1>3 DEF Minus
<1> DEFINE out(i) == IF x[i] < y[i] + a[i] THEN 1 ELSE 0
<1>5. ASSUME NEW i \in Index
      PROVE  p[i] \in 0 .. Base - 1 /\ out(i) \in Nat /\ p[i] + y[i] + a[i] = x[i] + Base * out(i)
  <2>1. /\ x[i] \in Nat /\ y[i] \in Nat /\ x[i] < Base /\ y[i] < Base
        /\ a[i] \in {0, 1} /\ Base \in Nat
    BY <1>2, BytesFacts, BaseFacts
  <2>2. p[i] = IF x[i] < y[i] + a[i] THEN x[i] + Base - (y[i] + a[i]) ELSE x[i] - (y[i] + a[i])
    BY <1>4
  <2>3. Base * 1 = Base /\ Base * 0 = 0
    BY <2>1
  <2>4. CASE x[i] < y[i] + a[i]
    BY <2>1, <2>2, <2>3, <2>4
  <2>5. CASE ~(x[i] < y[i] + a[i])
    BY <2>1, <2>2, <2>3, <2>5
  <2> QED
    BY <2>4, <2>5
<1>6. p \in NodeID
  BY <1>4, <1>5 DEF NodeID
<1>7. \A i \in 1 .. Length - 1 : out(i) = a[i - 1]
  <2> TAKE i \in 1 .. Length - 1
  <2>1. i - 1 \in 0 .. Length - 2 /\ (i - 1) + 1 = i
    BY IndexFacts
  <2> QED
    BY <1>2, <2>1
<1> HIDE DEF out
<1>8. CarriesOn(p, y, a, x, out(0))
  BY <1>2, <1>5, <1>7, IndexFacts DEF CarriesOn
<1>9. Value(p) + Value(y) + 0 = Value(x) + out(0) * Modulus
  BY <1>2, <1>6, <1>8, CarriedSum
<1>10. Value(x) \in Nat /\ Value(y) \in Nat /\ Value(p) \in Nat /\ Value(p) < Modulus
  BY <1>6, ValueFacts
<1>11. PICK q \in Nat : q = out(0)
  BY <1>5, IndexFacts
<1>12. PICK n \in Int : n = Value(x) - Value(y)
  BY <1>10
<1>13. PICK r \in Nat : r = Value(p)
  BY <1>10
<1>14. n = r + (-q) * Modulus
  <2>1. PICK m \in Int : m = q * Modulus
    BY BaseFacts
  <2>2. (-q) * Modulus = -m
    BY <2>1, BaseFacts
  <2> QED
    BY <1>9, <1>10, <1>11, <1>12, <1>13, <2>1, <2>2
<1>15. n % Modulus = r
  <2>1. -q \in Int
    OBVIOUS
  <2> QED
    BY <1>10, <1>13, <1>14, <2>1, Wraps, BaseFacts
<1> QED
  BY <1>3, <1>6, <1>12, <1>13, <1>15

-----------------------------------------------------------------------------
(* Integers                                                                *)

\* The id of zeros stands for 0.
LEMMA NullIsZero == NullNodeID \in NodeID /\ Value(NullNodeID) = 0
<1>1. NullNodeID \in NodeID
  BY BaseFacts DEF NullNodeID, NodeID
<1>2. \A i \in Index : NullNodeID[i] = 0
  BY DEF NullNodeID
<1> DEFINE L == Leading(NullNodeID)
<1> DEFINE T == {i \in Index : L[i] = 0}
<1>3. L[0] = NullNodeID[0] /\ \A i \in 1 .. Length - 1 : L[i] = NullNodeID[i] + Base * L[i - 1]
  BY <1>1, LeadingFacts
<1> HIDE DEF L
<1>4. 0 \in T
  BY <1>2, <1>3, IndexFacts
<1>5. ASSUME NEW i \in 1 .. Length - 1, i - 1 \in T PROVE i \in T
  BY <1>2, <1>3, <1>5, BaseFacts, IndexFacts
<1> HIDE DEF T
<1>6. Index \subseteq T
  BY <1>4, <1>5, OverBytes
<1> QED
  BY <1>1, <1>6, IndexFacts DEF T, L, Value

\* What operator+=(unsigned int) adds is the integer, less what does not fit an id.
LEMMA BytesOfFacts ==
  ASSUME NEW d \in Nat
  PROVE  /\ BytesOf(d) \in NodeID
         /\ \E q \in Nat : d = Value(BytesOf(d)) + q * Modulus
<1> DEFINE step == [i \in Index |-> [u \in Nat |-> IF i = Length - 1 THEN d ELSE u \div Base]]
<1>1. IsStep(step, Nat, Index)
  BY DivNat, BaseFacts DEF IsStep
<1> HIDE DEF step
<1>2. PICK v : IsBackwards(v, Nat, d, step)
  BY <1>1, Backwards
<1>3. /\ v \in [Index -> Nat]
      /\ v[Length - 1] = d
      /\ \A i \in 0 .. Length - 2 : v[i] = v[i + 1] \div Base
  <2>1. v \in [Index -> Nat] /\ v[Length - 1] = d
    BY <1>2 DEF IsBackwards
  <2>2. ASSUME NEW i \in 0 .. Length - 2 PROVE v[i] = v[i + 1] \div Base
    <3>1. v[i] = step[i][v[i + 1]]
      BY <1>2 DEF IsBackwards
    <3>2. i \in Index /\ v[i + 1] \in Nat /\ i # Length - 1
      BY <2>1, IndexFacts
    <3> QED
      BY <3>1, <3>2 DEF step
  <2> QED
    BY <2>1, <2>2
<1>4. v = [i \in Index |-> IF i = Length - 1 THEN d ELSE v[i + 1] \div Base]
  BY <1>3, IndexFacts
<1>5. PICK w : w = Rest(d)
  OBVIOUS
<1>6. w = [i \in Index |-> IF i = Length - 1 THEN d ELSE w[i + 1] \div Base]
  BY <1>4, <1>5 DEF Rest
<1>7. w[Length - 1] = d
  BY <1>6, IndexFacts
<1>8. \A i \in 0 .. Length - 2 : w[i] = w[i + 1] \div Base
  BY <1>6, IndexFacts
<1> DEFINE T == {i \in Index : w[i] \in Nat}
<1>9. Length - 1 \in T
  BY <1>7, IndexFacts
<1>10. ASSUME NEW i \in 0 .. Length - 2, i + 1 \in T PROVE i \in T
  BY <1>8, <1>10, DivNat, BaseFacts, IndexFacts
<1> HIDE DEF T
<1>11. Index \subseteq T
  BY <1>9, <1>10, OverBytesBack
<1>12. w \in [Index -> Nat]
  BY <1>6, <1>11 DEF T
<1>13. PICK p : p = BytesOf(d)
  OBVIOUS
<1>14. p = [i \in Index |-> w[i] % Base]
  BY <1>5, <1>13 DEF BytesOf
<1>15. ASSUME NEW i \in Index
       PROVE  p[i] \in 0 .. Base - 1 /\ w[i] \div Base \in Nat /\ w[i] = p[i] + Base * (w[i] \div Base)
  <2>1. PICK s \in Nat : s = w[i]
    BY <1>12
  <2>2. PICK c \in Nat : c = s \div Base
    BY DivNat, BaseFacts
  <2>3. p[i] = s % Base
    BY <1>14, <2>1
  <2>4. p[i] \in Nat /\ p[i] < Base /\ s = Base * c + p[i]
    BY <2>2, <2>3, DivMod, BaseFacts
  <2>5. Base * c \in Nat
    BY BaseFacts
  <2> QED
    BY <2>1, <2>2, <2>4, <2>5, BaseFacts
<1>16. p \in NodeID
  BY <1>14, <1>15 DEF NodeID
<1>17. NullNodeID \in NodeID
  BY BaseFacts DEF NullNodeID, NodeID
<1>18. CarriesOn(NullNodeID, NullNodeID, w, p, w[0] \div Base)
  <2>1. \A i \in Index : NullNodeID[i] = 0
    BY DEF NullNodeID
  <2>2. \A i \in Index : 0 + 0 + w[i] = w[i]
    BY <1>12
  <2>3. \A i \in 1 .. Length - 1 : i \in Index /\ w[i] \div Base = w[i - 1]
    <3> TAKE i \in 1 .. Length - 1
    <3>1. i - 1 \in 0 .. Length - 2 /\ (i - 1) + 1 = i
      BY IndexFacts
    <3> QED
      BY <1>8, <3>1, IndexFacts
  <2> QED
    BY <1>12, <1>15, <2>1, <2>2, <2>3, IndexFacts DEF CarriesOn
<1>19. Value(NullNodeID) + Value(NullNodeID) + d = Value(p) + (w[0] \div Base) * Modulus
  BY <1>7, <1>16, <1>17, <1>18, CarriedSum
<1>20. Value(NullNodeID) = 0
  BY NullIsZero
<1>21. Value(p) \in Nat
  BY <1>16, ValueFacts
<1>22. PICK q \in Nat : q = w[0] \div Base
  BY <1>15, IndexFacts
<1>23. d = Value(p) + q * Modulus
  BY <1>19, <1>20, <1>21, <1>22, BaseFacts
<1> QED
  BY <1>13, <1>16, <1>23

-----------------------------------------------------------------------------
(* Shifts                                                                  *)

\* Powers multiply.
LEMMA PowerOfSum ==
  ASSUME NEW b \in Nat \ {0}, NEW m \in Nat, NEW n \in Nat
  PROVE  Power(b)[m + n] = Power(b)[m] * Power(b)[n]
<1>1. PICK p : p = Power(b)
  OBVIOUS
<1>2. p[0] = 1 /\ \A k \in Nat : p[k] \in Nat \ {0} /\ p[k + 1] = b * p[k]
  BY <1>1, PowerFacts
<1> DEFINE T == {k \in Nat : p[k + n] = p[k] * p[n]}
<1>3. 0 \in T
  <2>1. p[n] \in Nat /\ 0 + n = n
    BY <1>2
  <2>2. p[0] * p[n] = p[n]
    BY <1>2, <2>1
  <2> QED
    BY <2>1, <2>2
<1>4. ASSUME NEW k \in Nat, k \in T PROVE k + 1 \in T
  <2>2. (k + 1) + n = (k + n) + 1 /\ k + n \in Nat
    OBVIOUS
  <2>0. p[k] \in Nat /\ p[n] \in Nat /\ p[k + n] \in Nat
    BY <1>2, <2>2
  <2>1. PICK u \in Nat, v \in Nat, w \in Nat : u = p[k] /\ v = p[n] /\ w = p[k + n]
    BY <2>0
  <2>3. p[(k + 1) + n] = b * w
    BY <1>2, <2>1, <2>2
  <2>4. p[k + 1] = b * u
    BY <1>2, <2>1
  <2>5. w = u * v
    BY <1>4, <2>1
  <2>6. b * w = (b * u) * v
    BY <2>5
  <2> QED
    BY <2>1, <2>3, <2>4, <2>6
<1> HIDE DEF T
<1>5. m \in T
  BY <1>3, <1>4, InductiveSet
<1> QED
  BY <1>1, <1>5 DEF T

\* What a shift by bits takes from the byte on the left.
LEMMA LeftPart ==
  ASSUME NEW P \in Nat \ {0}, NEW Q \in Nat \ {0}, NEW y \in Nat
  PROVE  (y * Q) % (P * Q) = Q * (y % P) /\ Q * (y % P) <= P * Q - Q
<1>0. y \div P \in Nat /\ y % P \in Nat /\ y % P < P /\ y = P * (y \div P) + (y % P)
  BY DivNat, DivMod
<1>1. PICK c \in Nat, r \in Nat : c = y \div P /\ r = y % P
  BY <1>0
<1>2. y = P * c + r /\ r < P
  BY <1>0, <1>1
<1>3. PICK B \in Nat \ {0} : B = P * Q
  OBVIOUS
<1>4. y * Q = B * c + Q * r
  <2>1. y * Q = (P * c) * Q + r * Q
    BY <1>2
  <2>2. (P * c) * Q = (P * Q) * c /\ r * Q = Q * r
    OBVIOUS
  <2> QED
    BY <1>3, <2>1, <2>2
<1>5. Q * r <= B - Q
  <2>1. Q * r <= Q * (P - 1)
    BY <1>2
  <2>2. Q * (P - 1) = P * Q - Q
    OBVIOUS
  <2> QED
    BY <1>3, <2>1, <2>2
<1>6. PICK z \in Nat : z = Q * r
  OBVIOUS
<1>7. z \in 0 .. B - 1
  BY <1>3, <1>5, <1>6
<1>8. (B * c + z) % B = z
  BY <1>7, Unique
<1> QED
  BY <1>1, <1>3, <1>4, <1>5, <1>6, <1>8

\* What it leaves of the byte itself.
LEMMA RightPart ==
  ASSUME NEW P \in Nat \ {0}, NEW Q \in Nat \ {0}, NEW y \in Nat, y < P * Q
  PROVE  y \div P \in Nat /\ y \div P < Q
<1>0. y \div P \in Nat /\ y % P \in Nat /\ y % P < P /\ y = P * (y \div P) + (y % P)
  BY DivNat, DivMod
<1>1. PICK c \in Nat, r \in Nat : c = y \div P /\ r = y % P
  BY <1>0
<1>2. y = P * c + r /\ r < P
  BY <1>0, <1>1
<1>3. P * c < P * Q
  BY <1>2
<1>4. c < Q
  <2>1. CASE c >= Q
    <3>1. P * c >= P * Q
      BY <2>1
    <3> QED
      BY <1>3, <3>1
  <2> QED
    BY <2>1
<1> QED
  BY <1>1, <1>4

\* A byte is cut in two by a shift within it.
LEMMA ShiftFacts ==
  ASSUME NEW b \in 0 .. Bits - 1
  PROVE  /\ Power(2)[b] \in Nat \ {0} /\ Power(2)[Bits - b] \in Nat \ {0}
         /\ Base = Power(2)[b] * Power(2)[Bits - b]
<1>1. PICK c \in Nat : c = Bits - b /\ b + c = Bits /\ b \in Nat
  BY NodeIdAssumption
<1>2. Power(2)[b + c] = Power(2)[b] * Power(2)[c]
  <2>1. \A m \in Nat, n \in Nat : Power(2)[m + n] = Power(2)[m] * Power(2)[n]
    BY PowerOfSum
  <2> QED
    BY <1>1, <2>1
<1>3. Power(2)[b] \in Nat \ {0} /\ Power(2)[c] \in Nat \ {0}
  BY <1>1, PowerFacts
<1> QED
  BY <1>1, <1>2, <1>3 DEF Base

\* What shifts hand on fits a byte, for shifts of any width.
LEMMA ShiftRightIsId ==
  ASSUME NEW x \in NodeID, NEW f \in 0 .. Bits * Length - 1
  PROVE  ShiftRight(x, f) \in NodeID
<1>1. PICK o \in Nat, b \in 0 .. Bits - 1 : o = f \div Bits /\ b = f % Bits
  <2>1. Bits \in Nat \ {0} /\ f \in Nat
    BY NodeIdAssumption
  <2>2. f \div Bits \in Nat /\ f % Bits \in 0 .. Bits - 1
    BY <2>1, DivNat, DivMod
  <2> QED
    BY <2>2
<1>2. PICK P \in Nat \ {0}, Q \in Nat \ {0} : P = Power(2)[b] /\ Q = Power(2)[Bits - b]
  BY ShiftFacts
<1>3. Base = P * Q /\ Base \in Nat \ {0}
  BY <1>2, ShiftFacts, BaseFacts
<1>4. PICK s : s = ShiftRight(x, f)
  OBVIOUS
<1>5. s = [i \in Index |-> IF i < o THEN x[i]
                           ELSE IF i = o THEN x[0] \div P
                           ELSE (x[i - o] \div P) + ((x[i - o - 1] * Q) % Base)]
  BY <1>1, <1>2, <1>4 DEF ShiftRight
<1>6. ASSUME NEW i \in Index PROVE x[i] \in Nat /\ x[i] < P * Q /\ x[i] \div P \in Nat /\ x[i] \div P < Q
  <2>1. PICK y \in Nat : y = x[i] /\ y < P * Q
    BY <1>3, BytesFacts
  <2> QED
    BY <2>1, RightPart
<1>7. Q <= P * Q
  OBVIOUS
<1>8. ASSUME NEW i \in Index PROVE s[i] \in 0 .. Base - 1
  <2>1. CASE i < o
    BY <1>3, <1>5, <1>6, <2>1
  <2>2. CASE i = o
    <3>1. s[i] = x[0] \div P
      BY <1>5, <2>2
    <3> QED
      BY <1>3, <1>6, <1>7, <3>1, IndexFacts
  <2>3. CASE i > o
    <3>1. i - o \in Index /\ i - o - 1 \in Index
      BY <2>3, NodeIdAssumption DEF Index
    <3>2. s[i] = (x[i - o] \div P) + ((x[i - o - 1] * Q) % Base)
      BY <1>5, <2>3, IndexFacts
    <3>3. PICK y \in Nat : y = x[i - o - 1]
      BY <1>6, <3>1
    <3>4. PICK z \in Nat : z = (y * Q) % Base
      <4>1. y * Q \in Int
        OBVIOUS
      <4> QED
        BY <1>3, <4>1, DivMod
    <3>5. z <= P * Q - Q
      <4>1. (y * Q) % (P * Q) <= P * Q - Q
        BY LeftPart
      <4> QED
        BY <1>3, <3>4, <4>1
    <3>6. PICK c \in Nat : c = x[i - o] \div P /\ c < Q
      BY <1>6, <3>1
    <3>7. s[i] = c + z
      BY <3>2, <3>3, <3>4, <3>6
    <3> QED
      BY <1>3, <3>5, <3>6, <3>7
  <2> QED
    BY <1>1, <2>1, <2>2, <2>3, IndexFacts
<1>9. s \in NodeID
  BY <1>5, <1>8 DEF NodeID
<1> QED
  BY <1>4, <1>9

\* A shift by less than a byte divides: the bits that leave a byte enter the next.
LEMMA ShiftDivides ==
  ASSUME NEW x \in NodeID, NEW f \in 0 .. Bits - 1
  PROVE  Value(ShiftRight(x, f)) = Value(x) \div Power(2)[f]
<1>1. PICK P \in Nat \ {0}, Q \in Nat \ {0} : P = Power(2)[f] /\ Q = Power(2)[Bits - f]
  BY ShiftFacts
<1>2. Base = P * Q /\ Base \in Nat \ {0}
  BY <1>1, ShiftFacts, BaseFacts
<1>3. f \div Bits = 0 /\ f % Bits = f
  <2>1. Bits \in Nat \ {0} /\ f \in 0 .. Bits - 1 /\ Bits * 0 + f = f
    BY NodeIdAssumption
  <2> QED
    BY <2>1, Unique
<1>4. PICK s : s = ShiftRight(x, f)
  OBVIOUS
<1>5. s = [i \in Index |-> IF i < 0 THEN x[i]
                           ELSE IF i = 0 THEN x[0] \div P
                           ELSE (x[i - 0] \div P) + ((x[i - 0 - 1] * Q) % Base)]
  BY <1>1, <1>3, <1>4 DEF ShiftRight
<1>6. s[0] = x[0] \div P
  BY <1>5, IndexFacts
<1>7. ASSUME NEW i \in 1 .. Length - 1 PROVE s[i] = (x[i] \div P) + ((x[i - 1] * Q) % Base)
  <2>1. i - 0 = i /\ i - 0 - 1 = i - 1 /\ ~(i < 0) /\ i # 0 /\ i \in Index
    BY IndexFacts
  <2> QED
    BY <1>5, <2>1
<1>8. s \in NodeID
  <2>1. f \in 0 .. Bits * Length - 1
    <3>1. Bits * Length >= Bits
      BY NodeIdAssumption
    <3> QED
      BY <3>1, NodeIdAssumption
  <2> QED
    BY <1>4, <2>1, ShiftRightIsId
<1> DEFINE X == Leading(x)
<1> DEFINE S == Leading(s)
<1>9. /\ X \in [Index -> Nat] /\ S \in [Index -> Nat]
      /\ X[0] = x[0] /\ S[0] = s[0]
      /\ \A i \in 1 .. Length - 1 : /\ X[i] = x[i] + Base * X[i - 1]
                                   /\ S[i] = s[i] + Base * S[i - 1]
  BY <1>8, LeadingFacts
<1> HIDE DEF X, S
<1>10. ASSUME NEW i \in Index
       PROVE  /\ x[i] \in Nat /\ x[i] \div P \in Nat /\ x[i] % P \in 0 .. P - 1
              /\ x[i] = P * (x[i] \div P) + (x[i] % P)
  <2>1. PICK y \in Nat : y = x[i]
    BY BytesFacts
  <2>2. y \div P \in Nat /\ y % P \in 0 .. P - 1 /\ y = P * (y \div P) + (y % P)
    BY DivNat, DivMod
  <2> QED
    BY <2>1, <2>2
<1> DEFINE T == {i \in Index : X[i] = P * S[i] + (x[i] % P)}
<1>11. 0 \in T
  BY <1>6, <1>9, <1>10, IndexFacts
<1>12. ASSUME NEW i \in 1 .. Length - 1, i - 1 \in T PROVE i \in T
  <2>1. i \in Index /\ i - 1 \in Index
    BY IndexFacts
  <2>0. /\ x[i] \div P \in Nat /\ x[i] % P \in Nat /\ x[i - 1] \in Nat /\ x[i - 1] % P \in Nat
        /\ S[i - 1] \in Nat
    BY <1>9, <1>10, <2>1
  <2>2. PICK c \in Nat, r \in Nat, y \in Nat, z \in Nat, t \in Nat :
          /\ c = x[i] \div P /\ r = x[i] % P /\ y = x[i - 1] /\ z = x[i - 1] % P /\ t = S[i - 1]
    BY <2>0
  <2>3. x[i] = P * c + r
    BY <1>10, <2>1, <2>2
  <2>4. s[i] = c + Q * z
    BY <1>2, <1>7, <2>2, LeftPart
  <2>5. X[i - 1] = P * t + z
    BY <1>12, <2>2
  <2>6. X[i] = (P * c + r) + Base * (P * t + z)
    BY <1>9, <2>3, <2>5
  <2>7. S[i] = (c + Q * z) + Base * t
    BY <1>9, <2>2, <2>4
  <2>8. (P * c + r) + Base * (P * t + z) = P * ((c + Q * z) + Base * t) + r
    <3>1. Base * (P * t + z) = Base * (P * t) + Base * z
      BY <1>2
    <3>2. P * ((c + Q * z) + Base * t) = P * c + P * (Q * z) + P * (Base * t)
      BY <1>2
    <3>3. P * (Q * z) = Base * z /\ P * (Base * t) = Base * (P * t)
      BY <1>2
    <3>4. PICK k \in Nat, l \in Nat, m \in Nat : k = Base * (P * t) /\ l = Base * z /\ m = P * c
      BY <1>2
    <3> QED
      BY <3>1, <3>2, <3>3, <3>4
  <2>9. X[i] = P * S[i] + r
    BY <2>6, <2>7, <2>8
  <2> QED
    BY <2>1, <2>2, <2>9
<1> HIDE DEF T
<1>13. Index \subseteq T
  BY <1>11, <1>12, OverBytes
<1>14. PICK t \in Nat, r \in 0 .. P - 1 : t = S[Length - 1] /\ r = x[Length - 1] % P
  BY <1>9, <1>10, IndexFacts
<1>15. X[Length - 1] = P * t + r
  BY <1>13, <1>14, IndexFacts DEF T
<1>16. (P * t + r) \div P = t
  BY Unique
<1> QED
  BY <1>1, <1>4, <1>14, <1>15, <1>16 DEF X, S, Value

-----------------------------------------------------------------------------
(* The exclusive or of two bytes                                           *)

\* Dividing twice is dividing by the product.
LEMMA DivDiv ==
  ASSUME NEW a \in Nat, NEW b \in Nat \ {0}, NEW c \in Nat \ {0}
  PROVE  (a \div b) \div c = a \div (b * c)
<1>1. a \div b \in Nat /\ a % b \in Nat /\ a % b < b /\ a = b * (a \div b) + (a % b)
  BY DivNat, DivMod
<1>2. PICK q \in Nat, r \in Nat : q = a \div b /\ r = a % b /\ a = b * q + r /\ r < b
  BY <1>1
<1>3. q \div c \in Nat /\ q % c \in Nat /\ q % c < c /\ q = c * (q \div c) + (q % c)
  BY DivNat, DivMod
<1>4. PICK s \in Nat, t \in Nat : s = q \div c /\ t = q % c /\ q = c * s + t /\ t < c
  BY <1>3
<1>5. PICK m \in Nat \ {0} : m = b * c
  OBVIOUS
<1>6. PICK u \in Nat : u = b * t + r
  OBVIOUS
<1>7. u \in 0 .. m - 1
  <2>1. b * t <= b * (c - 1)
    BY <1>4
  <2>2. b * (c - 1) = b * c - b
    OBVIOUS
  <2> QED
    BY <1>2, <1>5, <1>6, <2>1, <2>2
<1>8. a = m * s + u
  <2>1. b * (c * s + t) = b * (c * s) + b * t
    OBVIOUS
  <2>2. b * (c * s) = (b * c) * s
    OBVIOUS
  <2>3. PICK k \in Nat, l \in Nat : k = b * (c * s) /\ l = b * t
    OBVIOUS
  <2>4. b * q = k + l
    BY <1>4, <2>1, <2>3
  <2>5. m * s = k /\ u = l + r
    BY <1>5, <1>6, <2>2, <2>3
  <2> QED
    BY <1>2, <2>4, <2>5
<1>9. (m * s + u) \div m = s
  BY <1>7, Unique
<1> QED
  BY <1>2, <1>4, <1>5, <1>8, <1>9

\* The upper k bits of a byte.
Upper(c, k) == c \div Power(2)[Bits - k]

\* Induction over the upper bits of a byte, and back.
LEMMA OverBits ==
  ASSUME NEW S, 0 \in S, \A k \in 1 .. Bits : k - 1 \in S => k \in S
  PROVE  0 .. Bits \subseteq S
<1> DEFINE T == {n \in Nat : n <= Bits => n \in S}
<1>1. 0 \in T
  OBVIOUS
<1>2. ASSUME NEW n \in Nat, n \in T PROVE n + 1 \in T
  <2> SUFFICES ASSUME n + 1 <= Bits PROVE n + 1 \in S
    OBVIOUS
  <2>1. n + 1 \in 1 .. Bits /\ n <= Bits /\ (n + 1) - 1 = n
    BY NodeIdAssumption
  <2>2. n \in S
    BY <1>2, <2>1
  <2> QED
    BY <2>1, <2>2
<1> HIDE DEF T
<1>3. Nat \subseteq T
  BY <1>1, <1>2, InductiveSet
<1> QED
  BY <1>3, NodeIdAssumption DEF T

LEMMA OverBitsBack ==
  ASSUME NEW S, Bits \in S, \A k \in 1 .. Bits : k \in S => k - 1 \in S
  PROVE  0 .. Bits \subseteq S
<1> DEFINE T == {k \in 0 .. Bits : Bits - k \in S}
<1>1. 0 \in T
  BY NodeIdAssumption
<1>2. ASSUME NEW k \in 1 .. Bits, k - 1 \in T PROVE k \in T
  <2>1. PICK j : j = Bits - (k - 1)
    OBVIOUS
  <2>2. j \in 1 .. Bits /\ Bits - k = j - 1
    BY <2>1, NodeIdAssumption
  <2> QED
    BY <1>2, <2>1, <2>2
<1> HIDE DEF T
<1>3. 0 .. Bits \subseteq T
  BY <1>1, <1>2, OverBits
<1>4. ASSUME NEW k \in 0 .. Bits PROVE k \in S
  <2>1. PICK j : j = Bits - k
    OBVIOUS
  <2>2. j \in 0 .. Bits /\ Bits - j = k
    BY <2>1, NodeIdAssumption
  <2>3. j \in T
    BY <1>3, <2>2
  <2> QED
    BY <2>2, <2>3 DEF T
<1> QED
  BY <1>4

\* One more bit doubles the upper part of a byte and adds the bit.
LEMMA UpperFacts ==
  ASSUME NEW c \in 0 .. Base - 1
  PROVE  /\ Upper(c, 0) = 0 /\ Upper(c, Bits) = c
         /\ \A k \in 0 .. Bits : Upper(c, k) \in Nat
         /\ \A k \in 1 .. Bits : /\ Upper(c, k) % 2 \in {0, 1}
                                 /\ Upper(c, k) = 2 * Upper(c, k - 1) + (Upper(c, k) % 2)
                                 /\ Upper(c, k - 1) = Upper(c, k) \div 2
<1>1. PICK p : p = Power(2)
  OBVIOUS
<1>2. p[0] = 1 /\ \A n \in Nat : p[n] \in Nat \ {0} /\ p[n + 1] = 2 * p[n]
  BY <1>1, PowerFacts
<1>3. Bits \in Nat \ {0} /\ Bits - 0 = Bits /\ Bits - Bits = 0
  BY NodeIdAssumption
<1>4. Upper(c, 0) = 0
  <2>1. PICK b \in Nat \ {0} : b = p[Bits]
    BY <1>2, <1>3
  <2>2. b = Base /\ c \in 0 .. b - 1 /\ b * 0 + c = c
    BY <1>1, <2>1 DEF Base
  <2>3. c \div b = 0
    BY <2>2, Unique
  <2> QED
    BY <1>1, <1>3, <2>1, <2>3 DEF Upper
<1>5. Upper(c, Bits) = c
  <2>1. c \div 1 = c
    BY BaseFacts
  <2> QED
    BY <1>1, <1>2, <1>3, <2>1 DEF Upper
<1>6. ASSUME NEW k \in 0 .. Bits PROVE Upper(c, k) \in Nat
  <2>1. PICK m \in Nat : m = Bits - k
    BY <1>3
  <2>2. PICK b \in Nat \ {0} : b = p[m]
    BY <1>2
  <2>3. c \div b \in Nat
    BY DivNat
  <2> QED
    BY <1>1, <2>1, <2>2, <2>3 DEF Upper
<1>7. ASSUME NEW k \in 1 .. Bits
      PROVE  /\ Upper(c, k) % 2 \in {0, 1}
             /\ Upper(c, k) = 2 * Upper(c, k - 1) + (Upper(c, k) % 2)
             /\ Upper(c, k - 1) = Upper(c, k) \div 2
  <2>1. PICK m \in Nat : m = Bits - k /\ m + 1 = Bits - (k - 1)
    BY <1>3
  <2>2. PICK b \in Nat \ {0} : b = p[m]
    BY <1>2
  <2>3. p[m + 1] = b * 2
    BY <1>2, <2>2
  <2>4. Upper(c, k) = c \div b /\ Upper(c, k - 1) = c \div (b * 2)
    BY <1>1, <2>1, <2>2, <2>3 DEF Upper
  <2>5. PICK u \in Nat : u = c \div b
    BY DivNat
  <2>6. u \div 2 = c \div (b * 2)
    BY <2>5, DivDiv
  <2>7. u % 2 \in {0, 1} /\ u = 2 * (u \div 2) + (u % 2)
    OBVIOUS
  <2> QED
    BY <2>4, <2>5, <2>6, <2>7
<1> QED
  BY <1>4, <1>5, <1>6, <1>7

\* Bit by bit, the exclusive or is 1 where the bytes differ.
LEMMA ByteXorFacts ==
  ASSUME NEW a \in 0 .. Base - 1, NEW b \in 0 .. Base - 1
  PROVE  /\ ByteXor(a, b) \in 0 .. Base - 1
         /\ \A k \in 1 .. Bits :
              Upper(ByteXor(a, b), k) = 2 * Upper(ByteXor(a, b), k - 1)
                                          + (IF Upper(a, k) % 2 = Upper(b, k) % 2 THEN 0 ELSE 1)
<1> DEFINE d(k) == IF Upper(a, k) % 2 = Upper(b, k) % 2 THEN 0 ELSE 1
<1>1. PICK p : p = Power(2)
  OBVIOUS
<1>2. p[0] = 1 /\ \A n \in Nat : p[n] \in Nat \ {0} /\ p[n + 1] = 2 * p[n]
  BY <1>1, PowerFacts
<1>3. Bits \in Nat \ {0}
  BY NodeIdAssumption
<1> DEFINE step == [n \in Nat |-> [v \in Nat |-> 2 * v + d(n + 1)]]
<1>4. IsStep(step, Nat, Nat)
  BY DEF IsStep
<1> HIDE DEF step
<1>5. PICK f : IsRecursive(f, Nat, 0, step)
  BY <1>4, Recursion
<1>6. f \in [Nat -> Nat] /\ f[0] = 0 /\ \A n \in Nat : f[n + 1] = 2 * f[n] + d(n + 1)
  BY <1>5 DEF IsRecursive, step
<1> HIDE DEF d
<1>7. PICK g : g = [k \in 0 .. Bits |-> f[k]]
  OBVIOUS
<1>8. g = [k \in 0 .. Bits |-> IF k = 0 THEN 0 ELSE 2 * g[k - 1] + d(k)]
  <2>1. ASSUME NEW k \in 0 .. Bits PROVE g[k] = IF k = 0 THEN 0 ELSE 2 * g[k - 1] + d(k)
    <3>1. CASE k = 0
      BY <1>3, <1>6, <1>7, <3>1
    <3>2. CASE k # 0
      <4>1. k - 1 \in Nat /\ k - 1 \in 0 .. Bits /\ (k - 1) + 1 = k
        BY <1>3, <3>2
      <4> QED
        BY <1>6, <1>7, <3>2, <4>1
    <3> QED
      BY <3>1, <3>2
  <2> QED
    BY <1>7, <2>1
<1>9. PICK u : u = CHOOSE h : h = [k \in 0 .. Bits |-> IF k = 0 THEN 0 ELSE 2 * h[k - 1] + d(k)]
  OBVIOUS
<1>10. u = [k \in 0 .. Bits |-> IF k = 0 THEN 0 ELSE 2 * u[k - 1] + d(k)]
  BY <1>8, <1>9
<1>11. ByteXor(a, b) = u[Bits]
  BY <1>9 DEF ByteXor, d, Upper
<1>12. u[0] = 0 /\ \A k \in 1 .. Bits : u[k] = 2 * u[k - 1] + d(k) /\ d(k) \in {0, 1}
  <2>1. u[0] = 0
    BY <1>3, <1>10
  <2>2. ASSUME NEW k \in 1 .. Bits PROVE u[k] = 2 * u[k - 1] + d(k)
    BY <1>3, <1>10
  <2> QED
    BY <2>1, <2>2 DEF d
<1> DEFINE T == {k \in 0 .. Bits : u[k] \in Nat /\ u[k] < p[k]}
<1>13. 0 \in T
  BY <1>2, <1>3, <1>12
<1>14. ASSUME NEW k \in 1 .. Bits, k - 1 \in T PROVE k \in T
  <2>1. k - 1 \in Nat /\ (k - 1) + 1 = k /\ k \in 0 .. Bits
    BY <1>3
  <2>2. p[k] = 2 * p[k - 1] /\ p[k - 1] \in Nat
    BY <1>2, <2>1
  <2>3. u[k - 1] \in Nat /\ u[k - 1] < p[k - 1]
    BY <1>14
  <2> QED
    BY <1>12, <2>1, <2>2, <2>3
<1> HIDE DEF T
<1>15. 0 .. Bits \subseteq T
  BY <1>13, <1>14, OverBits
<1>16. PICK x \in 0 .. Base - 1 : x = u[Bits]
  <2>1. Bits \in 0 .. Bits
    BY <1>3
  <2>2. u[Bits] \in Nat /\ u[Bits] < p[Bits]
    BY <1>15, <2>1 DEF T
  <2> QED
    BY <1>1, <2>2, BaseFacts DEF Base
<1> DEFINE R == {k \in 0 .. Bits : Upper(x, k) = u[k]}
<1>17. Bits \in R
  <2>1. Upper(x, Bits) = x
    BY UpperFacts
  <2>2. Bits \in 0 .. Bits
    BY <1>3
  <2> QED
    BY <1>16, <2>1, <2>2
<1>18. ASSUME NEW k \in 1 .. Bits, k \in R PROVE k - 1 \in R
  <2>1. k - 1 \in 0 .. Bits
    BY <1>3
  <2>2. Upper(x, k - 1) = u[k] \div 2
    BY <1>18, UpperFacts
  <2>3. PICK v \in Nat, e \in {0, 1} : v = u[k - 1] /\ e = d(k)
    BY <1>12, <1>15, <2>1 DEF T
  <2>4. u[k] = 2 * v + e
    BY <1>12, <2>3
  <2>5. (2 * v + e) \div 2 = v
    BY <2>3
  <2> QED
    BY <2>1, <2>2, <2>3, <2>4, <2>5
<1> HIDE DEF R
<1>19. 0 .. Bits \subseteq R
  BY <1>17, <1>18, OverBitsBack
<1>20. ASSUME NEW k \in 1 .. Bits PROVE Upper(x, k) = 2 * Upper(x, k - 1) + d(k)
  <2>1. k \in 0 .. Bits /\ k - 1 \in 0 .. Bits
    BY <1>3
  <2>2. Upper(x, k) = u[k] /\ Upper(x, k - 1) = u[k - 1]
    BY <1>19, <2>1 DEF R
  <2> QED
    BY <1>12, <2>2
<1>21. x = ByteXor(a, b)
  BY <1>11, <1>16
<1> QED
  BY <1>20, <1>21 DEF d

\* Two exclusive ors with a byte agree in their upper bits exactly if the other bytes do.
LEMMA ByteXorAgrees ==
  ASSUME NEW a \in 0 .. Base - 1, NEW b \in 0 .. Base - 1, NEW c \in 0 .. Base - 1,
         NEW k \in 0 .. Bits
  PROVE  Upper(ByteXor(a, b), k) = Upper(ByteXor(a, c), k) <=> Upper(b, k) = Upper(c, k)
<1>1. PICK x \in 0 .. Base - 1, y \in 0 .. Base - 1 : x = ByteXor(a, b) /\ y = ByteXor(a, c)
  BY ByteXorFacts
<1> DEFINE T == {j \in 0 .. Bits : Upper(x, j) = Upper(y, j) <=> Upper(b, j) = Upper(c, j)}
<1>2. 0 \in T
  BY UpperFacts, NodeIdAssumption
<1>3. ASSUME NEW j \in 1 .. Bits, j - 1 \in T PROVE j \in T
  <2>1. j \in 0 .. Bits /\ j - 1 \in 0 .. Bits
    BY NodeIdAssumption
  <2>2. PICK ab \in {0, 1}, bb \in {0, 1}, cb \in {0, 1} :
          ab = Upper(a, j) % 2 /\ bb = Upper(b, j) % 2 /\ cb = Upper(c, j) % 2
    BY UpperFacts
  <2>3. PICK xu \in Nat, yu \in Nat, bu \in Nat, cu \in Nat :
          /\ xu = Upper(x, j - 1) /\ yu = Upper(y, j - 1)
          /\ bu = Upper(b, j - 1) /\ cu = Upper(c, j - 1)
    BY <2>1, UpperFacts
  <2>4. /\ Upper(x, j) = 2 * xu + (IF ab = bb THEN 0 ELSE 1)
        /\ Upper(y, j) = 2 * yu + (IF ab = cb THEN 0 ELSE 1)
    <3>1. /\ Upper(x, j) = 2 * Upper(x, j - 1) + (IF Upper(a, j) % 2 = Upper(b, j) % 2 THEN 0 ELSE 1)
          /\ Upper(y, j) = 2 * Upper(y, j - 1) + (IF Upper(a, j) % 2 = Upper(c, j) % 2 THEN 0 ELSE 1)
      BY <1>1, ByteXorFacts
    <3> QED
      BY <2>2, <2>3, <3>1
  <2>5. Upper(b, j) = 2 * bu + bb /\ Upper(c, j) = 2 * cu + cb
    BY <2>2, <2>3, UpperFacts
  <2>6. xu = yu <=> bu = cu
    BY <1>3, <2>3
  <2>7. Upper(x, j) = Upper(y, j) <=> xu = yu /\ bb = cb
    BY <2>4
  <2>8. Upper(b, j) = Upper(c, j) <=> bu = cu /\ bb = cb
    BY <2>5
  <2> QED
    BY <2>1, <2>6, <2>7, <2>8
<1> HIDE DEF T
<1>4. k \in T
  BY <1>2, <1>3, OverBits
<1> QED
  BY <1>1, <1>4 DEF T

\* The exclusive or of two bytes is the same either way round ...
LEMMA ByteXorSymmetric ==
  ASSUME NEW a \in 0 .. Base - 1, NEW b \in 0 .. Base - 1
  PROVE  ByteXor(a, b) = ByteXor(b, a)
<1>1. PICK x \in 0 .. Base - 1, y \in 0 .. Base - 1 : x = ByteXor(a, b) /\ y = ByteXor(b, a)
  BY ByteXorFacts
<1> DEFINE T == {j \in 0 .. Bits : Upper(x, j) = Upper(y, j)}
<1>2. 0 \in T
  BY UpperFacts, NodeIdAssumption
<1>3. ASSUME NEW j \in 1 .. Bits, j - 1 \in T PROVE j \in T
  <2>1. /\ Upper(x, j) = 2 * Upper(x, j - 1) + (IF Upper(a, j) % 2 = Upper(b, j) % 2 THEN 0 ELSE 1)
        /\ Upper(y, j) = 2 * Upper(y, j - 1) + (IF Upper(b, j) % 2 = Upper(a, j) % 2 THEN 0 ELSE 1)
    BY <1>1, ByteXorFacts
  <2>2. j \in 0 .. Bits
    BY NodeIdAssumption
  <2> QED
    BY <1>3, <2>1, <2>2
<1> HIDE DEF T
<1>4. 0 .. Bits \subseteq T
  BY <1>2, <1>3, OverBits
<1>5. Upper(x, Bits) = Upper(y, Bits)
  BY <1>4, NodeIdAssumption DEF T
<1> QED
  BY <1>1, <1>5, UpperFacts

\* ... and zero if they are the same byte.
LEMMA ByteXorZero ==
  ASSUME NEW a \in 0 .. Base - 1, NEW b \in 0 .. Base - 1
  PROVE  ByteXor(a, b) = 0 <=> a = b
<1>1. PICK x \in 0 .. Base - 1, y \in 0 .. Base - 1 : x = ByteXor(a, b) /\ y = ByteXor(a, a)
  BY ByteXorFacts
<1> DEFINE T == {j \in 0 .. Bits : Upper(y, j) = 0}
<1>2. 0 \in T
  BY UpperFacts, NodeIdAssumption
<1>3. ASSUME NEW j \in 1 .. Bits, j - 1 \in T PROVE j \in T
  <2>1. Upper(y, j) = 2 * Upper(y, j - 1) + (IF Upper(a, j) % 2 = Upper(a, j) % 2 THEN 0 ELSE 1)
    BY <1>1, ByteXorFacts
  <2>2. j \in 0 .. Bits
    BY NodeIdAssumption
  <2> QED
    BY <1>3, <2>1, <2>2
<1> HIDE DEF T
<1>4. 0 .. Bits \subseteq T
  BY <1>2, <1>3, OverBits
<1>5. Bits \in 0 .. Bits
  BY NodeIdAssumption
<1>6. y = 0
  BY <1>4, <1>5, UpperFacts DEF T
<1>7. Upper(x, Bits) = Upper(y, Bits) <=> Upper(b, Bits) = Upper(a, Bits)
  BY <1>1, <1>5, ByteXorAgrees
<1>8. x = y <=> b = a
  BY <1>7, UpperFacts
<1> QED
  BY <1>1, <1>6, <1>8

-----------------------------------------------------------------------------
(* Ids as numbers                                                          *)

\* The number up to a byte is decided by the bytes up to it.
LEMMA LeadingDecides ==
  ASSUME NEW x \in NodeID, NEW y \in NodeID, NEW i \in Index
  PROVE  Leading(x)[i] = Leading(y)[i] <=> \A k \in 0 .. i : x[k] = y[k]
<1> DEFINE X == Leading(x)
<1> DEFINE Y == Leading(y)
<1>1. /\ X \in [Index -> Nat] /\ Y \in [Index -> Nat] /\ X[0] = x[0] /\ Y[0] = y[0]
      /\ \A j \in 1 .. Length - 1 : X[j] = x[j] + Base * X[j - 1] /\ Y[j] = y[j] + Base * Y[j - 1]
  BY LeadingFacts
<1> HIDE DEF X, Y
<1> DEFINE T == {j \in Index : X[j] = Y[j] <=> \A k \in 0 .. j : x[k] = y[k]}
<1>2. 0 \in T
  BY <1>1, IndexFacts
<1>3. ASSUME NEW j \in 1 .. Length - 1, j - 1 \in T PROVE j \in T
  <2>1. j \in Index /\ j - 1 \in Index /\ j \in Nat /\ 0 .. j = (0 .. j - 1) \cup {j}
    BY IndexFacts
  <2>2. PICK xb \in 0 .. Base - 1, yb \in 0 .. Base - 1, xl \in Nat, yl \in Nat :
          xb = x[j] /\ yb = y[j] /\ xl = X[j - 1] /\ yl = Y[j - 1]
    <3>1. x[j] \in 0 .. Base - 1 /\ y[j] \in 0 .. Base - 1
      BY <2>1, BaseFacts DEF NodeID
    <3>2. X[j - 1] \in Nat /\ Y[j - 1] \in Nat
      BY <1>1, <2>1
    <3> QED
      BY <3>1, <3>2
  <2>3. X[j] = Base * xl + xb /\ Y[j] = Base * yl + yb
    <3>1. X[j] = xb + Base * xl /\ Y[j] = yb + Base * yl
      BY <1>1, <2>2
    <3>2. Base * xl \in Nat /\ Base * yl \in Nat
      BY BaseFacts
    <3> QED
      BY <3>1, <3>2
  <2>4. (Base * xl + xb) \div Base = xl /\ (Base * xl + xb) % Base = xb
    BY Unique, BaseFacts
  <2>5. (Base * yl + yb) \div Base = yl /\ (Base * yl + yb) % Base = yb
    BY Unique, BaseFacts
  <2>6. X[j] = Y[j] <=> xl = yl /\ xb = yb
    BY <2>3, <2>4, <2>5
  <2>7. xl = yl <=> \A k \in 0 .. j - 1 : x[k] = y[k]
    BY <1>3, <2>2
  <2>8. xl = yl /\ xb = yb <=> \A k \in 0 .. j : x[k] = y[k]
    BY <2>1, <2>2, <2>7
  <2> QED
    BY <2>1, <2>6, <2>8
<1> HIDE DEF T
<1>4. i \in T
  BY <1>2, <1>3, OverBytes
<1> QED
  BY <1>4 DEF T, X, Y

\* No two ids stand for the same number.
LEMMA ValueDecides ==
  ASSUME NEW x \in NodeID, NEW y \in NodeID
  PROVE  Value(x) = Value(y) <=> x = y
<1>1. Value(x) = Value(y) <=> \A k \in 0 .. Length - 1 : x[k] = y[k]
  BY LeadingDecides, IndexFacts DEF Value
<1>2. ASSUME \A k \in 0 .. Length - 1 : x[k] = y[k] PROVE x = y
  <2>1. x = [k \in Index |-> x[k]] /\ y = [k \in Index |-> y[k]]
    BY DEF NodeID
  <2>2. \A k \in Index : x[k] = y[k]
    BY <1>2 DEF Index
  <2>3. [k \in Index |-> x[k]] = [k \in Index |-> y[k]]
    BY <2>2
  <2> QED
    BY <2>1, <2>3
<1> QED
  BY <1>1, <1>2

\* operator< compares the numbers.
LEMMA LessIsSmaller ==
  ASSUME NEW x \in NodeID, NEW y \in NodeID
  PROVE  Less(x, y) <=> Value(x) < Value(y)
<1> DEFINE X == Leading(x)
<1> DEFINE Y == Leading(y)
<1>1. /\ X \in [Index -> Nat] /\ Y \in [Index -> Nat] /\ X[0] = x[0] /\ Y[0] = y[0]
      /\ \A j \in 1 .. Length - 1 : X[j] = x[j] + Base * X[j - 1] /\ Y[j] = y[j] + Base * Y[j - 1]
  BY LeadingFacts
<1>2. \A j \in Index : X[j] = Y[j] <=> \A k \in 0 .. j : x[k] = y[k]
  BY LeadingDecides
<1> HIDE DEF X, Y
<1> DEFINE First(k) == x[k] < y[k] /\ \A j \in 0 .. k - 1 : x[j] = y[j]
<1> DEFINE T == {i \in Index : X[i] < Y[i] <=> \E k \in 0 .. i : First(k)}
<1>3. 0 \in T
  BY <1>1, IndexFacts
<1>4. ASSUME NEW i \in 1 .. Length - 1, i - 1 \in T PROVE i \in T
  <2>1. i \in Index /\ i - 1 \in Index /\ i \in Nat /\ 0 .. i = (0 .. i - 1) \cup {i}
    BY IndexFacts
  <2>2. PICK xb \in 0 .. Base - 1, yb \in 0 .. Base - 1, xl \in Nat, yl \in Nat :
          xb = x[i] /\ yb = y[i] /\ xl = X[i - 1] /\ yl = Y[i - 1]
    <3>1. x[i] \in 0 .. Base - 1 /\ y[i] \in 0 .. Base - 1
      BY <2>1, BaseFacts DEF NodeID
    <3>2. X[i - 1] \in Nat /\ Y[i - 1] \in Nat
      BY <1>1, <2>1
    <3> QED
      BY <3>1, <3>2
  <2>3. X[i] = xb + Base * xl /\ Y[i] = yb + Base * yl
    BY <1>1, <2>2
  <2>4. X[i] < Y[i] <=> xl < yl \/ (xl = yl /\ xb < yb)
    <3>1. PICK k \in Nat, l \in Nat : k = Base * xl /\ l = Base * yl
      BY BaseFacts
    <3>2. CASE xl < yl
      <4>1. Base * (xl + 1) <= Base * yl
        BY <3>2, BaseFacts
      <4>2. Base * (xl + 1) = k + Base
        BY <3>1, BaseFacts
      <4>3. k + Base <= l
        BY <3>1, <4>1, <4>2
      <4> QED
        BY <2>3, <3>1, <3>2, <4>3, BaseFacts
    <3>3. CASE xl = yl
      BY <2>3, <3>1, <3>3
    <3>4. CASE yl < xl
      <4>1. Base * (yl + 1) <= Base * xl
        BY <3>4, BaseFacts
      <4>2. Base * (yl + 1) = l + Base
        BY <3>1, BaseFacts
      <4>3. l + Base <= k
        BY <3>1, <4>1, <4>2
      <4> QED
        BY <2>3, <3>1, <3>4, <4>3, BaseFacts
    <3> QED
      BY <3>2, <3>3, <3>4
  <2>5. xl < yl <=> \E k \in 0 .. i - 1 : First(k)
    BY <1>4, <2>2
  <2>6. xl = yl /\ xb < yb <=> First(i)
    BY <1>2, <2>1, <2>2
  <2>7. (\E k \in 0 .. i : First(k)) <=> (\E k \in 0 .. i - 1 : First(k)) \/ First(i)
    BY <2>1
  <2> QED
    BY <2>1, <2>4, <2>5, <2>6, <2>7
<1> HIDE DEF T
<1>5. X[Length - 1] < Y[Length - 1] <=> \E k \in 0 .. Length - 1 : First(k)
  BY <1>3, <1>4, OverBytes, IndexFacts DEF T
<1> QED
  BY <1>5 DEF X, Y, Value, Less, Index

\* A power of the base is one of two.
LEMMA PowerOfBase ==
  ASSUME NEW m \in Nat
  PROVE  Power(Base)[m] = Power(2)[Bits * m]
<1> DEFINE P == Power(Base)
<1> DEFINE p == Power(2)
<1>1. P[0] = 1 /\ \A n \in Nat : P[n + 1] = Base * P[n]
  BY PowerFacts, BaseFacts
<1>2. p[0] = 1 /\ \A k \in Nat, n \in Nat : p[k + n] = p[k] * p[n]
  BY PowerFacts, PowerOfSum
<1>3. p[Bits] = Base
  BY DEF Base
<1> HIDE DEF P, p
<1> DEFINE T == {n \in Nat : P[n] = p[Bits * n]}
<1>4. 0 \in T
  <2>1. Bits * 0 = 0
    BY NodeIdAssumption
  <2> QED
    BY <1>1, <1>2, <2>1
<1>5. ASSUME NEW n \in Nat, n \in T PROVE n + 1 \in T
  <2>1. PICK b \in Nat : b = Bits * n
    BY NodeIdAssumption
  <2>2. Bits * (n + 1) = Bits + b
    BY <2>1, NodeIdAssumption
  <2>3. p[Bits + b] = p[Bits] * p[b]
    BY <1>2, NodeIdAssumption
  <2> QED
    BY <1>1, <1>3, <1>5, <2>1, <2>2, <2>3
<1> HIDE DEF T
<1>6. m \in T
  BY <1>4, <1>5, InductiveSet
<1> QED
  BY <1>6 DEF T, P, p

\* Dividing by a power of the base takes bytes away.
LEMMA LeadingIsQuotient ==
  ASSUME NEW x \in NodeID, NEW m \in 0 .. Length - 1
  PROVE  Value(x) \div Power(Base)[m] = Leading(x)[Length - 1 - m]
<1> DEFINE P == Power(Base)
<1> DEFINE X == Leading(x)
<1>1. P[0] = 1 /\ \A n \in Nat : P[n] \in Nat \ {0} /\ P[n + 1] = Base * P[n]
  BY PowerFacts, BaseFacts
<1>2. X \in [Index -> Nat] /\ \A i \in 1 .. Length - 1 : X[i] = x[i] + Base * X[i - 1]
  BY LeadingFacts
<1>3. PICK V \in Nat : V = Value(x) /\ V = X[Length - 1]
  BY ValueFacts DEF Value
<1> HIDE DEF P, X
<1> DEFINE T == {n \in Index : V \div P[n] = X[Length - 1 - n]}
<1>4. 0 \in T
  <2>1. V \div 1 = V /\ Length - 1 - 0 = Length - 1
    BY NodeIdAssumption
  <2> QED
    BY <1>1, <1>3, <2>1, IndexFacts
<1>5. ASSUME NEW n \in 1 .. Length - 1, n - 1 \in T PROVE n \in T
  <2>1. PICK i : i = Length - 1 - (n - 1)
    OBVIOUS
  <2>2. i \in 1 .. Length - 1 /\ Length - 1 - n = i - 1 /\ n - 1 \in Nat /\ (n - 1) + 1 = n
    BY <2>1, NodeIdAssumption
  <2>3. PICK b \in Nat \ {0} : b = P[n - 1]
    BY <1>1, <2>2
  <2>4. P[n] = b * Base
    <3>1. P[n] = Base * b
      BY <1>1, <2>2, <2>3
    <3> QED
      BY <3>1, BaseFacts
  <2>5. V \div (b * Base) = (V \div b) \div Base
    BY DivDiv, BaseFacts
  <2>6. V \div b = X[i]
    BY <1>5, <2>1, <2>3
  <2>7. PICK a \in 0 .. Base - 1, l \in Nat : a = x[i] /\ l = X[i - 1]
    <3>1. i \in Index /\ i - 1 \in Index
      BY <2>2, IndexFacts
    <3>2. x[i] \in 0 .. Base - 1 /\ X[i - 1] \in Nat
      BY <1>2, <3>1 DEF NodeID
    <3> QED
      BY <3>2
  <2>8. X[i] = Base * l + a
    <3>1. X[i] = a + Base * l
      BY <1>2, <2>2, <2>7
    <3>2. Base * l \in Nat
      BY BaseFacts
    <3> QED
      BY <3>1, <3>2
  <2>9. (Base * l + a) \div Base = l
    BY Unique, BaseFacts
  <2>10. V \div P[n] = X[Length - 1 - n]
    BY <2>2, <2>4, <2>5, <2>6, <2>7, <2>8, <2>9
  <2> QED
    BY <2>10, IndexFacts
<1> HIDE DEF T
<1>6. m \in T
  BY <1>4, <1>5, OverBytes DEF Index
<1> QED
  BY <1>3, <1>6 DEF T, P, X

\* An id moved by o whole bytes, with zeros in front.
Moved(x, o) == [i \in Index |-> IF i < o THEN 0 ELSE x[i - o]]

\* It stands for the leading bytes that are left, a quotient.
LEMMA MovedIsQuotient ==
  ASSUME NEW x \in NodeID, NEW o \in Index
  PROVE  /\ Moved(x, o) \in NodeID
         /\ Value(Moved(x, o)) = Value(x) \div Power(Base)[o]
<1>1. PICK z : z = Moved(x, o)
  OBVIOUS
<1>2. o \in Nat /\ o < Length
  BY NodeIdAssumption DEF Index
<1>3. \A i \in Index : i >= o => i - o \in Index
  BY <1>2, NodeIdAssumption DEF Index
<1>4. z = [i \in Index |-> IF i < o THEN 0 ELSE x[i - o]]
  BY <1>1 DEF Moved
<1>5. z \in NodeID
  BY <1>2, <1>3, <1>4, IndexFacts, BaseFacts DEF NodeID
<1> DEFINE X == Leading(x)
           Z == Leading(z)
<1>6. X \in [Index -> Nat] /\ X[0] = x[0] /\ \A i \in 1 .. Length - 1 : X[i] = x[i] + Base * X[i - 1]
  BY LeadingFacts
<1>7. Z \in [Index -> Nat] /\ Z[0] = z[0] /\ \A i \in 1 .. Length - 1 : Z[i] = z[i] + Base * Z[i - 1]
  BY <1>5, LeadingFacts
<1> HIDE DEF X, Z
<1> DEFINE T == {i \in Index : Z[i] = IF i < o THEN 0 ELSE X[i - o]}
<1>8. 0 \in T
  <2>1. CASE 0 < o
    BY <1>4, <1>7, <2>1, IndexFacts
  <2>2. CASE o = 0
    BY <1>4, <1>6, <1>7, <2>2, IndexFacts
  <2> QED
    BY <1>2, <2>1, <2>2
<1>9. ASSUME NEW i \in 1 .. Length - 1, i - 1 \in T PROVE i \in T
  <2>1. i \in Index /\ i - 1 \in Index /\ Z[i] = z[i] + Base * Z[i - 1]
    BY <1>7, IndexFacts
  <2>2. CASE i < o
    <3>1. z[i] = 0 /\ Z[i - 1] = 0
      BY <1>2, <1>4, <1>9, <2>1, <2>2
    <3> QED
      BY <2>1, <2>2, <3>1, BaseFacts
  <2>3. CASE i = o
    <3>1. z[i] = x[0] /\ Z[i - 1] = 0
      BY <1>2, <1>4, <1>9, <2>1, <2>3
    <3>2. Z[i] = x[0]
      BY <2>1, <3>1, BaseFacts, BytesFacts, IndexFacts
    <3> QED
      BY <1>2, <1>6, <2>1, <2>3, <3>2
  <2>4. CASE i > o
    <3>1. PICK k : k = i - o
      OBVIOUS
    <3>2. k \in 1 .. Length - 1 /\ (i - 1) - o = k - 1 /\ ~(i < o) /\ ~(i - 1 < o)
      BY <1>2, <2>4, <3>1, NodeIdAssumption
    <3>3. z[i] = x[k] /\ Z[i - 1] = X[k - 1]
      BY <1>4, <1>9, <2>1, <3>1, <3>2
    <3>4. Z[i] = X[k]
      BY <1>6, <2>1, <3>2, <3>3
    <3> QED
      BY <2>1, <3>1, <3>2, <3>4
  <2> QED
    BY <1>2, <2>2, <2>3, <2>4
<1> HIDE DEF T
<1>10. Length - 1 \in T
  BY <1>8, <1>9, OverBytes, IndexFacts
<1>11. Z[Length - 1] = X[Length - 1 - o]
  BY <1>2, <1>10, NodeIdAssumption DEF T
<1>12. Value(x) \div Power(Base)[o] = Leading(x)[Length - 1 - o]
  BY LeadingIsQuotient DEF Index
<1> QED
  BY <1>1, <1>5, <1>11, <1>12 DEF Value, X, Z

\* What a shift writes is what a shift of the moved id within its bytes would.
LEMMA ShiftMoves ==
  ASSUME NEW x \in NodeID, NEW o \in Index, NEW b \in 0 .. Bits - 1,
         NEW f \in Nat, f \div Bits = o, f % Bits = b
  PROVE  /\ Written(ShiftRight(x, f), o) = ShiftRight(Moved(x, o), b)
         /\ \A i \in Index : i < o => ShiftRight(x, f)[i] = x[i]
<1>1. PICK P \in Nat \ {0}, Q \in Nat \ {0} : P = Power(2)[b] /\ Q = Power(2)[Bits - b]
  BY ShiftFacts
<1>2. b \div Bits = 0 /\ b % Bits = b
  <2>1. Bits \in Nat \ {0} /\ b \in 0 .. Bits - 1 /\ Bits * 0 + b = b
    BY NodeIdAssumption
  <2> QED
    BY <2>1, Unique
<1>3. PICK z : z = Moved(x, o)
  OBVIOUS
<1>4. o \in Nat /\ o < Length
  BY NodeIdAssumption DEF Index
<1>5. z = [i \in Index |-> IF i < o THEN 0 ELSE x[i - o]]
  BY <1>3 DEF Moved
<1>6. PICK s : s = ShiftRight(x, f)
  OBVIOUS
<1>7. s = [i \in Index |-> IF i < o THEN x[i]
                           ELSE IF i = o THEN x[0] \div P
                           ELSE (x[i - o] \div P) + ((x[i - o - 1] * Q) % Base)]
  BY <1>1, <1>6 DEF ShiftRight
<1>8. PICK t : t = ShiftRight(z, b)
  OBVIOUS
<1>9. t = [i \in Index |-> IF i < 0 THEN z[i]
                           ELSE IF i = 0 THEN z[0] \div P
                           ELSE (z[i - 0] \div P) + ((z[i - 0 - 1] * Q) % Base)]
  BY <1>1, <1>2, <1>8 DEF ShiftRight
<1>10. 0 \div P = 0 /\ (0 * Q) % Base = 0
  <2>1. P * 0 + 0 = 0 /\ Base * 0 + 0 = 0 /\ 0 * Q = 0 /\ 0 \in 0 .. P - 1 /\ 0 \in 0 .. Base - 1
    BY BaseFacts
  <2>2. 0 \div P = 0
    BY <2>1, Unique
  <2>3. 0 % Base = 0
    BY <2>1, Unique, BaseFacts
  <2> QED
    BY <2>1, <2>2, <2>3
<1>11. ASSUME NEW i \in Index PROVE Written(s, o)[i] = t[i]
  <2>1. i \in Nat /\ Written(s, o)[i] = IF i < o THEN 0 ELSE s[i]
    BY IndexFacts DEF Written
  <2>2. i # 0 => i - 1 \in Index /\ t[i] = (z[i] \div P) + ((z[i - 1] * Q) % Base)
    BY <1>9, <2>1, IndexFacts
  <2>3. i = 0 => t[i] = z[0] \div P
    BY <1>9
  <2>4. CASE i < o
    <3>1. z[i] = 0 /\ (i # 0 => z[i - 1] = 0)
      BY <1>4, <1>5, <2>1, <2>2, <2>4
    <3> QED
      BY <1>10, <2>1, <2>2, <2>3, <2>4, <3>1
  <2>5. CASE i = o
    <3>1. z[i] = x[0] /\ (i # 0 => z[i - 1] = 0) /\ s[i] = x[0] \div P
      BY <1>4, <1>5, <1>7, <2>1, <2>2, <2>5
    <3>2. x[0] \div P \in Nat
      BY BytesFacts, IndexFacts, DivNat
    <3> QED
      BY <1>10, <2>1, <2>2, <2>3, <2>5, <3>1, <3>2
  <2>6. CASE i > o
    <3>1. i # 0 /\ ~(i < o) /\ ~(i - 1 < o) /\ i # o /\ (i - 1) - o = i - o - 1
      BY <1>4, <2>1, <2>6
    <3>2. z[i] = x[i - o] /\ z[i - 1] = x[i - o - 1]
      BY <1>5, <2>2, <3>1
    <3>3. s[i] = (x[i - o] \div P) + ((x[i - o - 1] * Q) % Base)
      BY <1>7, <3>1
    <3> QED
      BY <2>1, <2>2, <3>1, <3>2, <3>3
  <2> QED
    BY <1>4, <2>1, <2>4, <2>5, <2>6
<1>12. Written(s, o) = t
  <2>1. Written(s, o) = [i \in Index |-> Written(s, o)[i]] /\ t = [i \in Index |-> t[i]]
    BY <1>9 DEF Written
  <2> QED
    BY <1>11, <2>1
<1> QED
  BY <1>3, <1>6, <1>7, <1>8, <1>12

\* A shift divides as far as it writes.
LEMMA ShiftIsQuotient ==
  ASSUME NEW x \in NodeID, NEW f \in 0 .. Bits * Length - 1
  PROVE  /\ Value(Written(ShiftRight(x, f), f \div Bits)) = Value(x) \div Power(2)[f]
         /\ \A i \in Index : i < f \div Bits => ShiftRight(x, f)[i] = x[i]
<1>1. Bits \in Nat \ {0} /\ f \in Nat
  BY NodeIdAssumption
<1>2. PICK o \in Nat, b \in 0 .. Bits - 1 : o = f \div Bits /\ b = f % Bits /\ f = Bits * o + b
  <2>1. f \div Bits \in Nat /\ f % Bits \in 0 .. Bits - 1 /\ f = Bits * (f \div Bits) + (f % Bits)
    BY <1>1, DivNat, DivMod
  <2> QED
    BY <2>1
<1>3. o \in Index
  <2>1. Bits * o < Bits * Length
    BY <1>1, <1>2, NodeIdAssumption
  <2>2. o >= Length => Bits * o >= Bits * Length
    BY <1>1, NodeIdAssumption
  <2> QED
    BY <2>1, <2>2, NodeIdAssumption DEF Index
<1>4. PICK z \in NodeID : z = Moved(x, o) /\ Value(z) = Value(x) \div Power(Base)[o]
  BY <1>3, MovedIsQuotient
<1>5. Value(ShiftRight(z, b)) = Value(z) \div Power(2)[b]
  BY ShiftDivides
<1>6. PICK v \in Nat : v = Value(x)
  BY ValueFacts
<1>7. Power(Base)[o] = Power(2)[Bits * o] /\ Bits * o \in Nat /\ b \in Nat
  BY <1>1, PowerOfBase
<1>8. PICK c \in Nat : c = Bits * o
  BY <1>7
<1>9. Power(2)[c] \in Nat \ {0} /\ Power(2)[b] \in Nat \ {0} /\ Power(2)[c + b] = Power(2)[c] * Power(2)[b]
  <2>1. \A m \in Nat, n \in Nat : Power(2)[m + n] = Power(2)[m] * Power(2)[n]
    BY PowerOfSum
  <2>2. \A n \in Nat : Power(2)[n] \in Nat \ {0}
    BY PowerFacts
  <2> QED
    BY <1>7, <2>1, <2>2
<1>10. (v \div Power(2)[c]) \div Power(2)[b] = v \div (Power(2)[c] * Power(2)[b])
  BY <1>9, DivDiv
<1>11. Value(ShiftRight(z, b)) = v \div Power(2)[f]
  BY <1>2, <1>4, <1>5, <1>6, <1>7, <1>8, <1>9, <1>10
<1>12. /\ Written(ShiftRight(x, f), o) = ShiftRight(z, b)
       /\ \A i \in Index : i < o => ShiftRight(x, f)[i] = x[i]
  <2>1. f \div Bits = o /\ f % Bits = b
    BY <1>2
  <2>2. Written(ShiftRight(x, f), o) = ShiftRight(Moved(x, o), b)
    BY ONLY <1>1, <1>3, <2>1, ShiftMoves
  <2>3. \A i \in Index : i < o => ShiftRight(x, f)[i] = x[i]
    BY <2>1 DEF ShiftRight
  <2> QED
    BY <1>4, <2>2, <2>3
<1> QED
  BY <1>2, <1>6, <1>11, <1>12

\* All bits of a number down to the bit j of byte i: they agree in two ids if the bytes
\* before i do, and the upper bits of byte i.
LEMMA LeadingAgrees ==
  ASSUME NEW x \in NodeID, NEW y \in NodeID, NEW i \in Index, NEW j \in 0 .. Bits - 1
  PROVE  Leading(x)[i] \div Power(2)[j] = Leading(y)[i] \div Power(2)[j]
           <=> /\ \A k \in 0 .. i - 1 : x[k] = y[k]
               /\ Upper(x[i], Bits - j) = Upper(y[i], Bits - j)
<1> DEFINE X == Leading(x)
<1> DEFINE Y == Leading(y)
<1>1. /\ X \in [Index -> Nat] /\ Y \in [Index -> Nat] /\ X[0] = x[0] /\ Y[0] = y[0]
      /\ \A k \in 1 .. Length - 1 : X[k] = x[k] + Base * X[k - 1] /\ Y[k] = y[k] + Base * Y[k - 1]
  BY LeadingFacts
<1>2. \A k \in Index : X[k] = Y[k] <=> \A l \in 0 .. k : x[l] = y[l]
  BY LeadingDecides
<1> HIDE DEF X, Y
<1>3. PICK P \in Nat \ {0}, Q \in Nat \ {0} : P = Power(2)[j] /\ Q = Power(2)[Bits - j]
  BY ShiftFacts
<1>4. Base = P * Q
  BY <1>3, ShiftFacts
<1>5. \A c : Upper(c, Bits - j) = c \div P
  <2>1. Bits - (Bits - j) = j
    BY NodeIdAssumption
  <2> QED
    BY <1>3, <2>1 DEF Upper
<1>6. CASE i = 0
  <2>1. 0 .. i - 1 = {}
    BY <1>6
  <2> QED
    BY <1>1, <1>3, <1>5, <1>6, <2>1 DEF X, Y
<1>7. CASE i \in 1 .. Length - 1
  <2>1. PICK a \in Nat, b \in Nat, l \in Nat, m \in Nat :
          /\ a = x[i] /\ b = y[i] /\ a < P * Q /\ b < P * Q
          /\ l = X[i - 1] /\ m = Y[i - 1]
    <3>1. x[i] \in Nat /\ y[i] \in Nat /\ x[i] < P * Q /\ y[i] < P * Q
      BY <1>4, BytesFacts
    <3>2. X[i - 1] \in Nat /\ Y[i - 1] \in Nat
      BY <1>1, <1>7, IndexFacts
    <3> QED
      BY <3>1, <3>2
  <2>2. ASSUME NEW c \in Nat, NEW u \in Nat, c < P * Q
        PROVE  /\ c \div P \in 0 .. Q - 1
               /\ (c + Base * u) \div P = Q * u + (c \div P)
    <3>1. c \div P \in Nat /\ c \div P < Q
      BY <2>2, RightPart
    <3>2. c % P \in Nat /\ c % P < P /\ c = P * (c \div P) + (c % P)
      BY DivMod
    <3>3. PICK q \in Nat, r \in 0 .. P - 1 : q = c \div P /\ r = c % P
      BY <3>1, <3>2
    <3>4. PICK w \in Nat : w = Q * u + q
      OBVIOUS
    <3>5. c + Base * u = P * w + r
      <4>1. Base * u = P * (Q * u)
        BY <1>4
      <4>2. P * (Q * u + q) = P * (Q * u) + P * q
        OBVIOUS
      <4>3. PICK s \in Nat, t \in Nat : s = P * (Q * u) /\ t = P * q
        OBVIOUS
      <4>4. c = t + r
        BY <3>2, <3>3, <4>3
      <4> QED
        BY <3>4, <4>1, <4>2, <4>3, <4>4
    <3>6. (P * w + r) \div P = w
      BY Unique
    <3>7. (c + Base * u) \div P = w
      BY <3>5, <3>6
    <3>8. q \in 0 .. Q - 1
      BY <3>1, <3>3
    <3> QED
      BY <3>3, <3>4, <3>7, <3>8
  <2>3. X[i] = a + Base * l /\ Y[i] = b + Base * m
    BY <1>1, <1>7, <2>1
  <2>4. PICK ah \in 0 .. Q - 1, bh \in 0 .. Q - 1 : ah = a \div P /\ bh = b \div P
    BY <2>1, <2>2
  <2>5. X[i] \div P = Q * l + ah /\ Y[i] \div P = Q * m + bh
    <3>1. (a + Base * l) \div P = Q * l + (a \div P)
      BY <2>1, <2>2
    <3>2. (b + Base * m) \div P = Q * m + (b \div P)
      BY <2>1, <2>2
    <3> QED
      BY <2>3, <2>4, <3>1, <3>2
  <2>6. (Q * l + ah) \div Q = l /\ (Q * l + ah) % Q = ah
    BY Unique
  <2>7. (Q * m + bh) \div Q = m /\ (Q * m + bh) % Q = bh
    BY Unique
  <2>8. X[i] \div P = Y[i] \div P <=> l = m /\ ah = bh
    BY <2>5, <2>6, <2>7
  <2>9. l = m <=> \A k \in 0 .. i - 1 : x[k] = y[k]
    BY <1>2, <1>7, <2>1, IndexFacts
  <2>10. ah = bh <=> Upper(x[i], Bits - j) = Upper(y[i], Bits - j)
    BY <1>5, <2>1, <2>4
  <2> QED
    BY <1>3, <2>8, <2>9, <2>10 DEF X, Y
<1> QED
  BY <1>6, <1>7, IndexFacts

\* The exclusive or of two ids is an id.
LEMMA ExclusiveOrIsId ==
  ASSUME NEW x \in NodeID, NEW y \in NodeID
  PROVE  /\ ExclusiveOr(x, y) \in NodeID
         /\ \A i \in Index : ExclusiveOr(x, y)[i] = ByteXor(x[i], y[i])
<1>1. \A i \in Index : x[i] \in 0 .. Base - 1 /\ y[i] \in 0 .. Base - 1
  BY DEF NodeID
<1>2. \A i \in Index : ByteXor(x[i], y[i]) \in 0 .. Base - 1
  BY <1>1, ByteXorFacts
<1> QED
  BY <1>2 DEF ExclusiveOr, NodeID

\* Two distances from an id agree in their upper bits exactly if the other ids do.
LEMMA DistancesAgree ==
  ASSUME NEW x \in NodeID, NEW y \in NodeID, NEW z \in NodeID, NEW n \in 0 .. Bits * Length
  PROVE  Value(ExclusiveOr(x, y)) \div Power(2)[n] = Value(ExclusiveOr(x, z)) \div Power(2)[n]
           <=> Value(y) \div Power(2)[n] = Value(z) \div Power(2)[n]
<1>1. PICK d \in NodeID, e \in NodeID : d = ExclusiveOr(x, y) /\ e = ExclusiveOr(x, z)
  BY ExclusiveOrIsId
<1>2. CASE n = Bits * Length
  <2>1. Power(2)[n] = Modulus
    BY <1>2, PowerOfBase, NodeIdAssumption DEF Modulus
  <2>2. ASSUME NEW v \in NodeID PROVE Value(v) \div Modulus = 0
    <3>1. Value(v) \in 0 .. Modulus - 1 /\ Modulus * 0 + Value(v) = Value(v)
      BY ValueFacts, BaseFacts
    <3>2. (Modulus * 0 + Value(v)) \div Modulus = 0
      BY <3>1, Unique, BaseFacts
    <3> QED
      BY <3>1, <3>2
  <2> QED
    BY <1>1, <2>1, <2>2
<1>3. CASE n # Bits * Length
  <2>1. n \div Bits \in Nat /\ n % Bits \in 0 .. Bits - 1 /\ n = Bits * (n \div Bits) + (n % Bits)
    BY DivNat, DivMod, NodeIdAssumption
  <2>2. PICK m \in Nat, j \in 0 .. Bits - 1 : n = Bits * m + j
    BY <2>1
  <2>3. m \in 0 .. Length - 1
    <3>1. Bits * m < Bits * Length
      <4>1. n < Bits * Length
        BY <1>3, NodeIdAssumption
      <4>2. Bits * m \in Nat
        BY NodeIdAssumption
      <4> QED
        BY <2>2, <4>1, <4>2, NodeIdAssumption
    <3>2. CASE m >= Length
      <4>1. Bits * m >= Bits * Length
        BY <3>2, NodeIdAssumption
      <4> QED
        BY <3>1, <4>1, NodeIdAssumption
    <3> QED
      BY <3>2, NodeIdAssumption
  <2>4. PICK P \in Nat \ {0}, Q \in Nat \ {0} : P = Power(Base)[m] /\ Q = Power(2)[j]
    <3>1. Power(Base)[m] \in Nat \ {0}
      BY PowerFacts, BaseFacts
    <3>2. Power(2)[j] \in Nat \ {0}
      BY ShiftFacts
    <3> QED
      BY <3>1, <3>2
  <2>5. Power(2)[n] = P * Q
    <3>1. PICK k \in Nat : k = Bits * m
      BY NodeIdAssumption
    <3>2. \A a \in Nat, b \in Nat : Power(2)[a + b] = Power(2)[a] * Power(2)[b]
      BY PowerOfSum
    <3>3. Power(2)[k + j] = Power(2)[k] * Power(2)[j]
      BY <3>2
    <3> QED
      BY <2>2, <2>4, <3>1, <3>3, PowerOfBase
  <2>6. PICK i \in Index : i = Length - 1 - m
    BY <2>3, NodeIdAssumption DEF Index
  <2>7. ASSUME NEW v \in NodeID
        PROVE  Value(v) \div Power(2)[n] = Leading(v)[i] \div Power(2)[j]
    <3>1. Value(v) \div P = Leading(v)[i]
      BY <2>3, <2>4, <2>6, LeadingIsQuotient
    <3>2. PICK w \in Nat : w = Value(v)
      BY ValueFacts
    <3>3. w \div (P * Q) = (w \div P) \div Q
      BY DivDiv
    <3> QED
      BY <2>4, <2>5, <3>1, <3>2, <3>3
  <2>8. \A k \in Index : x[k] \in 0 .. Base - 1 /\ y[k] \in 0 .. Base - 1 /\ z[k] \in 0 .. Base - 1
    BY DEF NodeID
  <2>9. \A k \in Index : d[k] = ByteXor(x[k], y[k]) /\ e[k] = ByteXor(x[k], z[k])
    BY <1>1, ExclusiveOrIsId
  <2>10. ASSUME NEW k \in Index, NEW b \in 0 .. Bits
         PROVE  Upper(d[k], b) = Upper(e[k], b) <=> Upper(y[k], b) = Upper(z[k], b)
    BY <2>8, <2>9, ByteXorAgrees
  <2>11. ASSUME NEW k \in Index PROVE d[k] = e[k] <=> y[k] = z[k]
    <3>1. d[k] \in 0 .. Base - 1 /\ e[k] \in 0 .. Base - 1
      BY DEF NodeID
    <3>2. Bits \in 0 .. Bits
      BY NodeIdAssumption
    <3> QED
      BY <2>8, <2>10, <3>1, <3>2, UpperFacts
  <2>12. Leading(d)[i] \div Power(2)[j] = Leading(e)[i] \div Power(2)[j]
           <=> Leading(y)[i] \div Power(2)[j] = Leading(z)[i] \div Power(2)[j]
    <3>1. 0 .. i - 1 \subseteq Index /\ Bits - j \in 0 .. Bits
      BY NodeIdAssumption DEF Index
    <3>2. (\A k \in 0 .. i - 1 : d[k] = e[k]) <=> (\A k \in 0 .. i - 1 : y[k] = z[k])
      BY <2>11, <3>1
    <3>3. Upper(d[i], Bits - j) = Upper(e[i], Bits - j) <=> Upper(y[i], Bits - j) = Upper(z[i], Bits - j)
      BY <2>10, <3>1
    <3> QED
      BY <3>2, <3>3, LeadingAgrees
  <2> QED
    BY <1>1, <2>7, <2>12
<1> QED
  BY <1>2, <1>3

\* The distance of two ids is zero if they are one.
LEMMA ExclusiveOrZero ==
  ASSUME NEW x \in NodeID, NEW y \in NodeID
  PROVE  Value(ExclusiveOr(x, y)) = 0 <=> x = y
<1>1. \A i \in Index : x[i] \in 0 .. Base - 1 /\ y[i] \in 0 .. Base - 1
  BY DEF NodeID
<1>2. PICK d \in NodeID : d = ExclusiveOr(x, y)
  BY ExclusiveOrIsId
<1>3. \A i \in Index : d[i] = 0 <=> x[i] = y[i]
  BY <1>1, <1>2, ExclusiveOrIsId, ByteXorZero
<1>4. Value(d) = 0 <=> d = NullNodeID
  BY ValueDecides, NullIsZero
<1>5. d = NullNodeID <=> \A i \in Index : d[i] = 0
  <2>1. d = [i \in Index |-> d[i]]
    BY DEF NodeID
  <2> QED
    BY <2>1 DEF NullNodeID
<1>6. x = y <=> \A i \in Index : x[i] = y[i]
  <2>1. x = [i \in Index |-> x[i]] /\ y = [i \in Index |-> y[i]]
    BY DEF NodeID
  <2>2. ASSUME \A i \in Index : x[i] = y[i] PROVE [i \in Index |-> x[i]] = [i \in Index |-> y[i]]
    BY <2>2
  <2> QED
    BY <2>1, <2>2
<1> QED
  BY <1>2, <1>3, <1>4, <1>5, <1>6

\* The distance of two ids is the same from both.
LEMMA ExclusiveOrSymmetric ==
  ASSUME NEW x \in NodeID, NEW y \in NodeID
  PROVE  ExclusiveOr(x, y) = ExclusiveOr(y, x)
<1>1. \A i \in Index : x[i] \in 0 .. Base - 1 /\ y[i] \in 0 .. Base - 1
  BY DEF NodeID
<1>2. \A i \in Index : ByteXor(x[i], y[i]) = ByteXor(y[i], x[i])
  BY <1>1, ByteXorSymmetric
<1> QED
  BY <1>2 DEF ExclusiveOr

\* The numbers that stand for ids, the distance as the function of them that the other modules take as their
\* constant Dist, and the widths that buckets and blocks may have.
Number == 0 .. Modulus - 1
XorDist == [t \in Number |-> [a \in Number |-> Value(ExclusiveOr(BytesOf(t), BytesOf(a)))]]
PowersOfTwo == {Power(2)[n] : n \in 0 .. Bits * Length}

\* Every number below Modulus is that of an id.
LEMMA NumberIsValue ==
  ASSUME NEW d \in Number
  PROVE  BytesOf(d) \in NodeID /\ Value(BytesOf(d)) = d
<1>1. d \in Nat /\ d < Modulus
  BY BaseFacts DEF Number
<1>2. PICK v \in Nat, q \in Nat : v = Value(BytesOf(d)) /\ d = v + q * Modulus
  BY <1>1, BytesOfFacts, ValueFacts
<1>3. q = 0
  <2>1. CASE q >= 1
    <3>1. q * Modulus >= 1 * Modulus
      BY <2>1, BaseFacts
    <3>2. q * Modulus \in Nat /\ 1 * Modulus = Modulus
      BY BaseFacts
    <3> QED
      BY <1>1, <1>2, <3>1, <3>2, BaseFacts
  <2> QED
    BY <2>1
<1>4. q * Modulus = 0
  BY <1>3, BaseFacts
<1> QED
  BY <1>1, <1>2, <1>4, BytesOfFacts

\* What the routing table, the searches and the store assume of ids and distances, RoutingTableAssumption
\* and DistAssumption, holds of ids of any length with their exclusive or: the id space is as large as a power of
\* two, no two ids tie, an id is at distance 0 from itself, and cutting low bits off two
\* distances leaves them equal exactly if it leaves the ids equal.
THEOREM XorMeetsAssumptions ==
  /\ Modulus \in PowersOfTwo /\ PowersOfTwo \subseteq Nat \ {0}
  /\ \A w \in PowersOfTwo : w = 1 \/ (w % 2 = 0 /\ w \div 2 \in PowersOfTwo)
  /\ XorDist \in [Number -> [Number -> Nat]]
  /\ \A t, a, b \in Number : XorDist[t][a] = XorDist[t][b] => a = b
  /\ \A t \in Number : XorDist[t][t] = 0
  /\ \A w \in PowersOfTwo : \A t, a, b \in Number :
       XorDist[t][a] \div w = XorDist[t][b] \div w <=> a \div w = b \div w
<1>1. Bits * Length \in Nat
  BY NodeIdAssumption
<1>2. Modulus \in PowersOfTwo
  <2>1. Modulus = Power(2)[Bits * Length]
    BY PowerOfBase, NodeIdAssumption DEF Modulus
  <2> QED
    BY <1>1, <2>1 DEF PowersOfTwo
<1>3. \A n \in Nat : Power(2)[n] \in Nat \ {0} /\ Power(2)[n + 1] = 2 * Power(2)[n]
  BY PowerFacts
<1>4. Power(2)[0] = 1
  BY PowerFacts
<1>5. PowersOfTwo \subseteq Nat \ {0}
  BY <1>3 DEF PowersOfTwo
<1>6. ASSUME NEW w \in PowersOfTwo PROVE w = 1 \/ (w % 2 = 0 /\ w \div 2 \in PowersOfTwo)
  <2>1. PICK n \in 0 .. Bits * Length : w = Power(2)[n]
    BY DEF PowersOfTwo
  <2>2. CASE n = 0
    BY <1>4, <2>1, <2>2
  <2>3. CASE n # 0
    <3>1. n - 1 \in Nat /\ n - 1 \in 0 .. Bits * Length /\ (n - 1) + 1 = n
      BY <1>1, <2>3
    <3>2. PICK u \in Nat : u = Power(2)[n - 1]
      BY <1>3, <3>1
    <3>3. w = 2 * u
      BY <1>3, <2>1, <3>1, <3>2
    <3>4. w % 2 = 0 /\ w \div 2 = u
      BY <3>3
    <3> QED
      BY <3>1, <3>2, <3>4 DEF PowersOfTwo
  <2> QED
    BY <2>2, <2>3
<1>7. ASSUME NEW t \in Number, NEW a \in Number
      PROVE  XorDist[t][a] = Value(ExclusiveOr(BytesOf(t), BytesOf(a))) /\ XorDist[t][a] \in Nat
  <2>1. Value(ExclusiveOr(BytesOf(t), BytesOf(a))) \in Nat
    BY NumberIsValue, ExclusiveOrIsId, ValueFacts
  <2> QED
    BY <2>1 DEF XorDist
<1>8. XorDist \in [Number -> [Number -> Nat]]
  BY <1>7 DEF XorDist
<1>9. \A t \in Number : XorDist[t][t] = 0
  BY <1>7, NumberIsValue, ExclusiveOrZero
<1>10. ASSUME NEW n \in 0 .. Bits * Length, NEW t \in Number, NEW a \in Number, NEW b \in Number
       PROVE  XorDist[t][a] \div Power(2)[n] = XorDist[t][b] \div Power(2)[n]
                <=> a \div Power(2)[n] = b \div Power(2)[n]
  <2>1. PICK x \in NodeID, y \in NodeID, z \in NodeID : x = BytesOf(t) /\ y = BytesOf(a) /\ z = BytesOf(b)
    BY NumberIsValue
  <2>2. Value(y) = a /\ Value(z) = b
    BY <2>1, NumberIsValue
  <2> QED
    BY <1>7, <2>1, <2>2, DistancesAgree
<1>11. \A w \in PowersOfTwo : \A t, a, b \in Number :
         XorDist[t][a] \div w = XorDist[t][b] \div w <=> a \div w = b \div w
  BY <1>10 DEF PowersOfTwo
<1>12. ASSUME NEW t \in Number, NEW a \in Number, NEW b \in Number, XorDist[t][a] = XorDist[t][b]
       PROVE  a = b
  <2>1. 0 \in 0 .. Bits * Length
    BY <1>1
  <2>2. a \div 1 = b \div 1
    BY <1>4, <1>10, <1>12, <2>1
  <2>3. a \in Nat /\ b \in Nat
    BY DEF Number
  <2> QED
    BY <2>2, <2>3
<1> QED
  BY <1>2, <1>5, <1>6, <1>8, <1>9, <1>11, <1>12

-----------------------------------------------------------------------------
(* The theorems                                                            *)

\* Adding an integer wraps, whether or not the integer fits an id.
LEMMA PlusIntIsSum ==
  ASSUME NEW x \in NodeID, NEW d \in Nat
  PROVE  /\ Plus(x, BytesOf(d)) \in NodeID
         /\ Value(Plus(x, BytesOf(d))) = (Value(x) + d) % Modulus
<1>1. PICK b \in NodeID : b = BytesOf(d)
  BY BytesOfFacts
<1>2. PICK q \in Nat : d = Value(b) + q * Modulus
  BY <1>1, BytesOfFacts
<1>3. PICK v \in Nat, w \in Nat, p \in Nat :
        v = Value(x) /\ w = Value(b) /\ p = Value(Plus(x, b)) /\ p < Modulus
  BY PlusIsSum, ValueFacts
<1>4. p = (v + w) % Modulus
  BY <1>3, PlusIsSum
<1>5. (v + w) \div Modulus \in Nat /\ v + w = Modulus * ((v + w) \div Modulus) + ((v + w) % Modulus)
  BY DivNat, DivMod, BaseFacts
<1>6. PICK c \in Nat : v + w = Modulus * c + p
  BY <1>4, <1>5
<1>7. v + d = p + (c + q) * Modulus
  <2>1. (c + q) * Modulus = Modulus * c + q * Modulus
    BY BaseFacts
  <2>2. PICK k \in Nat, l \in Nat : k = Modulus * c /\ l = q * Modulus
    BY BaseFacts
  <2> QED
    BY <1>2, <1>3, <1>6, <2>1, <2>2
<1>8. (v + d) % Modulus = p
  <2>1. c + q \in Int /\ v + d \in Int
    OBVIOUS
  <2> QED
    BY <1>3, <1>7, <2>1, Wraps, BaseFacts
<1> QED
  BY <1>1, <1>3, <1>8, PlusIsSum

\* The ids are ids: what the theorems need of a state.
Ids == id \in NodeID /\ was \in NodeID

\* A step applies one operator.
LEMMA StepIsOperator ==
  ASSUME Ids, Next
  PROVE  \/ \E y \in NodeID : PlusAssign(y) \/ MinusAssign(y) \/ XorAssign(y)
         \/ \E d \in Nat : PlusAssignInt(d)
         \/ \E f \in 0 .. Bits * Length - 1 : ShiftAssign(f)
BY BaseFacts DEF Next

\* At first the ids are ids.
LEMMA InitIds == Init => Ids
<1>1. NullNodeID \in NodeID /\ MaxNodeID \in NodeID
  BY BaseFacts DEF NullNodeID, MaxNodeID, NodeID
<1> QED
  BY <1>1 DEF Init, Ids

\* ... and every operator leaves one.
LEMMA NextIds == Ids /\ [Next]_vars => Ids'
<1> SUFFICES ASSUME Ids, [Next]_vars PROVE Ids'
  OBVIOUS
<1>1. CASE UNCHANGED vars
  BY <1>1 DEF Ids, vars
<1>2. ASSUME NEW y \in NodeID, PlusAssign(y) PROVE Ids'
  BY <1>2, PlusIsSum DEF PlusAssign, Assign, Ids
<1>3. ASSUME NEW y \in NodeID, MinusAssign(y) PROVE Ids'
  BY <1>3, MinusIsDifference DEF MinusAssign, Assign, Ids
<1>4. ASSUME NEW y \in NodeID, XorAssign(y) PROVE Ids'
  BY <1>4, ExclusiveOrIsId DEF XorAssign, Assign, Ids
<1>5. ASSUME NEW d \in Nat, PlusAssignInt(d) PROVE Ids'
  BY <1>5, PlusIntIsSum DEF PlusAssignInt, Assign, Ids
<1>6. ASSUME NEW f \in 0 .. Bits * Length - 1, ShiftAssign(f) PROVE Ids'
  BY <1>6, ShiftRightIsId DEF ShiftAssign, Assign, Ids
<1> QED
  BY <1>1, <1>2, <1>3, <1>4, <1>5, <1>6, StepIsOperator

\* No operator leaves the ids: no carry, borrow or shifted bit makes a byte too large.
THEOREM IdsStayIds == Spec => []Ids
<1> QED
  BY InitIds, NextIds, PTL DEF Spec

\* Sums and differences are those of the numbers, modulo the size of the id space, and a shift by any
\* number of bits divides as far as it writes, for ids of any number of bytes of any width.
THEOREM ArithmeticIsRight == Spec => []ArithmeticIsModular
<1>1. Init => ArithmeticIsModular
  BY DEF Init, ArithmeticIsModular
<1>2. Ids /\ ArithmeticIsModular /\ [Next]_vars => ArithmeticIsModular'
  <2> SUFFICES ASSUME Ids, ArithmeticIsModular, [Next]_vars PROVE ArithmeticIsModular'
    OBVIOUS
  <2>1. CASE UNCHANGED vars
    BY <2>1 DEF ArithmeticIsModular, vars
  <2>2. ASSUME NEW y \in NodeID, PlusAssign(y) PROVE ArithmeticIsModular'
    <3>1. op' = "+=" /\ was' = id /\ arg' = Value(y) /\ id' = Plus(id, y)
      BY <2>2 DEF PlusAssign, Assign
    <3>2. Value(Plus(id, y)) = (Value(id) + Value(y)) % Modulus
      BY PlusIsSum DEF Ids
    <3> QED
      BY <3>1, <3>2 DEF ArithmeticIsModular
  <2>3. ASSUME NEW y \in NodeID, MinusAssign(y) PROVE ArithmeticIsModular'
    <3>1. op' = "-=" /\ was' = id /\ arg' = Value(y) /\ id' = Minus(id, y)
      BY <2>3 DEF MinusAssign, Assign
    <3>2. Value(Minus(id, y)) = (Value(id) - Value(y)) % Modulus
      BY MinusIsDifference DEF Ids
    <3> QED
      BY <3>1, <3>2 DEF ArithmeticIsModular
  <2>4. ASSUME NEW y \in NodeID, XorAssign(y) PROVE ArithmeticIsModular'
    BY <2>4 DEF XorAssign, Assign, ArithmeticIsModular
  <2>5. ASSUME NEW d \in Nat, PlusAssignInt(d) PROVE ArithmeticIsModular'
    <3>1. op' = "+=" /\ was' = id /\ arg' = d /\ id' = Plus(id, BytesOf(d))
      BY <2>5 DEF PlusAssignInt, Assign
    <3>2. Value(Plus(id, BytesOf(d))) = (Value(id) + d) % Modulus
      BY PlusIntIsSum DEF Ids
    <3> QED
      BY <3>1, <3>2 DEF ArithmeticIsModular
  <2>6. ASSUME NEW f \in 0 .. Bits * Length - 1, ShiftAssign(f) PROVE ArithmeticIsModular'
    <3>1. op' = ">>=" /\ was' = id /\ arg' = f /\ id' = ShiftRight(id, f)
      BY <2>6 DEF ShiftAssign, Assign
    <3>2. /\ Value(Written(ShiftRight(id, f), f \div Bits)) = Value(id) \div Power(2)[f]
          /\ \A i \in Index : i < f \div Bits => ShiftRight(id, f)[i] = id[i]
      BY ShiftIsQuotient DEF Ids
    <3> QED
      BY <3>1, <3>2 DEF ArithmeticIsModular
  <2> QED
    BY <2>1, <2>2, <2>3, <2>4, <2>5, <2>6, StepIsOperator
<1> QED
  BY <1>1, <1>2, IdsStayIds, PTL DEF Spec

\* The exclusive or is a distance that orders the ids as numbers: zero for one id only, the same from both
\* ends, and equal in its upper bits exactly where the ids are, for ids of any number of bytes.
THEOREM XorIsRight == Spec => []XorIsADistance
<1>1. Init => XorIsADistance
  BY DEF Init, XorIsADistance
<1>2. Ids /\ XorIsADistance /\ [Next]_vars => XorIsADistance'
  <2> SUFFICES ASSUME Ids, XorIsADistance, [Next]_vars PROVE XorIsADistance'
    OBVIOUS
  <2>1. CASE UNCHANGED vars
    BY <2>1 DEF XorIsADistance, vars
  <2>2. ASSUME NEW z \in NodeID, XorAssign(z) PROVE XorIsADistance'
    <3>1. PICK x \in NodeID : x = id
      BY DEF Ids
    <3>2. op' = "^=" /\ was' = x /\ arg' = Value(z) /\ id' = ExclusiveOr(x, z)
      BY <2>2, <3>1 DEF XorAssign, Assign
    <3>3. PICK e \in NodeID : e = ExclusiveOr(x, z)
      BY ExclusiveOrIsId
    <3>4. Value(e) = 0 <=> Value(x) = Value(z)
      BY <3>3, ExclusiveOrZero, ValueDecides
    <3>5. \A y \in NodeID : Value(y) = Value(z) => ExclusiveOr(y, x) = e
      BY <3>3, ValueDecides, ExclusiveOrSymmetric
    <3>6. \A y \in NodeID : Less(e, y) <=> Value(e) < Value(y)
      BY LessIsSmaller
    <3>7. \A y \in NodeID : \A n \in 0 .. Bits * Length :
            Value(ExclusiveOr(x, y)) \div Power(2)[n] = Value(e) \div Power(2)[n]
              <=> Value(y) \div Power(2)[n] = Value(z) \div Power(2)[n]
      BY <3>3, DistancesAgree
    <3> QED
      BY <3>2, <3>3, <3>4, <3>5, <3>6, <3>7 DEF XorIsADistance
  <2>3. ASSUME \E y \in NodeID : PlusAssign(y) \/ MinusAssign(y) PROVE XorIsADistance'
    BY <2>3 DEF PlusAssign, MinusAssign, Assign, XorIsADistance
  <2>4. ASSUME \E d \in Nat : PlusAssignInt(d) PROVE XorIsADistance'
    BY <2>4 DEF PlusAssignInt, Assign, XorIsADistance
  <2>5. ASSUME \E f \in 0 .. Bits * Length - 1 : ShiftAssign(f) PROVE XorIsADistance'
    BY <2>5 DEF ShiftAssign, Assign, XorIsADistance
  <2> QED
    BY <2>1, <2>2, <2>3, <2>4, <2>5, StepIsOperator
<1> QED
  BY <1>1, <1>2, IdsStayIds, PTL DEF Spec
=============================================================================
