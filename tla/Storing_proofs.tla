--------------------------- MODULE Storing_proofs ---------------------------
(***************************************************************************)
(* The store procedures of a node end truly and leave nothing behind, and  *)
(* the items of its store are always going to be republished, for any      *)
(* items, peers, times to live and number of procedures.                   *)
(*                                                                         *)
(* Procedures and items hardly touch.  ProcInv keeps the books of the      *)
(* procedures: ids not given out are blank, a procedure that searches has  *)
(* heard from nobody, and one that asks has counted those it heard.        *)
(* ItemInv says that an item has the one job it needs.  CopyInv ties them: *)
(* what a procedure hands on was the item's time when it was begun.        *)
(***************************************************************************)
EXTENDS Storing, FiniteSetTheorems, WellFoundedInduction, TLAPS

ItemTypes ==
  /\ alive \in BOOLEAN
  /\ now \in 0 .. MaxTime
  /\ expiration_time \in [Item -> {NotStored} \cup 0 .. Width - 1]
  /\ max_distance \in [Item -> {NotSet} \cup Nat]
  /\ republish \in [Item -> SUBSET Nat]
  /\ removed_contacts \in 0 .. republish_treshhold

ProcTypes ==
  /\ data \in [StoreId -> Datum \cup {NoData}]
  /\ store_requests \in SUBSET StoreId
  /\ store_id_counter \in 0 .. MaxStores
  /\ jobs \in SUBSET (StoreId \X Peer)
  /\ answered \in [StoreId -> SUBSET Peer]
  /\ silent \in [StoreId -> SUBSET Peer]
  /\ calls \in [StoreId -> Nat]
  /\ outcome \in [StoreId -> Code]

RepeatedType == repeated \in {NoRequest} \cup {StoreRequest(i, ttl) : i \in Item, ttl \in Ttl}

\* What the books say of one procedure.
Blank(id) == answered[id] = {} /\ silent[id] = {} /\ outcome[id] = "NONE"

Counted(id) ==
  /\ data[id].nodes \cap (answered[id] \cup silent[id]) = {}
  /\ data[id].succeded > 0 <=> answered[id] # {}
  /\ outcome[id] = "NONE"

Books ==
  \A id \in StoreId :
    /\ id >= store_id_counter => data[id] = NoData /\ Blank(id)
    /\ data[id] = NoData => id \notin store_requests
    /\ data[id] # NoData => Counted(id)
    /\ data[id] # NoData /\ id \notin store_requests => Blank(id)

ItemInv == ItemTypes /\ RepublishIsScheduled
ProcInv == ProcTypes /\ JobsArePending /\ ReportsAreHonest /\ Books

\* A copy handed on when it was asked for would not have outlived the item.
CopyInv ==
  \A id \in StoreId :
    data[id] # NoData /\ data[id].caller = "item" =>
      (data[id].begun + data[id].time_to_live) % Width <= expiration_time[data[id].item]

IInv == ItemInv /\ ProcInv /\ RepeatedType /\ CopyInv

\* The state of AskAll, and a step of it.
Phase == [id \in StoreId |-> IF id \in store_requests THEN "asking"
                             ELSE IF calls[id] > 0 THEN "over" ELSE "unused"]
Waiting == [id \in StoreId |-> data[id].nodes]
AbsStep == [Abs!Next]_(Abs!vars)

-----------------------------------------------------------------------------
(* Facts about data                                                        *)

LEMMA Constants ==
  /\ MaxStores \in Nat /\ MaxTime \in Nat /\ Width \in Nat \ {0} /\ attempts_number \in Nat
  /\ \A id \in StoreId : id \in Nat /\ id < MaxStores
  /\ \A k \in Nat : k < MaxStores => k \in StoreId
  BY StoringAssumption DEF StoreId

\* What is not NoData is a Datum.
LEMMA LiveData ==
  ASSUME ProcTypes, NEW id \in StoreId
  PROVE  /\ data[id] # NoData => data[id] \in Datum
         /\ data[id] \in Datum => data[id] # NoData
         /\ data[id].nodes # {} => data[id] # NoData
         /\ data[id].nodes \in SUBSET Peer
  BY DEF ProcTypes, NoData, Datum

\* Some node of a finite set is farthest.
LEMMA FarthestExists ==
  ASSUME NEW i \in Item, NEW ns \in SUBSET Peer, ns # {}
  PROVE  \E n \in ns : \A m \in ns : Dist[i][m] <= Dist[i][n]
<1> DEFINE beyond(n) == {m \in ns : Dist[i][m] >= Dist[i][n]}
           T == {beyond(n) : n \in ns}
<1>1. IsFiniteSet(ns)
  BY StoringAssumption, FS_Subset
<1>2. \A m \in ns : Dist[i][m] \in Nat
  BY StoringAssumption, DistAssumption
<1>3. T \subseteq FiniteSubsetsOf(ns) /\ T # {}
  <2>1. ASSUME NEW n \in ns PROVE beyond(n) \in FiniteSubsetsOf(ns)
    BY <1>1, FS_Subset DEF FiniteSubsetsOf
  <2> QED
    BY <2>1
<1>4. PICK t \in T : \A u \in T : ~(<<u, t>> \in StrictSubsetOrdering(ns))
  BY <1>1, <1>3, FS_StrictSubsetOrderingWellFounded, WFMin
<1>5. PICK n \in ns : t = beyond(n)
  BY <1>4
<1>6. ASSUME NEW m \in ns, Dist[i][m] > Dist[i][n] PROVE FALSE
  <2>1. beyond(m) \subseteq beyond(n) /\ n \in beyond(n) /\ n \notin beyond(m)
    BY <1>2, <1>6
  <2>2. <<beyond(m), beyond(n)>> \in StrictSubsetOrdering(ns)
    BY <2>1 DEF StrictSubsetOrdering
  <2> QED
    BY <1>4, <1>5, <2>2
<1> QED
  BY <1>2, <1>5, <1>6

\* What DoStore makes of a procedure.
LEMMA AskingType ==
  ASSUME NEW d \in Datum, NEW ns \in SUBSET Peer, ns # {}, NEW single \in BOOLEAN
  PROVE  /\ Asking(d, ns, single) \in Datum
         /\ Asking(d, ns, single).nodes = ns
         /\ Asking(d, ns, single).succeded = d.succeded
         /\ Asking(d, ns, single).item = d.item
<1>1. Radius(d.item, ns) \in Nat
  <2>1. d.item \in Item
    BY DEF Datum
  <2>2. PICK n \in ns : \A m \in ns : Dist[d.item][m] <= Dist[d.item][n]
    BY <2>1, FarthestExists
  <2>3. \A m \in ns : Dist[d.item][m] \in Nat
    BY <2>1, StoringAssumption, DistAssumption
  <2>4. \E r \in {Dist[d.item][m] : m \in ns} : \A m \in ns : Dist[d.item][m] <= r
    BY <2>2
  <2>5. Radius(d.item, ns) \in {Dist[d.item][m] : m \in ns}
    BY <2>4 DEF Radius
  <2> QED
    BY <2>3, <2>5
<1>2. (IF ~single /\ Cardinality(ns) < K THEN MaxNodeID ELSE Radius(d.item, ns)) \in Nat
  BY <1>1, StoringAssumption
<1> QED
  BY <1>2 DEF Asking, Datum

LEMMA CallType ==
  ASSUME NEW i \in Item, NEW ttl \in 0 .. Width - 1, NEW caller \in {"item", "other"},
         now \in 0 .. MaxTime
  PROVE  /\ Call(i, ttl, caller) \in Datum
         /\ Call(i, ttl, caller).nodes = {}
         /\ Call(i, ttl, caller).succeded = 0
  BY StoringAssumption DEF Call, Datum

\* A time that is left is a time to live.
LEMMA RemainingType ==
  ASSUME NEW exp \in Int, now \in Int
  PROVE  Remaining(exp) \in 0 .. Width - 1
  BY StoringAssumption DEF Remaining

\* The time left takes a copy to where the item expires, though it wraps.
LEMMA RemainingReaches ==
  ASSUME NEW exp \in 0 .. Width - 1, now \in Int
  PROVE  (now + Remaining(exp)) % Width = exp
<1> DEFINE a == exp - now
           q == a \div Width
           r == a % Width
<1>1. Width \in Nat \ {0} /\ a \in Int
  BY StoringAssumption
<1>2. a = Width * q + r /\ q \in Int /\ r \in Int
  BY <1>1, SMT
<1>3. now + r = Width * (-q) + exp
  <2> HIDE DEF q, r
  <2>1. Width * (-q) = -(Width * q)
    BY <1>1, <1>2, SMT
  <2> QED
    BY <1>1, <1>2, <2>1
<1>4. (Width * (-q) + exp) % Width = exp
  <2> DEFINE k == -q
  <2>1. k \in Int
    BY <1>2
  <2>2. exp \in Int /\ 0 <= exp /\ exp < Width
    BY <1>1
  <2> HIDE DEF k
  <2>3. (Width * k + exp) % Width = exp
    BY <1>1, <2>1, <2>2, SMT
  <2> QED
    BY <2>3 DEF k
<1> QED
  BY <1>3, <1>4 DEF Remaining

\* The numbers of the items of a set, in the order of their keys, are consecutive.
LEMMA Consecutive ==
  ASSUME NEW S \in SUBSET Item, NEW c \in Nat
  PROVE  /\ Cardinality(S) \in Nat
         /\ {c + Cardinality({j \in S : j < i}) : i \in S} = c .. c + Cardinality(S) - 1
<1> DEFINE before(i) == {j \in S : j < i}
           f == [i \in S |-> c + Cardinality(before(i))]
           T == c .. c + Cardinality(S) - 1
<1>1. S \subseteq Nat /\ IsFiniteSet(S) /\ Cardinality(S) \in Nat
  BY StoringAssumption, FS_Subset, FS_CardinalityType
<1>2. ASSUME NEW i \in S
      PROVE  /\ IsFiniteSet(before(i)) /\ Cardinality(before(i)) \in Nat
             /\ Cardinality(before(i)) < Cardinality(S)
  <2>1. before(i) \in SUBSET S /\ before(i) # S
    BY <1>1
  <2> QED
    BY <1>1, <2>1, FS_Subset, FS_CardinalityType
<1>3. ASSUME NEW i \in S, NEW k \in S, i < k
      PROVE  Cardinality(before(i)) < Cardinality(before(k))
  <2>1. before(i) \in SUBSET before(k) /\ before(i) # before(k)
    <3>1. i \in before(k) /\ i \notin before(i)
      BY <1>1, <1>3
    <3>2. ASSUME NEW j \in before(i) PROVE j \in before(k)
      BY <1>1, <1>3
    <3> HIDE DEF before
    <3> QED
      BY <3>1, <3>2
  <2>2. Cardinality(before(i)) <= Cardinality(before(k))
        /\ Cardinality(before(i)) # Cardinality(before(k))
    BY <1>2, <2>1, FS_Subset
  <2> QED
    BY <1>2, <2>2
<1> HIDE DEF before
<1>4. f \in [S -> T]
  BY <1>1, <1>2
<1>5. \A i, k \in S : f[i] = f[k] => i = k
  BY <1>1, <1>2, <1>3
<1>6. f \in Injection(S, T)
  BY <1>4, <1>5 DEF Injection, IsInjective
<1>7. IsFiniteSet(T) /\ Cardinality(T) = Cardinality(S)
  <2> DEFINE b == c + Cardinality(S) - 1
  <2>1. c \in Int /\ b \in Int
    BY <1>1
  <2> HIDE DEF b
  <2>2. IsFiniteSet(c .. b) /\ Cardinality(c .. b) = IF c > b THEN 0 ELSE b - c + 1
    BY <2>1, FS_Interval
  <2>3. (IF c > b THEN 0 ELSE b - c + 1) = Cardinality(S)
    BY <1>1, <2>1 DEF b
  <2> QED
    BY <2>2, <2>3 DEF b
<1>8. f \in Surjection(S, T)
  <2> HIDE DEF f, T
  <2> QED
    BY <1>1, <1>6, <1>7, FS_Injection
<1>9. {f[i] : i \in S} = T
  BY <1>4, <1>8 DEF Surjection
<1> QED
  BY <1>1, <1>9 DEF before

-----------------------------------------------------------------------------
(* Steps of the procedures                                                 *)

\* JobsArePending, one procedure and one node at a time.
LEMMA PendingIs ==
  ASSUME NEW J \in SUBSET (StoreId \X Peer), NEW R \in SUBSET StoreId, NEW D,
         \A p \in StoreId, n \in Peer : <<p, n>> \in J <=> p \in R /\ n \in D[p].nodes
  PROVE  J = {j \in R \X Peer : j[2] \in D[j[1]].nodes}
<1>1. ASSUME NEW j \in StoreId \X Peer
      PROVE  j \in J <=> j[1] \in R /\ j[2] \in D[j[1]].nodes
  <2>1. PICK p \in StoreId, n \in Peer : j = <<p, n>>
    OBVIOUS
  <2> QED
    BY <2>1
<1> QED
  BY <1>1

\* Nothing happens to any procedure.
LEMMA SameProc ==
  ASSUME ProcInv, UNCHANGED procedures, alive' = alive
  PROVE  ProcInv' /\ AbsStep
<1>1. UNCHANGED <<data, store_requests, store_id_counter, jobs, answered, silent, calls, outcome>>
  BY DEF procedures
<1>2. ProcTypes' /\ JobsArePending' /\ ReportsAreHonest' /\ Books'
  BY <1>1 DEF ProcInv, ProcTypes, JobsArePending, ReportsAreHonest, Books, Blank, Counted
<1> QED
  BY <1>1, <1>2 DEF ProcInv, AbsStep, Abs!vars

\* A search begins.
LEMMA StoreProc ==
  ASSUME ProcInv, NEW i \in Item, NEW ttl \in 0 .. Width - 1, NEW caller \in {"item", "other"},
         Store(i, ttl, caller), alive' = alive, now \in 0 .. MaxTime
  PROVE  ProcInv' /\ AbsStep
<1> DEFINE c == Call(i, ttl, caller)
<1>0. PICK id : id = store_id_counter
  OBVIOUS
<1>1. /\ id \in StoreId /\ id + 1 \in 0 .. MaxStores
      /\ store_id_counter' = id + 1
      /\ data' = [data EXCEPT ![id] = c]
      /\ UNCHANGED <<store_requests, jobs, answered, silent, calls, outcome>>
  BY <1>0, Constants DEF Store, ProcInv, ProcTypes
<1>2. c \in Datum /\ c.nodes = {} /\ c.succeded = 0 /\ c # NoData
  <2>1. c \in Datum /\ c.nodes = {} /\ c.succeded = 0
    BY CallType
  <2> HIDE DEF c
  <2> QED
    BY <2>1 DEF Datum, NoData
<1> HIDE DEF c
<1>3. data \in [StoreId -> Datum \cup {NoData}] /\ data[id] = NoData /\ Blank(id)
      /\ id \notin store_requests
  BY <1>0, <1>1, Constants DEF ProcInv, ProcTypes, Books
<1>4. \A p \in StoreId : data'[p] = IF p = id THEN c ELSE data[p]
  BY <1>1, <1>3
<1>5. ProcTypes'
  BY <1>1, <1>2, <1>3 DEF ProcInv, ProcTypes
<1>6. Books'
  BY <1>0, <1>1, <1>2, <1>3, <1>4, Constants DEF ProcInv, Books, Blank, Counted
<1>7. \A p \in StoreId : data'[p].nodes = data[p].nodes
  <2>1. data[id].nodes = {}
    BY <1>3 DEF NoData
  <2> QED
    BY <1>2, <1>4, <2>1
<1>8. JobsArePending'
  BY <1>1, <1>7 DEF ProcInv, ProcTypes, JobsArePending
<1>9. ReportsAreHonest'
  BY <1>0, <1>1, <1>2, <1>3, <1>4, Constants DEF ProcInv, ReportsAreHonest
<1>10. AbsStep
  BY <1>1, <1>7 DEF AbsStep, Abs!vars
<1> QED
  BY <1>5, <1>6, <1>8, <1>9, <1>10 DEF ProcInv

\* The search has found nodes, which are asked.
LEMMA FoundProc ==
  ASSUME ProcInv, NEW id \in Searching, NEW ns \in SUBSET Peer, ns # {},
         NEW d \in Datum, d.nodes = ns, d.succeded = data[id].succeded,
         data' = [data EXCEPT ![id] = d],
         store_requests' = store_requests \cup {id},
         jobs' = jobs \cup ({id} \X ns),
         UNCHANGED <<store_id_counter, answered, silent, calls, outcome>>, alive' = alive
  PROVE  ProcInv' /\ AbsStep
<1>1. id \in StoreId /\ data[id] # NoData /\ id \notin store_requests
  BY DEF Searching, Live
<1>2. data \in [StoreId -> Datum \cup {NoData}] /\ data[id] \in Datum
  BY <1>1, LiveData DEF ProcInv, ProcTypes
<1>3. d # NoData
  BY DEF Datum, NoData
<1>4. \A p \in StoreId : data'[p] = IF p = id THEN d ELSE data[p]
  BY <1>2
<1>5. Blank(id) /\ Counted(id) /\ id < store_id_counter /\ calls[id] = 0
  BY <1>1, Constants DEF ProcInv, ProcTypes, Books, ReportsAreHonest
<1>6. ProcTypes'
  BY <1>1, <1>2 DEF ProcInv, ProcTypes
<1>7. Books'
  BY <1>1, <1>3, <1>4, <1>5 DEF ProcInv, Books, Blank, Counted
<1>8. ReportsAreHonest'
  <2>1. \A p \in StoreId : data'[p] = NoData <=> data[p] = NoData
    BY <1>1, <1>3, <1>4
  <2> QED
    BY <2>1 DEF ProcInv, ReportsAreHonest
<1>9. JobsArePending'
  <2>1. ASSUME NEW p \in StoreId, NEW n \in Peer
        PROVE  <<p, n>> \in jobs' <=> p \in store_requests' /\ n \in data'[p].nodes
    BY <1>1, <1>3, <1>4 DEF ProcInv, ProcTypes, JobsArePending
  <2>2. jobs' \in SUBSET (StoreId \X Peer) /\ store_requests' \in SUBSET StoreId
    BY <1>6 DEF ProcTypes
  <2>3. jobs' = {j \in store_requests' \X Peer : j[2] \in data'[j[1]].nodes}
    BY <2>1, <2>2, PendingIs
  <2>4. \A p \in store_requests' : data'[p].nodes # {}
    BY <1>1, <1>3, <1>4 DEF ProcInv, ProcTypes, JobsArePending
  <2> QED
    BY <2>3, <2>4 DEF JobsArePending
<1> DEFINE asked == [p \in {id} |-> ns]
<1>10. Phase' = [p \in StoreId |-> IF p \in {id} THEN "asking" ELSE Phase[p]] /\ Phase[id] = "unused"
  BY <1>1, <1>5 DEF Phase
<1>11. Waiting' = [p \in StoreId |-> IF p \in {id} THEN asked[p] ELSE Waiting[p]]
  <2>1. \A p \in StoreId : data'[p].nodes = IF p \in {id} THEN asked[p] ELSE data[p].nodes
    BY <1>3, <1>4
  <2> HIDE DEF asked
  <2> QED
    BY <2>1 DEF Waiting
<1>12. asked \in [{id} -> (SUBSET Peer) \ {{}}]
  OBVIOUS
<1>13. Abs!Begin({id})
  <2> HIDE DEF asked
  <2> QED
    BY <1>10, <1>11, <1>12 DEF Abs!Begin, Phase, Waiting
<1>14. AbsStep
  BY <1>1, <1>13 DEF AbsStep, Abs!Next
<1> QED
  BY <1>6, <1>7, <1>8, <1>9, <1>14 DEF ProcInv

\* One node is asked to store each item of a set.
LEMMA StoreToNodeProc ==
  ASSUME ProcInv, NEW n \in Peer, NEW S \in SUBSET Item, NEW ttl \in [S -> 0 .. Width - 1],
         NEW caller \in {"item", "other"}, StoreToNode(n, S, ttl, caller), alive' = alive,
         now \in 0 .. MaxTime
  PROVE  /\ ProcInv' /\ AbsStep
         /\ \A p \in StoreId :
              \/ data'[p] = data[p]
              \/ \E i \in S : data'[p].item = i /\ data'[p].time_to_live = ttl[i]
                              /\ data'[p].caller = caller /\ data'[p].begun = now
<1>0. PICK c : c = store_id_counter
  OBVIOUS
<1> DEFINE id(i) == c + Cardinality({j \in S : j < i})
           d(i) == Asking(Call(i, ttl[i], caller), {n}, TRUE)
           size == Cardinality(S)
<1>1. PICK new : new = {id(i) : i \in S}
  OBVIOUS
<1>2. c \in Nat /\ c <= MaxStores
  BY <1>0, Constants DEF ProcInv, ProcTypes
<1>3. size \in Nat /\ new = c .. c + size - 1
  BY <1>1, <1>2, Consecutive
<1>4. /\ c + size <= MaxStores
      /\ store_id_counter' = c + size
      /\ data' = [p \in StoreId |-> IF p \in new THEN LET i == CHOOSE j \in S : id(j) = p IN d(i)
                                                ELSE data[p]]
      /\ store_requests' = store_requests \cup new
      /\ jobs' = jobs \cup (new \X {n})
      /\ UNCHANGED <<answered, silent, calls, outcome>>
  BY <1>0, <1>1 DEF StoreToNode
<1>5. ASSUME NEW i \in S
      PROVE  d(i) \in Datum /\ d(i).nodes = {n} /\ d(i).succeded = 0
             /\ d(i).item = i /\ d(i).time_to_live = ttl[i] /\ d(i).caller = caller
             /\ d(i).begun = now
  <2>1. Call(i, ttl[i], caller) \in Datum /\ Call(i, ttl[i], caller).succeded = 0
    BY CallType
  <2>2. d(i) \in Datum /\ d(i).nodes = {n} /\ d(i).succeded = 0
    BY <2>1, AskingType
  <2>3. d(i).item = i /\ d(i).time_to_live = ttl[i] /\ d(i).caller = caller /\ d(i).begun = now
    BY DEF Asking, Call
  <2> QED
    BY <2>2, <2>3
<1>6. ASSUME NEW p \in new PROVE \E i \in S : p \in StoreId /\ data'[p] = d(i)
  <2>1. p \in StoreId
    BY <1>2, <1>3, <1>4, <1>6, Constants
  <2>2. \E j \in S : id(j) = p
    BY <1>1, <1>6
  <2>3. (CHOOSE j \in S : id(j) = p) \in S
    BY <2>2
  <2> HIDE DEF id, d
  <2> QED
    BY <1>4, <1>6, <2>1, <2>3
<1> HIDE DEF id, d, size
<1>7. \A p \in new : /\ p \in StoreId /\ data'[p] \in Datum /\ data'[p].nodes = {n}
                     /\ data'[p].succeded = 0 /\ data'[p] # NoData
  <2>1. ASSUME NEW p \in new
        PROVE  /\ p \in StoreId /\ data'[p] \in Datum /\ data'[p].nodes = {n}
               /\ data'[p].succeded = 0
    BY <1>5, <1>6
  <2> QED
    BY <2>1 DEF NoData, Datum
<1>8. \A p \in StoreId : p \notin new => data'[p] = data[p]
  BY <1>4
<1>9. \A p \in new : data[p] = NoData /\ Blank(p) /\ p \notin store_requests /\ p >= c
  BY <1>0, <1>2, <1>3, <1>7, Constants DEF ProcInv, Books
<1>10. \A p \in new : calls[p] = 0
  BY <1>0, <1>2, <1>7, <1>9, Constants DEF ProcInv, ReportsAreHonest
<1>11. data' \in [StoreId -> Datum \cup {NoData}]
  <2>1. \A p \in StoreId : data'[p] \in Datum \cup {NoData}
    BY <1>7, <1>8 DEF ProcInv, ProcTypes
  <2> QED
    BY <1>4, <2>1
<1>12. ProcTypes'
  BY <1>2, <1>3, <1>4, <1>7, <1>11, Constants DEF ProcInv, ProcTypes
<1>13. \A p \in StoreId : p >= c + size <=> p >= c /\ p \notin new
  BY <1>2, <1>3, Constants
<1>14. Books'
  <2>1. ASSUME NEW p \in StoreId
        PROVE  /\ p >= store_id_counter' => data'[p] = NoData /\ Blank(p)'
               /\ data'[p] = NoData => p \notin store_requests'
               /\ data'[p] # NoData => Counted(p)'
               /\ data'[p] # NoData /\ p \notin store_requests' => Blank(p)'
    <3>1. Blank(p)' <=> Blank(p)
      BY <1>4 DEF Blank
    <3>2. CASE p \in new
      <4>1. answered'[p] = {} /\ silent'[p] = {} /\ outcome'[p] = "NONE"
        BY <1>4, <1>9, <3>2 DEF Blank
      <4>2. Counted(p)'
        BY <1>7, <3>2, <4>1 DEF Counted
      <4> QED
        BY <1>4, <1>7, <1>13, <3>2, <4>2
    <3>3. CASE p \notin new
      <4>1. Counted(p)' <=> Counted(p)
        BY <1>4, <1>8, <3>3 DEF Counted
      <4> QED
        BY <1>0, <1>4, <1>8, <1>13, <3>1, <3>3, <4>1 DEF ProcInv, Books
    <3> QED
      BY <3>2, <3>3
  <2> QED
    BY <2>1 DEF Books
<1>15. ReportsAreHonest'
  <2>1. ASSUME NEW p \in StoreId
        PROVE  calls'[p] = IF p < store_id_counter' /\ data'[p] = NoData THEN 1 ELSE 0
    <3>1. CASE p \in new
      BY <1>4, <1>7, <1>10, <3>1
    <3>2. CASE p \notin new
      <4>1. p < c + size <=> p < c
        BY <1>2, <1>3, <1>13, <3>2, Constants
      <4> QED
        BY <1>0, <1>4, <1>8, <3>2, <4>1 DEF ProcInv, ReportsAreHonest
    <3> QED
      BY <3>1, <3>2
  <2> QED
    BY <1>4, <2>1 DEF ProcInv, ReportsAreHonest
<1>16. JobsArePending'
  <2>1. ASSUME NEW p \in StoreId, NEW m \in Peer
        PROVE  <<p, m>> \in jobs' <=> p \in store_requests' /\ m \in data'[p].nodes
    <3>1. <<p, m>> \in jobs <=> p \in store_requests /\ m \in data[p].nodes
      BY DEF ProcInv, ProcTypes, JobsArePending
    <3>2. <<p, m>> \in jobs' <=> <<p, m>> \in jobs \/ (p \in new /\ m = n)
      BY <1>4
    <3> QED
      BY <1>4, <1>7, <1>8, <1>9, <3>1, <3>2
  <2>2. jobs' \in SUBSET (StoreId \X Peer) /\ store_requests' \in SUBSET StoreId
    BY <1>12 DEF ProcTypes
  <2>3. jobs' = {j \in store_requests' \X Peer : j[2] \in data'[j[1]].nodes}
    BY <2>1, <2>2, PendingIs
  <2>4. \A p \in store_requests' : data'[p].nodes # {}
    BY <1>4, <1>7, <1>8 DEF ProcInv, ProcTypes, JobsArePending
  <2> QED
    BY <2>3, <2>4 DEF JobsArePending
<1> DEFINE asked == [p \in new |-> {n}]
<1>17. /\ Phase' = [p \in StoreId |-> IF p \in new THEN "asking" ELSE Phase[p]]
       /\ \A p \in new : Phase[p] = "unused"
  <2>1. \A p \in StoreId : p \in store_requests' <=> p \in new \/ p \in store_requests
    BY <1>4
  <2>2. calls' = calls
    BY <1>4
  <2>3. \A p \in new : p \in StoreId /\ p \notin store_requests
    BY <1>7, <1>9
  <2> QED
    BY <1>10, <2>1, <2>2, <2>3 DEF Phase
<1>18. Waiting' = [p \in StoreId |-> IF p \in new THEN asked[p] ELSE Waiting[p]]
  BY <1>7, <1>8 DEF Waiting
<1>19. asked \in [new -> (SUBSET Peer) \ {{}}]
  OBVIOUS
<1>20. Abs!Begin(new)
  <2> HIDE DEF asked
  <2> QED
    BY <1>4, <1>17, <1>18, <1>19 DEF Abs!Begin, Phase, Waiting
<1>21. AbsStep
  <2>1. new \in SUBSET StoreId
    BY <1>7
  <2> QED
    BY <1>20, <2>1 DEF AbsStep, Abs!Next
<1>22. ASSUME NEW p \in new
       PROVE  \E i \in S : data'[p].item = i /\ data'[p].time_to_live = ttl[i]
                           /\ data'[p].caller = caller /\ data'[p].begun = now
  BY <1>5, <1>6
<1> QED
  BY <1>8, <1>12, <1>14, <1>15, <1>16, <1>21, <1>22 DEF ProcInv
\* Procedures are over, with the same code.
LEMMA EndProc ==
  ASSUME ProcInv, NEW ps \in SUBSET StoreId, NEW code \in Code, Report(ps, code),
         \A p \in ps : data[p] # NoData,
         answered' \in [StoreId -> SUBSET Peer], silent' \in [StoreId -> SUBSET Peer],
         \A p \in StoreId : p \notin ps => answered'[p] = answered[p] /\ silent'[p] = silent[p],
         \A p \in ps : answered'[p] \cap silent'[p] = {},
         code = "SUCCEED" => \A p \in ps : answered'[p] # {},
         code = "FAILED" => \A p \in ps : answered'[p] = {},
         code = "TERMINATED" => ~alive',
         ~alive => ~alive',
         jobs' = {j \in jobs : j[1] \notin ps}
  PROVE  /\ ProcInv'
         /\ Phase' = [p \in StoreId |-> IF p \in ps THEN "over" ELSE Phase[p]]
         /\ Waiting' = [p \in StoreId |-> IF p \in ps THEN {} ELSE Waiting[p]]
<1>1. /\ \A p \in StoreId : /\ calls'[p] = IF p \in ps THEN calls[p] + 1 ELSE calls[p]
                            /\ outcome'[p] = IF p \in ps THEN code ELSE outcome[p]
                            /\ data'[p] = IF p \in ps THEN NoData ELSE data[p]
      /\ store_requests' = store_requests \ ps
      /\ store_id_counter' = store_id_counter
  BY DEF Report
<1>2. /\ calls' \in [StoreId -> Nat] /\ outcome' \in [StoreId -> Code]
      /\ data' \in [StoreId -> Datum \cup {NoData}]
  BY DEF Report, ProcInv, ProcTypes
<1>3. ProcTypes'
  BY <1>1, <1>2 DEF ProcInv, ProcTypes
<1>4. \A p \in ps : p < store_id_counter /\ calls[p] = 0
  BY Constants DEF ProcInv, ProcTypes, Books, ReportsAreHonest
<1>5. ReportsAreHonest'
  <2>1. ASSUME NEW p \in StoreId
        PROVE  /\ calls'[p] = IF p < store_id_counter' /\ data'[p] = NoData THEN 1 ELSE 0
               /\ answered'[p] \cap silent'[p] = {}
    <3>1. CASE p \in ps
      BY <1>1, <1>4, <3>1
    <3>2. CASE p \notin ps
      BY <1>1, <3>2 DEF ProcInv, ReportsAreHonest
    <3> QED
      BY <3>1, <3>2
  <2>2. ASSUME NEW p \in StoreId
        PROVE  /\ outcome'[p] \in {"SUCCEED", "FAILED"} =>
                    (outcome'[p] = "SUCCEED") = (answered'[p] # {})
               /\ outcome'[p] = "TERMINATED" => ~alive'
    <3>1. CASE p \in ps
      BY <1>1, <3>1
    <3>2. CASE p \notin ps
      BY <1>1, <3>2 DEF ProcInv, ReportsAreHonest
    <3> QED
      BY <3>1, <3>2
  <2> QED
    BY <2>1, <2>2 DEF ReportsAreHonest
<1>6. Books'
  <2>1. ASSUME NEW p \in StoreId
        PROVE  /\ p >= store_id_counter' => data'[p] = NoData /\ Blank(p)'
               /\ data'[p] = NoData => p \notin store_requests'
               /\ data'[p] # NoData => Counted(p)'
               /\ data'[p] # NoData /\ p \notin store_requests' => Blank(p)'
    <3>1. CASE p \in ps
      BY <1>1, <1>4, <3>1, Constants DEF ProcInv, ProcTypes
    <3>2. CASE p \notin ps
      <4>1. (Blank(p)' <=> Blank(p)) /\ (Counted(p)' <=> Counted(p))
        BY <1>1, <3>2 DEF Blank, Counted
      <4> QED
        BY <1>1, <3>2, <4>1 DEF ProcInv, Books
    <3> QED
      BY <3>1, <3>2
  <2> QED
    BY <2>1 DEF Books
<1>7. JobsArePending'
  <2>1. ASSUME NEW p \in StoreId, NEW n \in Peer
        PROVE  <<p, n>> \in jobs' <=> p \in store_requests' /\ n \in data'[p].nodes
    BY <1>1 DEF ProcInv, ProcTypes, JobsArePending
  <2>2. jobs' \in SUBSET (StoreId \X Peer) /\ store_requests' \in SUBSET StoreId
    BY <1>3 DEF ProcTypes
  <2>3. jobs' = {j \in store_requests' \X Peer : j[2] \in data'[j[1]].nodes}
    BY <2>1, <2>2, PendingIs
  <2>4. \A p \in store_requests' : data'[p].nodes # {}
    BY <1>1 DEF ProcInv, ProcTypes, JobsArePending
  <2> QED
    BY <2>3, <2>4 DEF JobsArePending
<1>8. \A p \in StoreId : Phase'[p] = IF p \in ps THEN "over" ELSE Phase[p]
  BY <1>1, <1>4 DEF Phase
<1>9. \A p \in StoreId : data'[p].nodes = IF p \in ps THEN {} ELSE data[p].nodes
  <2>1. NoData.nodes = {}
    BY DEF NoData
  <2> QED
    BY <1>1, <2>1
<1>10. Phase' = [p \in StoreId |-> IF p \in ps THEN "over" ELSE Phase[p]]
  BY <1>8 DEF Phase
<1>11. Waiting' = [p \in StoreId |-> IF p \in ps THEN {} ELSE Waiting[p]]
  BY <1>9 DEF Waiting
<1> QED
  BY <1>3, <1>5, <1>6, <1>7, <1>10, <1>11 DEF ProcInv

LEMMA FailProc ==
  ASSUME ProcInv, NEW id \in Searching, Report({id}, "FAILED"),
         UNCHANGED <<jobs, answered, silent>>, alive' = alive
  PROVE  ProcInv' /\ AbsStep
<1>1. id \in StoreId /\ data[id] # NoData /\ id \notin store_requests
  BY DEF Searching, Live
<1>2. Blank(id)
  BY <1>1 DEF ProcInv, Books
<1>3. answered' \in [StoreId -> SUBSET Peer] /\ silent' \in [StoreId -> SUBSET Peer]
  BY DEF ProcInv, ProcTypes
<1>4. jobs' = {j \in jobs : j[1] \notin {id}}
  BY <1>1 DEF ProcInv, JobsArePending
<1>5. {id} \in SUBSET StoreId /\ "FAILED" \in Code
  BY <1>1 DEF Code
<1>6. answered'[id] = {} /\ silent'[id] = {}
  BY <1>2 DEF Blank
<1>7. /\ ProcInv'
      /\ Phase' = [p \in StoreId |-> IF p \in {id} THEN "over" ELSE Phase[p]]
      /\ Waiting' = [p \in StoreId |-> IF p \in {id} THEN {} ELSE Waiting[p]]
  BY <1>1, <1>3, <1>4, <1>5, <1>6, EndProc
<1>8. Abs!Stop({id})
  BY <1>7 DEF Abs!Stop, Phase, Waiting
<1> QED
  BY <1>5, <1>7, <1>8 DEF AbsStep, Abs!Next

LEMMA TerminateProc ==
  ASSUME ProcInv, Terminate
  PROVE  ProcInv' /\ AbsStep
<1>0. PICK ps : ps = Live
  OBVIOUS
<1>1. /\ Report(ps, "TERMINATED") /\ UNCHANGED <<answered, silent>> /\ ~alive'
      /\ jobs' = jobs \ {j \in jobs : j[1] \in store_requests}
  BY <1>0 DEF Terminate, TimeoutsOf
<1>2. ps \in SUBSET StoreId /\ "TERMINATED" \in Code /\ \A p \in ps : data[p] # NoData
  BY <1>0 DEF Live, Code
<1>3. answered' \in [StoreId -> SUBSET Peer] /\ silent' \in [StoreId -> SUBSET Peer]
  BY <1>1 DEF ProcInv, ProcTypes
<1>4. \A p \in ps : answered'[p] \cap silent'[p] = {}
  BY <1>1, <1>2 DEF ProcInv, ReportsAreHonest
<1>5. jobs' = {j \in jobs : j[1] \notin ps}
  <2>1. store_requests \subseteq ps
    BY <1>0 DEF Live, ProcInv, ProcTypes, Books
  <2>2. \A j \in jobs : j[1] \in store_requests
    BY DEF ProcInv, JobsArePending
  <2> QED
    BY <1>1, <2>1, <2>2
<1>6. /\ ProcInv'
      /\ Phase' = [p \in StoreId |-> IF p \in ps THEN "over" ELSE Phase[p]]
      /\ Waiting' = [p \in StoreId |-> IF p \in ps THEN {} ELSE Waiting[p]]
  BY <1>1, <1>2, <1>3, <1>4, <1>5, EndProc
<1>7. Abs!Stop(ps)
  BY <1>1, <1>6 DEF Abs!Stop, Phase, Waiting
<1> QED
  BY <1>2, <1>6, <1>7 DEF AbsStep, Abs!Next

\* A procedure waits for one node less, and goes on.
LEMMA FewerProc ==
  ASSUME ProcInv, NEW id \in store_requests, NEW n \in Peer, n \in data[id].nodes,
         NEW d \in Datum, d.nodes = data[id].nodes \ {n}, d.nodes # {},
         d.succeded > 0 <=> answered'[id] # {},
         data' = [data EXCEPT ![id] = d],
         UNCHANGED <<store_requests, store_id_counter, calls, outcome>>, alive' = alive,
         jobs' = jobs \ {<<id, n>>},
         answered' \in [StoreId -> SUBSET Peer], silent' \in [StoreId -> SUBSET Peer],
         \A p \in StoreId : p # id => answered'[p] = answered[p] /\ silent'[p] = silent[p],
         answered'[id] \cap silent'[id] = {},
         answered'[id] \cup silent'[id] = answered[id] \cup silent[id] \cup {n}
  PROVE  ProcInv' /\ Phase' = Phase /\ Waiting' = [Waiting EXCEPT ![id] = @ \ {n}]
<1>1. id \in StoreId /\ d # NoData /\ data[id] # NoData
  BY DEF ProcInv, ProcTypes, Books, Datum, NoData
<1>2. data \in [StoreId -> Datum \cup {NoData}]
  BY DEF ProcInv, ProcTypes
<1>3. \A p \in StoreId : data'[p] = IF p = id THEN d ELSE data[p]
  BY <1>2
<1>4. ProcTypes'
  BY <1>1, <1>2 DEF ProcInv, ProcTypes
<1>5. ReportsAreHonest'
  <2>1. \A p \in StoreId : data'[p] = NoData <=> data[p] = NoData
    BY <1>1, <1>3
  <2>2. outcome[id] = "NONE"
    BY <1>1 DEF ProcInv, Books, Counted
  <2> QED
    BY <2>1, <2>2 DEF ProcInv, ReportsAreHonest
<1>6. Books'
  <2>1. ASSUME NEW p \in StoreId
        PROVE  /\ p >= store_id_counter' => data'[p] = NoData /\ Blank(p)'
               /\ data'[p] = NoData => p \notin store_requests'
               /\ data'[p] # NoData => Counted(p)'
               /\ data'[p] # NoData /\ p \notin store_requests' => Blank(p)'
    <3>1. CASE p = id
      <4>1. Counted(id)'
        BY <1>1, <1>3 DEF ProcInv, Books, Counted
      <4>2. ~(id >= store_id_counter')
        BY <1>1 DEF ProcInv, Books
      <4> QED
        BY <1>1, <1>3, <3>1, <4>1, <4>2
    <3>2. CASE p # id
      <4>1. (Blank(p)' <=> Blank(p)) /\ (Counted(p)' <=> Counted(p))
        BY <1>3, <3>2 DEF Blank, Counted
      <4> QED
        BY <1>3, <3>2, <4>1 DEF ProcInv, Books
    <3> QED
      BY <3>1, <3>2
  <2> QED
    BY <2>1 DEF Books
<1>7. JobsArePending'
  <2>1. ASSUME NEW p \in StoreId, NEW m \in Peer
        PROVE  <<p, m>> \in jobs' <=> p \in store_requests' /\ m \in data'[p].nodes
    BY <1>1, <1>3 DEF ProcInv, ProcTypes, JobsArePending
  <2>2. jobs' \in SUBSET (StoreId \X Peer) /\ store_requests' \in SUBSET StoreId
    BY <1>4 DEF ProcTypes
  <2>3. jobs' = {j \in store_requests' \X Peer : j[2] \in data'[j[1]].nodes}
    BY <2>1, <2>2, PendingIs
  <2>4. \A p \in store_requests' : data'[p].nodes # {}
    BY <1>3 DEF ProcInv, ProcTypes, JobsArePending
  <2> QED
    BY <2>3, <2>4 DEF JobsArePending
<1>8. Phase' = Phase
  BY DEF Phase
<1>9. Waiting' = [Waiting EXCEPT ![id] = @ \ {n}]
  <2>1. \A p \in StoreId :
          data'[p].nodes = IF p = id THEN data[id].nodes \ {n} ELSE data[p].nodes
    <3>1. ASSUME NEW p \in StoreId, p # id PROVE data'[p].nodes = data[p].nodes
      BY <1>3, <3>1
    <3>2. data'[id].nodes = data[id].nodes \ {n}
      BY <1>1, <1>3
    <3> QED
      BY <3>1, <3>2
  <2> QED
    BY <1>1, <2>1 DEF Waiting
<1> QED
  BY <1>4, <1>5, <1>6, <1>7, <1>8, <1>9 DEF ProcInv

\* A node is struck out of a procedure, which may be over with it.
LEMMA SettleProc ==
  ASSUME ProcInv, NEW id \in store_requests, NEW n \in Peer, n \in data[id].nodes,
         NEW d \in Datum, d.nodes = data[id].nodes \ {n},
         d.succeded > 0 <=> answered'[id] # {},
         Settle(id, d), alive' = alive,
         jobs' = jobs \ {<<id, n>>},
         answered' \in [StoreId -> SUBSET Peer], silent' \in [StoreId -> SUBSET Peer],
         \A p \in StoreId : p # id => answered'[p] = answered[p] /\ silent'[p] = silent[p],
         answered'[id] \cap silent'[id] = {},
         answered'[id] \cup silent'[id] = answered[id] \cup silent[id] \cup {n}
  PROVE  ProcInv' /\ Abs!Settle(id, n)
<1>1. id \in StoreId /\ data[id] # NoData
  BY DEF ProcInv, ProcTypes, Books
<1>2. Phase[id] = "asking" /\ Waiting[id] = data[id].nodes
  BY <1>1 DEF Phase, Waiting
<1>3. CASE d.nodes = {}
  <2>1. PICK code \in Code : code = Result(d, id)
    BY DEF Result, Code
  <2>2. Report({id}, code)
    BY <1>3, <2>1 DEF Settle
  <2>3. /\ code = "SUCCEED" <=> answered'[id] # {}
        /\ code \in {"SUCCEED", "FAILED"}
    BY <2>1 DEF Result
  <2>4. data[id].nodes = {n}
    BY <1>3
  <2>5. jobs' = {j \in jobs : j[1] \notin {id}}
    <3>1. \A j \in jobs : j[1] = id => j[2] = n
      BY <2>4 DEF ProcInv, JobsArePending
    <3>2. \A j \in jobs : j = <<j[1], j[2]>>
      BY DEF ProcInv, ProcTypes
    <3> QED
      BY <3>1, <3>2
  <2>6. /\ ProcInv'
        /\ Phase' = [p \in StoreId |-> IF p \in {id} THEN "over" ELSE Phase[p]]
        /\ Waiting' = [p \in StoreId |-> IF p \in {id} THEN {} ELSE Waiting[p]]
    <3>1. {id} \in SUBSET StoreId /\ \A p \in {id} : data[p] # NoData
      BY <1>1
    <3>2. \A p \in {id} : answered'[p] \cap silent'[p] = {}
      OBVIOUS
    <3>3. /\ code = "SUCCEED" => \A p \in {id} : answered'[p] # {}
          /\ code = "FAILED" => \A p \in {id} : answered'[p] = {}
          /\ code # "TERMINATED"
      BY <2>3
    <3>4. \A p \in StoreId : p \notin {id} => answered'[p] = answered[p] /\ silent'[p] = silent[p]
      OBVIOUS
    <3> QED
      BY <2>2, <2>5, <3>1, <3>2, <3>3, <3>4, EndProc
  <2>7. /\ Phase' = [Phase EXCEPT ![id] = IF Waiting[id] = {n} THEN "over" ELSE @]
        /\ Waiting' = [Waiting EXCEPT ![id] = @ \ {n}]
    <3>1. Phase \in [StoreId -> {"asking", "over", "unused"}] /\ Waiting = [p \in StoreId |-> Waiting[p]]
      BY DEF Phase, Waiting
    <3>2. Waiting[id] = {n}
      BY <1>2, <2>4
    <3> QED
      BY <1>1, <2>6, <3>1, <3>2
  <2> QED
    BY <1>2, <2>6, <2>7 DEF Abs!Settle, Phase, Waiting
<1>4. CASE d.nodes # {}
  <2>1. /\ data' = [data EXCEPT ![id] = d]
        /\ UNCHANGED <<store_requests, store_id_counter, calls, outcome>>
    BY <1>4 DEF Settle
  <2>2. ProcInv' /\ Phase' = Phase /\ Waiting' = [Waiting EXCEPT ![id] = @ \ {n}]
    BY <1>4, <2>1, FewerProc
  <2>3. Phase' = [Phase EXCEPT ![id] = IF Waiting[id] = {n} THEN "over" ELSE @]
    BY <1>1, <1>2, <1>4, <2>2 DEF Phase
  <2> QED
    BY <1>2, <2>2, <2>3 DEF Abs!Settle, Phase, Waiting
<1> QED
  BY <1>3, <1>4
-----------------------------------------------------------------------------
(* Steps of the items                                                      *)

\* Only the distance an item was stored at may change.
LEMMA SameItems ==
  ASSUME ItemInv, max_distance' \in [Item -> {NotSet} \cup Nat],
         UNCHANGED <<alive, now, expiration_time, republish, removed_contacts>>
  PROVE  ItemInv'
<1>1. ItemTypes' /\ RepublishIsScheduled'
  BY DEF ItemInv, ItemTypes, RepublishIsScheduled
<1> QED
  BY <1>1 DEF ItemInv

LEMMA UnchangedItems ==
  ASSUME ItemInv, UNCHANGED <<alive, now, items>>
  PROVE  ItemInv'
BY SameItems DEF items, ItemInv, ItemTypes

LEMMA SettleItems ==
  ASSUME ItemInv, NEW id, NEW d \in Datum, Settle(id, d), UNCHANGED <<alive, now>>
  PROVE  ItemInv'
<1>1. CASE d.nodes = {}
  <2>1. PICK code : code = Result(d, id)
    OBVIOUS
  <2>2. StoreCallback(d, code)
    BY <1>1, <2>1 DEF Settle
  <2>3. max_distance' \in [Item -> {NotSet} \cup Nat]
    BY <2>2 DEF StoreCallback, ItemInv, ItemTypes, Datum
  <2>4. UNCHANGED <<expiration_time, republish, removed_contacts>>
    BY <2>2 DEF StoreCallback
  <2> QED
    BY <2>3, <2>4, SameItems
<1>2. CASE d.nodes # {}
  BY <1>2, UnchangedItems DEF Settle
<1> QED
  BY <1>1, <1>2

\* When an item may be republished, and how the constants make it later than now.
LEMMA Times ==
  /\ \A t \in RepublishTimes : t \in Nat /\ t > 0 /\ t <= republish_time + republish_time_delta
  /\ \A t \in RepublishDeltas : t \in Nat /\ t <= republish_time + republish_time_delta
  /\ republish_time \in Nat /\ republish_time_delta \in Nat /\ republish_treshhold \in Nat
  BY StoringAssumption DEF RepublishTimes, RepublishDeltas

\* Some items are given a new job each; they were stored, or are now.
LEMMA ReplanItems ==
  ASSUME ItemInv, NEW S \in SUBSET Item, NEW due \in [S -> Nat],
         \A i \in S : due[i] >= now /\ due[i] <= now + republish_time + republish_time_delta,
         republish' = [i \in Item |-> IF i \in S THEN {due[i]} ELSE republish[i]],
         expiration_time' \in [Item -> {NotStored} \cup 0 .. Width - 1],
         \A i \in S : expiration_time'[i] # NotStored,
         \A i \in Item : i \notin S => expiration_time'[i] = expiration_time[i],
         max_distance' \in [Item -> {NotSet} \cup Nat],
         removed_contacts' \in 0 .. republish_treshhold,
         UNCHANGED <<alive, now>>
  PROVE  ItemInv'
<1>1. ItemTypes'
  BY DEF ItemInv, ItemTypes
<1>2. \A i \in Item : republish'[i] = IF i \in S THEN {due[i]} ELSE republish[i]
  OBVIOUS
<1>3. ASSUME NEW i \in Item
      PROVE  /\ \A t1, t2 \in republish'[i] : t1 = t2
             /\ \A t \in republish'[i] : t \in now .. now + republish_time + republish_time_delta
             /\ expiration_time'[i] = NotStored => republish'[i] = {}
             /\ expiration_time'[i] > now => republish'[i] # {}
  <2>1. CASE i \in S
    <3>1. republish'[i] = {due[i]} /\ due[i] \in Nat
      BY <1>2, <2>1
    <3>2. now \in Nat
      BY Constants DEF ItemInv, ItemTypes
    <3>3. due[i] \in now .. now + republish_time + republish_time_delta
      BY <2>1, <3>1, <3>2, Times
    <3> QED
      BY <2>1, <3>1, <3>3
  <2>2. CASE i \notin S
    BY <1>2, <2>2 DEF ItemInv, RepublishIsScheduled
  <2> QED
    BY <2>1, <2>2
<1>4. RepublishIsScheduled'
  BY <1>3 DEF RepublishIsScheduled
<1> QED
  BY <1>1, <1>4 DEF ItemInv

-----------------------------------------------------------------------------
(* The steps of the node                                                   *)

\* What may become of a procedure: nothing of what it was begun with changes, or it
\* is over, or begins, with the time the item has left if it is the store's.
SameCall(d, e) ==
  d.caller = e.caller /\ d.item = e.item /\ d.begun = e.begun /\ d.time_to_live = e.time_to_live

Carried ==
  \A id \in StoreId :
    \/ data'[id] = data[id]
    \/ data'[id] = NoData
    \/ data'[id].caller = "other"
    \/ data[id] # NoData /\ SameCall(data'[id], data[id])
    \/ /\ data'[id].item \in Item /\ data'[id].begun = now
       /\ (now + data'[id].time_to_live) % Width = expiration_time'[data'[id].item]

Grows == \A i \in Item : expiration_time[i] <= expiration_time'[i]

Step == IInv' /\ AbsStep

\* No item ever expires earlier than was planned, so that no copy outlives it more.
LEMMA StillKept ==
  ASSUME IInv, ItemInv', ProcInv', Grows, Carried
  PROVE  CopyInv'
<1> SUFFICES ASSUME NEW id \in StoreId, data'[id] # NoData, data'[id].caller = "item"
             PROVE  (data'[id].begun + data'[id].time_to_live) % Width
                      <= expiration_time'[data'[id].item]
  BY DEF CopyInv
<1>1. \A i \in Item : expiration_time[i] \in Int /\ expiration_time'[i] \in Int
  BY Constants DEF IInv, ItemInv, ItemTypes, NotStored
<1>2. CASE data[id] # NoData /\ SameCall(data'[id], data[id])
  <2>1. data[id] \in Datum
    BY <1>2, LiveData DEF IInv, ProcInv
  <2>2. PICK i \in Item : i = data[id].item
    BY <2>1 DEF Datum
  <2>3. PICK t : t = (data[id].begun + data[id].time_to_live) % Width
    OBVIOUS
  <2>4. t \in Int
    BY <2>1, <2>3, Constants DEF Datum
  <2>5. t <= expiration_time[i]
    BY <1>2, <2>2, <2>3 DEF IInv, CopyInv, SameCall
  <2>6. t <= expiration_time'[i]
    BY <1>1, <2>4, <2>5 DEF Grows
  <2> QED
    BY <1>2, <2>2, <2>3, <2>6 DEF SameCall
<1>3. CASE /\ data'[id].item \in Item /\ data'[id].begun = now
           /\ (now + data'[id].time_to_live) % Width = expiration_time'[data'[id].item]
  BY <1>1, <1>3
<1> QED
  BY <1>2, <1>3 DEF Carried, SameCall

\* Most steps leave the times of the items alone.
LEMMA SameTimes ==
  ASSUME IInv, expiration_time' = expiration_time
  PROVE  Grows
  BY Constants DEF Grows, IInv, ItemInv, ItemTypes, NotStored

LEMMA NowType ==
  ASSUME IInv
  PROVE  now \in 0 .. MaxTime /\ now \in Int
  BY Constants DEF IInv, ItemInv, ItemTypes

\* A step that is not a timeout leaves nothing in repeated.
LEMMA RunsRepeated ==
  ASSUME Runs
  PROVE  RepeatedType' /\ alive' = alive /\ now' = now
  BY DEF Runs, RepeatedType

LEMMA StoreValueStep ==
  ASSUME IInv, NEW i \in Item, NEW ttl \in Ttl, StoreValue(i, ttl)
  PROVE  Step
<1>1. Store(i, ttl, "other") /\ UNCHANGED <<alive, now, items>> /\ RepeatedType'
  BY RunsRepeated DEF StoreValue
<1>2. ttl \in 0 .. Width - 1
  BY StoringAssumption
<1>3. ProcInv' /\ AbsStep
  BY <1>1, <1>2, StoreProc, NowType DEF IInv
<1>4. ItemInv'
  BY <1>1, UnchangedItems DEF IInv
<1>5. CopyInv'
  <2>1. \A id \in StoreId : data'[id] = data[id] \/ data'[id].caller = "other"
    BY <1>1 DEF Store, Call, IInv, ProcInv, ProcTypes
  <2>2. Grows
    BY <1>1, SameTimes DEF items
  <2> QED
    BY <1>3, <1>4, <2>1, <2>2, StillKept DEF Carried
<1> QED
  BY <1>1, <1>3, <1>4, <1>5 DEF Step, IInv

LEMMA StoreToFirstNodeStep ==
  ASSUME IInv, NEW n \in Peer, NEW i \in Item, NEW ttl \in Ttl, StoreToFirstNode(n, i, ttl)
  PROVE  Step
<1> DEFINE f == [j \in {i} |-> ttl]
<1>1. StoreToNode(n, {i}, f, "other") /\ UNCHANGED <<alive, now, items>> /\ RepeatedType'
  BY RunsRepeated DEF StoreToFirstNode
<1>2. f \in [{i} -> 0 .. Width - 1] /\ {i} \in SUBSET Item
  BY StoringAssumption
<1> HIDE DEF f
<1>3. /\ ProcInv' /\ AbsStep
      /\ \A p \in StoreId : data'[p] = data[p] \/ data'[p].caller = "other"
  BY <1>1, <1>2, StoreToNodeProc, NowType DEF IInv
<1>4. ItemInv'
  BY <1>1, UnchangedItems DEF IInv
<1>5. CopyInv'
  <2>1. Grows
    BY <1>1, SameTimes DEF items
  <2> QED
    BY <1>3, <1>4, <2>1, StillKept DEF Carried
<1> QED
  BY <1>1, <1>3, <1>4, <1>5 DEF Step, IInv

LEMMA SearchFoundStep ==
  ASSUME IInv, NEW id \in StoreId, NEW ns \in Found, SearchFound(id, ns)
  PROVE  Step
<1>1. /\ id \in Searching
      /\ store_requests' = store_requests \cup {id}
      /\ jobs' = jobs \cup ({id} \X ns)
      /\ UNCHANGED <<store_id_counter, answered, silent, calls, outcome>>
      /\ UNCHANGED <<alive, now, items>> /\ RepeatedType'
  BY RunsRepeated DEF SearchFound
<1>2. ns \in SUBSET Peer /\ ns # {}
  BY DEF Found
<1>3. data[id] # NoData /\ data[id] \in Datum /\ data \in [StoreId -> Datum \cup {NoData}]
  BY <1>1, LiveData DEF Searching, Live, IInv, ProcInv, ProcTypes
<1>4. PICK d : d = Asking(data[id], ns, FALSE)
  OBVIOUS
<1>5. d \in Datum /\ d.nodes = ns /\ d.succeded = data[id].succeded
  BY <1>2, <1>3, <1>4, AskingType
<1>6. data' = [data EXCEPT ![id] = d]
  BY <1>3, <1>4 DEF SearchFound
<1>7. ProcInv' /\ AbsStep
  BY <1>1, <1>2, <1>5, <1>6, FoundProc DEF IInv
<1>8. ItemInv'
  BY <1>1, UnchangedItems DEF IInv
<1>9. CopyInv'
  <2>1. SameCall(d, data[id])
    BY <1>3, <1>4 DEF Asking, SameCall, Datum
  <2>2. Carried
    BY <1>3, <1>6, <2>1 DEF Carried
  <2>3. Grows
    BY <1>1, SameTimes DEF items
  <2> QED
    BY <1>7, <1>8, <2>2, <2>3, StillKept
<1> QED
  BY <1>1, <1>7, <1>8, <1>9 DEF Step, IInv

LEMMA SearchFailedStep ==
  ASSUME IInv, NEW id \in StoreId, SearchFailed(id)
  PROVE  Step
<1>1. /\ id \in Searching
      /\ Report({id}, "FAILED")
      /\ UNCHANGED <<jobs, answered, silent>>
      /\ UNCHANGED <<alive, now, items>> /\ RepeatedType'
  BY RunsRepeated DEF SearchFailed
<1>2. ProcInv' /\ AbsStep
  BY <1>1, FailProc DEF IInv
<1>3. ItemInv'
  BY <1>1, UnchangedItems DEF IInv
<1>4. CopyInv'
  <2>1. Grows
    BY <1>1, SameTimes DEF items
  <2>2. Carried
    BY <1>1 DEF Report, Carried
  <2> QED
    BY <1>2, <1>3, <2>1, <2>2, StillKept
<1> QED
  BY <1>1, <1>2, <1>3, <1>4 DEF Step, IInv

\* A node was struck out: no procedure begins.
LEMMA SettleCopy ==
  ASSUME IInv, ItemInv', ProcInv', NEW id \in StoreId, data[id] # NoData,
         NEW d, SameCall(d, data[id]), Settle(id, d)
  PROVE  CopyInv'
<1>1. data \in [StoreId -> Datum \cup {NoData}]
  BY DEF IInv, ProcInv, ProcTypes
<1>2. Carried
  BY <1>1 DEF Settle, Report, Carried
<1>3. Grows
  BY SameTimes DEF Settle, StoreCallback, items
<1> QED
  BY <1>2, <1>3, StillKept

LEMMA ResponseStep ==
  ASSUME IInv, NEW id \in StoreId, NEW n \in Peer, OnStoreResponse(id, n)
  PROVE  Step
<1>1. /\ id \in store_requests /\ n \in data[id].nodes
      /\ jobs' = jobs \ {<<id, n>>}
      /\ answered' = [answered EXCEPT ![id] = @ \cup {n}]
      /\ UNCHANGED silent
      /\ Settle(id, [data[id] EXCEPT !.nodes = @ \ {n}, !.succeded = @ + 1])
      /\ UNCHANGED <<alive, now>> /\ RepeatedType'
  BY RunsRepeated DEF OnStoreResponse, Heard, Cancelled
<1>2. data[id] \in Datum /\ data[id] # NoData /\ data \in [StoreId -> Datum \cup {NoData}]
  BY <1>1, LiveData DEF IInv, ProcInv, ProcTypes
<1>3. PICK d : d = [data[id] EXCEPT !.nodes = @ \ {n}, !.succeded = @ + 1]
  OBVIOUS
<1>4. d \in Datum /\ d.nodes = data[id].nodes \ {n} /\ d.succeded > 0
  <2> DEFINE e == data[id]
             ns == e.nodes \ {n}
             k == e.succeded + 1
  <2>1. e \in Datum /\ d = [e EXCEPT !.nodes = ns, !.succeded = k]
    BY <1>2, <1>3
  <2>2. ns \in SUBSET Peer /\ k \in Nat /\ k > 0
    BY <2>1 DEF Datum
  <2> HIDE DEF e, ns, k
  <2>3. d \in Datum /\ d.nodes = ns /\ d.succeded = k
    BY <2>1, <2>2 DEF Datum
  <2> QED
    BY <2>2, <2>3 DEF e, ns
<1>5. Settle(id, d)
  BY <1>1, <1>3
<1>6. /\ answered' \in [StoreId -> SUBSET Peer] /\ silent' \in [StoreId -> SUBSET Peer]
      /\ answered'[id] = answered[id] \cup {n} /\ silent'[id] = silent[id]
      /\ \A p \in StoreId : p # id => answered'[p] = answered[p] /\ silent'[p] = silent[p]
  BY <1>1 DEF IInv, ProcInv, ProcTypes
<1>7. answered[id] \cap silent[id] = {} /\ n \notin silent[id]
  BY <1>1, <1>2 DEF IInv, ProcInv, Books, Counted, ReportsAreHonest
<1>8. /\ d.succeded > 0 <=> answered'[id] # {}
      /\ answered'[id] \cap silent'[id] = {}
      /\ answered'[id] \cup silent'[id] = answered[id] \cup silent[id] \cup {n}
  BY <1>4, <1>6, <1>7
<1>9. ProcInv' /\ Abs!Settle(id, n)
  BY <1>1, <1>4, <1>5, <1>6, <1>8, SettleProc DEF IInv
<1>10. AbsStep
  BY <1>1, <1>9 DEF AbsStep, Abs!Next, Abs!Answer
<1>11. ItemInv'
  BY <1>1, <1>4, <1>5, SettleItems DEF IInv
<1>12. CopyInv'
  <2>1. SameCall(d, data[id])
    BY <1>2, <1>3 DEF SameCall, Datum
  <2> QED
    BY <1>2, <1>5, <1>9, <1>11, <2>1, SettleCopy
<1> QED
  BY <1>1, <1>9, <1>10, <1>11, <1>12 DEF Step, IInv

LEMMA TimeoutStep ==
  ASSUME IInv, NEW id \in StoreId, NEW n \in Peer, StoreRequestTimeout(id, n)
  PROVE  Step
<1>1. id \in store_requests /\ n \in data[id].nodes /\ UNCHANGED <<alive, now>>
  BY DEF StoreRequestTimeout, IInv, ProcInv, JobsArePending
<1>2. data[id] \in Datum /\ data[id] # NoData /\ data \in [StoreId -> Datum \cup {NoData}]
  BY <1>1, LiveData DEF IInv, ProcInv, ProcTypes
<1>3. CASE MayRepeat(id, n)
  <2>1. /\ data' = [data EXCEPT ![id].attempts[n] = @ + 1]
        /\ repeated' \in {StoreRequest(data[id].item, ttl) : ttl \in Ttl}
        /\ UNCHANGED <<items, store_requests, store_id_counter, jobs, answered, silent, calls, outcome>>
    BY <1>3 DEF StoreRequestTimeout, Repeat
  <2>2. PICK d : d = [data[id] EXCEPT !.attempts[n] = @ + 1]
    OBVIOUS
  <2>3. data[id].attempts[n] \in 0 .. attempts_number /\ data[id].attempts[n] < attempts_number
    BY <1>2, <1>3 DEF MayRepeat, Datum
  <2>4. /\ d \in Datum /\ d.nodes = data[id].nodes /\ d.succeded = data[id].succeded
        /\ d # NoData
    <3>1. d \in Datum /\ d.nodes = data[id].nodes /\ d.succeded = data[id].succeded
      BY <1>2, <2>2, <2>3, Constants DEF Datum
    <3> QED
      BY <3>1 DEF Datum, NoData
  <2>5. data' = [data EXCEPT ![id] = d]
    BY <1>2, <2>1, <2>2
  <2>6. \A p \in StoreId : /\ data'[p].nodes = data[p].nodes
                           /\ data'[p] = NoData <=> data[p] = NoData
                           /\ data'[p].succeded = data[p].succeded
    BY <1>2, <2>4, <2>5
  <2>7. ProcTypes'
    BY <1>2, <2>1, <2>4, <2>5 DEF IInv, ProcInv, ProcTypes
  <2>8. JobsArePending'
    BY <2>1, <2>6 DEF IInv, ProcInv, ProcTypes, JobsArePending
  <2>9. ReportsAreHonest'
    BY <1>1, <2>1, <2>6 DEF IInv, ProcInv, ReportsAreHonest
  <2>10. Books'
    BY <2>1, <2>6 DEF IInv, ProcInv, Books, Blank, Counted
  <2>11. AbsStep
    BY <2>1, <2>6 DEF AbsStep, Abs!vars
  <2>12. ItemInv'
    BY <1>1, <2>1, UnchangedItems DEF IInv
  <2>13. CopyInv'
    <3>1. SameCall(d, data[id])
      BY <1>2, <2>2 DEF SameCall, Datum
    <3>2. Carried
      BY <1>2, <2>5, <3>1 DEF Carried
    <3>3. Grows
      BY <2>1, SameTimes DEF items
    <3>4. ProcInv'
      BY <2>7, <2>8, <2>9, <2>10 DEF ProcInv
    <3> QED
      BY <2>12, <3>2, <3>3, <3>4, StillKept
  <2>14. RepeatedType'
    BY <1>2, <2>1 DEF RepeatedType, Datum
  <2> QED
    BY <2>7, <2>8, <2>9, <2>10, <2>11, <2>12, <2>13, <2>14 DEF Step, IInv, ProcInv
<1>4. CASE ~MayRepeat(id, n)
  <2>1. /\ jobs' = jobs \ {<<id, n>>}
        /\ silent' = [silent EXCEPT ![id] = @ \cup {n}]
        /\ repeated' = NoRequest
        /\ UNCHANGED answered
        /\ Settle(id, [data[id] EXCEPT !.nodes = @ \ {n}])
    BY <1>4 DEF StoreRequestTimeout, GiveUp
  <2>2. PICK d : d = [data[id] EXCEPT !.nodes = @ \ {n}]
    OBVIOUS
  <2>3. d \in Datum /\ d.nodes = data[id].nodes \ {n} /\ d.succeded = data[id].succeded
    BY <1>2, <2>2 DEF Datum
  <2>4. Settle(id, d)
    BY <2>1, <2>2
  <2>5. /\ answered' \in [StoreId -> SUBSET Peer] /\ silent' \in [StoreId -> SUBSET Peer]
        /\ silent'[id] = silent[id] \cup {n} /\ answered'[id] = answered[id]
        /\ \A p \in StoreId : p # id => answered'[p] = answered[p] /\ silent'[p] = silent[p]
    BY <2>1 DEF IInv, ProcInv, ProcTypes
  <2>6. /\ answered[id] \cap silent[id] = {} /\ n \notin answered[id]
        /\ data[id].succeded > 0 <=> answered[id] # {}
    BY <1>1, <1>2 DEF IInv, ProcInv, Books, Counted, ReportsAreHonest
  <2>7. /\ d.succeded > 0 <=> answered'[id] # {}
        /\ answered'[id] \cap silent'[id] = {}
        /\ answered'[id] \cup silent'[id] = answered[id] \cup silent[id] \cup {n}
    BY <2>3, <2>5, <2>6
  <2>8. ProcInv' /\ Abs!Settle(id, n)
    BY <1>1, <2>1, <2>3, <2>4, <2>5, <2>7, SettleProc DEF IInv
  <2>9. AbsStep
    BY <2>1, <2>8 DEF AbsStep, Abs!Next, Abs!GiveUp
  <2>10. ItemInv'
    BY <1>1, <2>3, <2>4, SettleItems DEF IInv
  <2>11. CopyInv'
    <3>1. SameCall(d, data[id])
      BY <1>2, <2>2 DEF SameCall, Datum
    <3> QED
      BY <1>2, <2>4, <2>8, <2>10, <3>1, SettleCopy
  <2>12. RepeatedType'
    BY <2>1 DEF RepeatedType
  <2> QED
    BY <2>8, <2>9, <2>10, <2>11, <2>12 DEF Step, IInv
<1> QED
  BY <1>3, <1>4
\* A contact is handed copies of the items that exp describes.
LEMMA HandOver ==
  ASSUME ProcInv, now \in 0 .. MaxTime, now \in Int,
         NEW exp \in [Item -> {NotStored} \cup 0 .. Width - 1], NEW dist,
         NEW n \in Peer, NEW ours, OnNewContact(exp, dist, n, ours), alive' = alive
  PROVE  /\ ProcInv' /\ AbsStep
         /\ \A id \in StoreId :
              \/ data'[id] = data[id]
              \/ /\ data'[id].item \in Item /\ data'[id].begun = now
                 /\ (now + data'[id].time_to_live) % Width = exp[data'[id].item]
<1>1. PICK S : S = {i \in Item : /\ exp[i] # NotStored
                                 /\ \/ dist[i] # NotSet /\ Dist[i][n] < dist[i]
                                    \/ i \in ours}
  OBVIOUS
<1> DEFINE ttl == [i \in S |-> Remaining(exp[i])]
<1>2. StoreToNode(n, S, ttl, "item")
  BY <1>1 DEF OnNewContact
<1>3. S \in SUBSET Item /\ \A i \in S : exp[i] \in 0 .. Width - 1
  BY <1>1
<1>4. \A i \in S : Remaining(exp[i]) \in 0 .. Width - 1 /\ (now + Remaining(exp[i])) % Width = exp[i]
  <2>1. \A i \in S : exp[i] \in Int
    BY <1>3, Constants
  <2> QED
    BY <1>3, <2>1, RemainingType, RemainingReaches
<1>5. ttl \in [S -> 0 .. Width - 1] /\ \A i \in S : (now + ttl[i]) % Width = exp[i]
  BY <1>4
<1> HIDE DEF ttl
<1>6. /\ ProcInv' /\ AbsStep
      /\ \A p \in StoreId :
           \/ data'[p] = data[p]
           \/ \E i \in S : data'[p].item = i /\ data'[p].time_to_live = ttl[i]
                           /\ data'[p].begun = now
  BY <1>2, <1>3, <1>5, StoreToNodeProc
<1> QED
  BY <1>3, <1>5, <1>6

LEMMA NewContactStep ==
  ASSUME IInv, NEW n \in Peer, NEW ours \in SUBSET Item, NewContact(n, ours)
  PROVE  Step
<1>1. /\ OnNewContact(expiration_time, max_distance, n, ours)
      /\ UNCHANGED <<alive, now, items>> /\ RepeatedType'
  BY RunsRepeated DEF NewContact
<1>2. /\ expiration_time \in [Item -> {NotStored} \cup 0 .. Width - 1] /\ now \in Int
      /\ expiration_time' = expiration_time
  BY <1>1, Constants DEF items, IInv, ItemInv, ItemTypes
<1>3. /\ ProcInv' /\ AbsStep
      /\ \A id \in StoreId :
           \/ data'[id] = data[id]
           \/ /\ data'[id].item \in Item /\ data'[id].begun = now
              /\ (now + data'[id].time_to_live) % Width = expiration_time[data'[id].item]
  BY <1>1, <1>2, HandOver, NowType DEF IInv
<1>4. ItemInv'
  BY <1>1, UnchangedItems DEF IInv
<1>5. CopyInv'
  <2>1. Carried /\ Grows
    BY <1>2, <1>3, SameTimes DEF Carried
  <2> QED
    BY <1>3, <1>4, <2>1, StillKept
<1> QED
  BY <1>1, <1>3, <1>4, <1>5 DEF Step, IInv

LEMMA StoreRequestStep ==
  ASSUME IInv, NEW n \in Peer, NEW i \in Item, NEW ttl \in Ttl, OnStoreRequest(n, i, ttl)
  PROVE  Step
<1>1. PICK exp : exp = [expiration_time EXCEPT ![i] = Later(@, (now + ttl) % Width)]
  OBVIOUS
<1>2. PICK dist : dist = [max_distance EXCEPT ![i] = NotSet]
  OBVIOUS
<1>3. PICK t \in RepublishTimes : republish' = [republish EXCEPT ![i] = {now + t}]
  BY DEF OnStoreRequest, Replan
<1>4. /\ expiration_time' = exp /\ max_distance' = dist
      /\ UNCHANGED <<alive, now, removed_contacts>> /\ RepeatedType'
      /\ \/ UNCHANGED procedures
         \/ \E ours \in SUBSET Item : OnNewContact(exp, dist, n, ours)
  BY <1>1, <1>2, RunsRepeated DEF OnStoreRequest
<1>5. now \in Nat /\ ttl \in Nat /\ (now + ttl) % Width \in 0 .. Width - 1
  <2>1. now \in Nat /\ ttl \in Nat /\ Width \in Nat \ {0}
    BY Constants, StoringAssumption DEF IInv, ItemInv, ItemTypes
  <2> QED
    BY <2>1
<1>6. /\ exp \in [Item -> {NotStored} \cup 0 .. Width - 1] /\ expiration_time[i] <= exp[i]
      /\ exp[i] # NotStored /\ \A k \in Item : k # i => exp[k] = expiration_time[k]
  <2> DEFINE end == (now + ttl) % Width
  <2>1. expiration_time[i] \in {NotStored} \cup 0 .. Width - 1
    BY DEF IInv, ItemInv, ItemTypes
  <2>2. end \in 0 .. Width - 1
    BY <1>5
  <2> HIDE DEF end
  <2>3. /\ Later(expiration_time[i], end) \in 0 .. Width - 1
        /\ expiration_time[i] <= Later(expiration_time[i], end)
    BY <2>1, <2>2, Constants DEF Later, NotStored
  <2>4. exp = [expiration_time EXCEPT ![i] = Later(expiration_time[i], end)]
    BY <1>1 DEF end
  <2> QED
    BY <2>3, <2>4, Constants DEF NotStored, IInv, ItemInv, ItemTypes
<1>7. ItemInv'
  <2> DEFINE due == [k \in {i} |-> now + t]
  <2>1. due \in [{i} -> Nat] /\ {i} \in SUBSET Item
    BY <1>3, <1>5, Times
  <2>2. \A k \in {i} : due[k] >= now /\ due[k] <= now + republish_time + republish_time_delta
    BY <1>3, <1>5, Times
  <2>3. republish' = [k \in Item |-> IF k \in {i} THEN {due[k]} ELSE republish[k]]
    BY <1>3 DEF IInv, ItemInv, ItemTypes
  <2>4. \A k \in {i} : expiration_time'[k] # NotStored
    BY <1>4, <1>6
  <2>5. max_distance' \in [Item -> {NotSet} \cup Nat]
    BY <1>2, <1>4 DEF IInv, ItemInv, ItemTypes
  <2>6. removed_contacts' \in 0 .. republish_treshhold /\ UNCHANGED <<alive, now>>
    BY <1>4 DEF IInv, ItemInv, ItemTypes
  <2>7. /\ expiration_time' \in [Item -> {NotStored} \cup 0 .. Width - 1]
        /\ \A k \in Item : k \notin {i} => expiration_time'[k] = expiration_time[k]
    BY <1>4, <1>6
  <2> HIDE DEF due
  <2> QED
    BY <2>1, <2>2, <2>3, <2>4, <2>5, <2>6, <2>7, ReplanItems DEF IInv
<1>10. Grows
  <2>1. \A k \in Item : expiration_time[k] \in Int
    BY Constants DEF IInv, ItemInv, ItemTypes, NotStored
  <2> QED
    BY <1>4, <1>6, <2>1 DEF Grows
<1>8. CASE UNCHANGED procedures
  <2>1. ProcInv' /\ AbsStep
    BY <1>4, <1>8, SameProc DEF IInv
  <2>2. CopyInv'
    <3>1. Carried
      BY <1>8 DEF procedures, Carried
    <3> QED
      BY <1>7, <1>10, <2>1, <3>1, StillKept
  <2> QED
    BY <1>4, <1>7, <2>1, <2>2 DEF Step, IInv
<1>9. CASE \E ours \in SUBSET Item : OnNewContact(exp, dist, n, ours)
  <2>1. PICK ours \in SUBSET Item : OnNewContact(exp, dist, n, ours)
    BY <1>9, Zenon
  <2>2. now \in Int /\ now \in 0 .. MaxTime /\ exp \in [Item -> {NotStored} \cup 0 .. Width - 1]
    BY <1>5, <1>6, NowType
  <2>3. ProcInv /\ alive' = alive
    BY <1>4 DEF IInv
  <2>4. /\ ProcInv' /\ AbsStep
        /\ \A id \in StoreId :
             \/ data'[id] = data[id]
             \/ /\ data'[id].item \in Item /\ data'[id].begun = now
                /\ (now + data'[id].time_to_live) % Width = exp[data'[id].item]
    BY <2>1, <2>2, <2>3, HandOver, Zenon
  <2>5. CopyInv'
    <3>1. Carried
      BY <1>4, <2>4 DEF Carried
    <3> QED
      BY <1>7, <1>10, <2>4, <3>1, StillKept
  <2> QED
    BY <1>4, <1>7, <2>4, <2>5 DEF Step, IInv
<1> QED
  BY <1>4, <1>8, <1>9

LEMMA RemoveContactStep ==
  ASSUME IInv, NEW ours \in SUBSET Item, OnRemoveContact(ours)
  PROVE  Step
<1>1. PICK S : S = IF removed_contacts + 1 >= republish_treshhold THEN Stored \cap ours ELSE {}
  OBVIOUS
<1>2. PICK t \in [S -> RepublishDeltas] :
        republish' = [i \in Item |-> IF i \in S THEN {now + t[i]} ELSE republish[i]]
  BY <1>1 DEF OnRemoveContact, Replan
<1>3. /\ removed_contacts' = IF removed_contacts + 1 >= republish_treshhold THEN 0 ELSE removed_contacts + 1
      /\ UNCHANGED <<expiration_time, max_distance, procedures, alive, now>>
      /\ RepeatedType'
  BY RunsRepeated DEF OnRemoveContact
<1>4. S \in SUBSET Item /\ \A i \in S : expiration_time[i] # NotStored
  BY <1>1 DEF Stored
<1>5. now \in Nat
  BY Constants DEF IInv, ItemInv, ItemTypes
<1>6. ItemInv'
  <2> DEFINE due == [i \in S |-> now + t[i]]
  <2>1. due \in [S -> Nat]
    BY <1>2, <1>5, Times
  <2>2. \A i \in S : due[i] >= now /\ due[i] <= now + republish_time + republish_time_delta
    BY <1>2, <1>5, Times
  <2>3. republish' = [i \in Item |-> IF i \in S THEN {due[i]} ELSE republish[i]]
    BY <1>2
  <2>4. removed_contacts' \in 0 .. republish_treshhold
    BY <1>3, Times DEF IInv, ItemInv, ItemTypes
  <2>5. /\ expiration_time' \in [Item -> {NotStored} \cup 0 .. Width - 1]
        /\ max_distance' \in [Item -> {NotSet} \cup Nat]
        /\ \A i \in S : expiration_time'[i] # NotStored
    BY <1>3, <1>4 DEF IInv, ItemInv, ItemTypes
  <2> HIDE DEF due
  <2> QED
    BY <1>3, <1>4, <2>1, <2>2, <2>3, <2>4, <2>5, ReplanItems DEF IInv
<1>7. ProcInv' /\ AbsStep
  BY <1>3, SameProc DEF IInv
<1>8. CopyInv'
  <2>1. Carried /\ Grows
    BY <1>3, SameTimes DEF procedures, Carried
  <2> QED
    BY <1>6, <1>7, <2>1, StillKept
<1> QED
  BY <1>3, <1>6, <1>7, <1>8 DEF Step, IInv

LEMMA RepublishStep ==
  ASSUME IInv, NEW i \in Item, RepublishItem(i)
  PROVE  Step
<1>1. /\ now \in republish[i] /\ RepeatedType'
      /\ UNCHANGED <<alive, now, expiration_time, max_distance, removed_contacts>>
  BY RunsRepeated DEF RepublishItem
<1>2. /\ now \in Nat /\ expiration_time[i] \in {NotStored} \cup 0 .. Width - 1
      /\ expiration_time[i] # NotStored
  BY <1>1, Constants DEF IInv, ItemInv, ItemTypes, RepublishIsScheduled
<1>3. republish[i] \ {now} = {}
  BY <1>1 DEF IInv, ItemInv, RepublishIsScheduled
<1>4. /\ expiration_time' \in [Item -> {NotStored} \cup 0 .. Width - 1]
      /\ max_distance' \in [Item -> {NotSet} \cup Nat]
      /\ removed_contacts' \in 0 .. republish_treshhold
  BY <1>1 DEF IInv, ItemInv, ItemTypes
<1>5. CASE now >= expiration_time[i]
  <2>1. republish' = [republish EXCEPT ![i] = {}] /\ UNCHANGED procedures
    BY <1>3, <1>5 DEF RepublishItem
  <2>2. ItemTypes'
    BY <1>1, <2>1 DEF IInv, ItemInv, ItemTypes
  <2>3. RepublishIsScheduled'
    <3>1. \A k \in Item : republish'[k] = IF k = i THEN {} ELSE republish[k]
      BY <2>1 DEF IInv, ItemInv, ItemTypes
    <3>2. ~(expiration_time[i] > now)
      BY <1>2, <1>5, Constants DEF NotStored
    <3> QED
      BY <1>1, <3>1, <3>2 DEF IInv, ItemInv, RepublishIsScheduled
  <2>4. ProcInv' /\ AbsStep
    BY <1>1, <2>1, SameProc DEF IInv
  <2>5. CopyInv'
    <3>1. Carried /\ Grows
      BY <1>1, <2>1, SameTimes DEF procedures, Carried
    <3>2. ItemInv'
      BY <2>2, <2>3 DEF ItemInv
    <3> QED
      BY <2>4, <3>1, <3>2, StillKept
  <2> QED
    BY <1>1, <2>2, <2>3, <2>4, <2>5 DEF Step, IInv, ItemInv
<1>6. CASE ~(now >= expiration_time[i])
  <2>1. PICK t \in RepublishTimes : republish' = [republish EXCEPT ![i] = {now + t}]
    BY <1>3, <1>6 DEF RepublishItem, NextTime
  <2>2. PICK ttl : ttl = Remaining(expiration_time[i])
    OBVIOUS
  <2>3. Store(i, ttl, "item")
    BY <1>6, <2>2 DEF RepublishItem
  <2>4. /\ expiration_time[i] \in 0 .. Width - 1
        /\ ttl \in 0 .. Width - 1 /\ (now + ttl) % Width = expiration_time[i]
    <3>1. expiration_time[i] \in 0 .. Width - 1 /\ expiration_time[i] \in Int
      BY <1>2, Constants
    <3> QED
      BY <1>2, <2>2, <3>1, RemainingType, RemainingReaches
  <2>5. ProcInv' /\ AbsStep
    BY <1>1, <2>3, <2>4, StoreProc, NowType DEF IInv
  <2>6. ItemInv'
    <3> DEFINE due == [k \in {i} |-> now + t]
    <3>1. due \in [{i} -> Nat] /\ {i} \in SUBSET Item
      BY <1>2, <2>1, Times
    <3>2. \A k \in {i} : due[k] >= now /\ due[k] <= now + republish_time + republish_time_delta
      BY <1>2, <2>1, Times
    <3>3. republish' = [k \in Item |-> IF k \in {i} THEN {due[k]} ELSE republish[k]]
      BY <2>1 DEF IInv, ItemInv, ItemTypes
    <3>4. /\ \A k \in {i} : expiration_time'[k] # NotStored
          /\ \A k \in Item : k \notin {i} => expiration_time'[k] = expiration_time[k]
      BY <1>1, <1>2
    <3> HIDE DEF due
    <3> QED
      BY <1>1, <1>4, <3>1, <3>2, <3>3, <3>4, ReplanItems DEF IInv
  <2>7. CopyInv'
    <3>1. \A id \in StoreId :
            \/ data'[id] = data[id]
            \/ data'[id].item = i /\ data'[id].time_to_live = ttl /\ data'[id].begun = now
      BY <2>3 DEF Store, Call, IInv, ProcInv, ProcTypes
    <3>2. Carried /\ Grows
      BY <1>1, <2>4, <3>1, SameTimes DEF Carried
    <3> QED
      BY <2>5, <2>6, <3>2, StillKept
  <2> QED
    BY <1>1, <2>5, <2>6, <2>7 DEF Step, IInv
<1> QED
  BY <1>5, <1>6

LEMMA TickStep ==
  ASSUME IInv, Tick
  PROVE  Step
<1>1. /\ now' = now + 1 /\ now < MaxTime /\ repeated' = NoRequest
      /\ \A i \in Item : now \notin republish[i]
      /\ UNCHANGED <<alive, expiration_time, max_distance, republish, removed_contacts, procedures>>
  BY DEF Tick, items
<1>2. ProcInv' /\ AbsStep
  BY <1>1, SameProc DEF IInv
<1>3. now \in Nat /\ ItemTypes'
  BY <1>1, Constants DEF IInv, ItemInv, ItemTypes
<1>4. RepublishIsScheduled'
  <2>1. ASSUME NEW i \in Item
        PROVE  /\ \A t1, t2 \in republish'[i] : t1 = t2
               /\ \A t \in republish'[i] : t \in now' .. now' + republish_time + republish_time_delta
               /\ expiration_time'[i] = NotStored => republish'[i] = {}
               /\ expiration_time'[i] > now' => republish'[i] # {}
    <3>1. \A t \in republish[i] : t \in now .. now + republish_time + republish_time_delta /\ t # now
      BY <1>1 DEF IInv, ItemInv, RepublishIsScheduled
    <3>2. \A t \in republish[i] : t \in now' .. now' + republish_time + republish_time_delta
      BY <1>1, <1>3, <3>1, Times
    <3>3. expiration_time[i] \in Int
      BY Constants DEF NotStored, IInv, ItemInv, ItemTypes
    <3> QED
      BY <1>1, <1>3, <3>2, <3>3 DEF IInv, ItemInv, RepublishIsScheduled
  <2> QED
    BY <2>1 DEF RepublishIsScheduled
<1>5. CopyInv'
  <2>1. Carried /\ Grows
    BY <1>1, SameTimes DEF procedures, Carried
  <2>2. ItemInv'
    BY <1>3, <1>4 DEF ItemInv
  <2> QED
    BY <1>2, <2>1, <2>2, StillKept
<1>6. RepeatedType'
  BY <1>1 DEF RepeatedType
<1> QED
  BY <1>2, <1>3, <1>4, <1>5, <1>6 DEF Step, IInv, ItemInv

LEMMA TerminateStep ==
  ASSUME IInv, Terminate
  PROVE  Step
<1>1. /\ alive' = FALSE /\ repeated' = NoRequest
      /\ expiration_time' = [i \in Item |-> NotStored]
      /\ republish' = [i \in Item |-> {}]
      /\ UNCHANGED <<now, max_distance, removed_contacts>>
      /\ Report(Live, "TERMINATED")
  BY DEF Terminate, DeleteStore
<1>2. ProcInv' /\ AbsStep
  BY TerminateProc DEF IInv
<1>3. ItemTypes' /\ now \in Nat
  <2>1. now \in Nat
    BY Constants DEF IInv, ItemInv, ItemTypes
  <2>2. expiration_time' \in [Item -> {NotStored} \cup 0 .. Width - 1]
    BY <1>1
  <2>3. republish' \in [Item -> SUBSET Nat]
    BY <1>1
  <2>4. alive' \in BOOLEAN
    BY <1>1, Zenon
  <2> QED
    BY <1>1, <2>1, <2>2, <2>3, <2>4 DEF IInv, ItemInv, ItemTypes
<1>4. RepublishIsScheduled'
  <2>1. ~(NotStored > now)
    BY <1>3 DEF NotStored
  <2> QED
    BY <1>1, <2>1 DEF RepublishIsScheduled
<1>5. CopyInv'
  BY <1>1 DEF Report, Live, CopyInv
<1>6. RepeatedType'
  BY <1>1 DEF RepeatedType
<1> QED
  BY <1>2, <1>3, <1>4, <1>5, <1>6 DEF Step, IInv, ItemInv

LEMMA StutterStep ==
  ASSUME IInv, UNCHANGED vars
  PROVE  Step
<1>1. UNCHANGED <<alive, now, items>> /\ UNCHANGED procedures /\ repeated' = repeated
  BY DEF vars
<1>2. ProcInv' /\ AbsStep
  BY <1>1, SameProc DEF IInv
<1>3. ItemInv'
  BY <1>1, UnchangedItems DEF IInv
<1>4. CopyInv'
  BY <1>1 DEF items, procedures, IInv, CopyInv
<1>5. RepeatedType'
  BY <1>1 DEF IInv, RepeatedType
<1> QED
  BY <1>2, <1>3, <1>4, <1>5 DEF Step, IInv

LEMMA NextStep == IInv /\ [Next]_vars => Step
<1> SUFFICES ASSUME IInv, [Next]_vars PROVE Step
  OBVIOUS
<1> QED
  BY StoreValueStep, StoreToFirstNodeStep, StoreRequestStep, SearchFoundStep, SearchFailedStep,
     ResponseStep, TimeoutStep, NewContactStep, RemoveContactStep, RepublishStep, TickStep,
     TerminateStep, StutterStep
  DEF Next

LEMMA InitIInv == Init => IInv /\ Abs!Init
<1> SUFFICES ASSUME Init PROVE IInv /\ Abs!Init
  OBVIOUS
<1>1. ItemInv
  BY Constants, Times DEF Init, ItemInv, ItemTypes, RepublishIsScheduled, NotStored
<1>2. ProcTypes /\ JobsArePending /\ ReportsAreHonest /\ Books
  BY Constants DEF Init, ProcTypes, JobsArePending, ReportsAreHonest, Books, Blank, Code
<1>3. Abs!Init
  BY DEF Init, Abs!Init, NoData
<1>4. CopyInv
  BY DEF Init, CopyInv
<1> QED
  BY <1>1, <1>2, <1>3, <1>4 DEF IInv, ProcInv, RepeatedType, Init

LEMMA IInvAlways == Spec => []IInv
<1>1. Init => IInv
  BY InitIInv
<1>2. IInv /\ [Next]_vars => IInv'
  BY NextStep DEF Step
<1> QED
  BY <1>1, <1>2, PTL DEF Spec

-----------------------------------------------------------------------------
\* Every variable always holds a value of its type; attempts never pass their bound.
THEOREM TypeCorrect == Spec => []TypeOK
<1>1. IInv => TypeOK
  BY DEF IInv, ItemInv, ItemTypes, ProcInv, ProcTypes, RepeatedType, TypeOK
<1> QED
  BY IInvAlways, <1>1, PTL

\* Timeouts and procedures always agree: StoreRequestTimeout never runs with a pointer
\* to a procedure or node that FinishStore or TerminateStoreRequests has freed.
THEOREM TimeoutsAreSafe == Spec => []JobsArePending
  BY IInvAlways, PTL DEF IInv, ProcInv

\* The callback given to Store is called once, and told the truth.
THEOREM HonestReports == Spec => []ReportsAreHonest
  BY IInvAlways, PTL DEF IInv, ProcInv

\* However StoreItem, OnRemoveContact and RepublishItem alternate, an item that has
\* not expired has exactly one job that will republish it in time.
THEOREM RepublishAlways == Spec => []RepublishIsScheduled
  BY IInvAlways, PTL DEF IInv, ItemInv

\* Taking the time of the search off the time a copy expires gives what was left when
\* the search began, whatever wrapped meanwhile.
LEMMA SearchTakenOff ==
  ASSUME NEW b \in Nat, NEW t \in Nat, now \in Nat
  PROVE  (((now + t) % Width) - (now - b)) % Width = (b + t) % Width
<1>1. PICK W \in Nat \ {0} : W = Width
  BY Constants
<1>2. PICK a \in Nat : a = now + t
  OBVIOUS
<1>3. PICK q \in Int : q = a \div W
  BY <1>1
<1>4. PICK r \in Int : r = a % W
  BY <1>1
<1>5. a = W * q + r
  BY <1>1, <1>2, <1>3, <1>4, SMT
<1>6. b + t = W * q + (r - (now - b))
  BY <1>2, <1>5
<1>7. PICK m \in Int : m = r - (now - b)
  BY <1>4
<1>8. (W * q + m) % W = m % W
  <2>1. PICK k \in Int : k = m \div W
    BY <1>1, <1>7
  <2>2. PICK e \in Int : e = m % W
    BY <1>1, <1>7
  <2>3. m = W * k + e /\ 0 <= e /\ e < W
    BY <1>1, <1>7, <2>1, <2>2, SMT
  <2>4. W * (q + k) = W * q + W * k
    BY <1>1, <1>3, <2>1, SMT
  <2>5. PICK j \in Int : j = q + k
    BY <1>3, <2>1
  <2>6. (W * j + e) % W = e
    BY <1>1, <2>2, <2>3, <2>5, SMT
  <2>7. W * j = W * q + W * k
    BY <2>4, <2>5
  <2>8. (W * q) + m = (W * j) + e
    <3>1. PICK x \in Int : x = W * q
      BY <1>1, <1>3, SMT
    <3>2. PICK y \in Int : y = W * k
      BY <1>1, <2>1, SMT
    <3>3. m = y + e /\ W * j = x + y
      BY <2>3, <2>7, <3>1, <3>2
    <3>4. x + m = (x + y) + e
      BY ONLY <3>3, x \in Int, y \in Int, e \in Int, m \in Int
    <3> QED
      BY <3>1, <3>3, <3>4
  <2> QED
    BY <2>2, <2>6, <2>8
<1> QED
  BY <1>1, <1>2, <1>4, <1>6, <1>7, <1>8

\* A copy that OnNewContact and RepublishItem hand on never outlives the item by more
\* than the search for the nodes took, for any width of the unsigned times, although
\* StoreItem may change the item meanwhile and the times may wrap.
THEOREM CopiesOutliveBySearch == Spec => CopyOutlivesBySearch
<1>1. IInv /\ [Next]_vars =>
        [\A id \in store_requests' \ store_requests :
           data'[id].caller = "item" =>
             (CopyExpires(data'[id]) - (now - data'[id].begun)) % Width
               <= expiration_time'[data'[id].item]]_vars
  <2> SUFFICES ASSUME IInv, [Next]_vars, NEW id \in store_requests' \ store_requests,
                      data'[id].caller = "item"
               PROVE  (CopyExpires(data'[id]) - (now - data'[id].begun)) % Width
                        <= expiration_time'[data'[id].item]
    OBVIOUS
  <2>1. IInv'
    BY NextStep DEF Step
  <2>2. id \in StoreId /\ data'[id] # NoData
    BY <2>1 DEF IInv, ProcInv, ProcTypes, Books
  <2>3. PICK d \in Datum : d = data'[id]
    BY <2>1, <2>2 DEF IInv, ProcInv, ProcTypes
  <2>4. (d.begun + d.time_to_live) % Width <= expiration_time'[d.item]
    BY <2>1, <2>2, <2>3 DEF IInv, CopyInv
  <2>5. now \in Nat /\ d.begun \in Nat /\ d.time_to_live \in Nat
    BY NowType, Constants DEF Datum
  <2>6. (CopyExpires(d) - (now - d.begun)) % Width = (d.begun + d.time_to_live) % Width
    BY <2>5, SearchTakenOff DEF CopyExpires
  <2> QED
    BY <2>3, <2>4, <2>6
<1> QED
  BY IInvAlways, <1>1, PTL DEF Spec, CopyOutlivesBySearch

\* A store procedure asks each of its nodes, hears it or gives it up, once, and is over
\* with the last one, also those that StoreToNode begins several of at once.
THEOREM Refinement == Spec => ImplementsAskAll
<1>1. Init => Abs!Init
  BY InitIInv
<1>2. IInv /\ [Next]_vars => [Abs!Next]_(Abs!vars)
  BY NextStep DEF Step, AbsStep
<1> QED
  BY IInvAlways, <1>1, <1>2, PTL DEF Spec, ImplementsAskAll, Abs!Spec
=============================================================================
