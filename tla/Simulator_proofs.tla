-------------------------- MODULE Simulator_proofs --------------------------
(***************************************************************************)
(* What holds of the simulation of every number of nodes and values, for   *)
(* every K and alpha.                                                      *)
(*                                                                         *)
(* NodeInv is what the join procedure keeps of one node, through every     *)
(* callback; IInv adds that the jobs of the scheduler fit the nodes, and   *)
(* that the values stored so far are those above values_counter, each once.*)
(* What Terminate leaves of a node is proved by induction over the pings   *)
(* that it terminates, each of which may start another ping or the search. *)
(***************************************************************************)
EXTENDS Simulator, FiniteSetTheorems, SequenceTheorems, TLAPS

USE JoiningAssumption, SimulatorAssumption


-----------------------------------------------------------------------------
(* One node                                                                *)

\* The pings of a node have ids of their own, below those to come, and are counted.
PingsFit(nd) ==
  /\ IsFiniteSet(nd.pings)
  /\ \A p \in nd.pings : p[1] < nd.ping_id_counter
  /\ nd.join_pinging_nodesN = Cardinality(nd.pings)
  /\ nd.join_pinging_nodesN <= alpha

\* alpha contacts are pinged while any are left.
ListFits(nd) == nd.join_bootstrap_contacts # <<>> => nd.join_pinging_nodesN = alpha

\* A search is under way in one state only; it is tried again if there were contacts
\* left, and no other search starts while there are any.
SearchFits(nd) ==
  /\ nd.search # "none" <=> nd.join_state = "FIND_NODES_STARTED"
  /\ nd.search = "once" => nd.join_bootstrap_contacts = <<>>
  /\ nd.join_state = "NOT_JOINED" /\ nd.join_succeedN >= K => nd.join_bootstrap_contacts = <<>>

\* SucceedIsLast and JoinGoesOn for one node.
CallsFit(nd) ==
  \A n \in 1 .. Len(nd.calls) :
    nd.calls[n] = "SUCCEED" <=> n = Len(nd.calls) /\ nd.join_state = "JOINED"

GoesOn(nd) ==
  \/ nd.join_state = "JOINED"
  \/ nd.pings # {} \/ nd.search # "none"
  \/ nd.calls # <<>> /\ Last(nd.calls) = "FAILED"

NodeInv(nd) ==
  nd \in Node(Everyone) /\ PingsFit(nd) /\ ListFits(nd) /\ SearchFits(nd) /\ CallsFit(nd) /\ GoesOn(nd)

LEMMA PingMoreFacts ==
  ASSUME NEW nd \in Node(Everyone), PingsFit(nd)
  PROVE  /\ PingMore(nd) \in Node(Everyone)
         /\ PingsFit(PingMore(nd))
         /\ ListFits(PingMore(nd))
         /\ PingMore(nd).join_state = nd.join_state
         /\ PingMore(nd).join_succeedN = nd.join_succeedN
         /\ PingMore(nd).search = nd.search
         /\ PingMore(nd).calls = nd.calls
         /\ nd.join_bootstrap_contacts = <<>> => PingMore(nd).join_bootstrap_contacts = <<>>
         /\ nd.join_bootstrap_contacts # <<>> /\ nd.join_pinging_nodesN < alpha => PingMore(nd).pings # {}
         /\ nd.pings \subseteq PingMore(nd).pings
<1>1. PICK list : list = nd.join_bootstrap_contacts
  OBVIOUS
<1>2. PICK n : n = IF alpha - nd.join_pinging_nodesN < Len(list) THEN alpha - nd.join_pinging_nodesN ELSE Len(list)
  OBVIOUS
<1>3. PICK c : c = nd.ping_id_counter
  OBVIOUS
<1>4. PICK B : B = {<<c + k, list[Len(list) - k]>> : k \in 0 .. n - 1}
  OBVIOUS
<1>5. PICK new : new = PingMore(nd)
  OBVIOUS
<1>6. new = [nd EXCEPT !.pings = @ \cup B,
                       !.join_bootstrap_contacts = SubSeq(list, 1, Len(list) - n),
                       !.join_pinging_nodesN = @ + n,
                       !.ping_id_counter = @ + n]
  BY <1>1, <1>2, <1>3, <1>4, <1>5 DEF PingMore
<1>7. /\ list \in Seq(Everyone) /\ Len(list) \in Nat
      /\ nd.join_pinging_nodesN \in Nat /\ nd.join_pinging_nodesN <= alpha
      /\ c \in Nat /\ nd.pings \in SUBSET (Nat \X Everyone)
      /\ IsFiniteSet(nd.pings)
      /\ nd.join_pinging_nodesN = Cardinality(nd.pings)
      /\ \A p \in nd.pings : p[1] < c
  BY <1>1, <1>3, FS_CardinalityType DEF Node, PingsFit
<1>8. n \in Nat /\ n <= Len(list) /\ nd.join_pinging_nodesN + n <= alpha
  BY <1>2, <1>7
<1>9. /\ B \in SUBSET (Nat \X Everyone)
      /\ \A p \in B : c <= p[1] /\ p[1] < c + n
  BY <1>4, <1>7, <1>8
<1>10. IsFiniteSet(B) /\ Cardinality(B) = n
  <2>1. IsFiniteSet(0 .. n - 1) /\ Cardinality(0 .. n - 1) = n
    BY <1>8, FS_Interval
  <2> DEFINE f == [k \in 0 .. n - 1 |-> <<c + k, list[Len(list) - k]>>]
  <2>2. f \in Bijection(0 .. n - 1, B)
    <3>1. f \in [0 .. n - 1 -> B]
      BY <1>4
    <3>2. \A a, b \in 0 .. n - 1 : f[a] = f[b] => a = b
      BY <1>7
    <3>3. \A b \in B : \E a \in 0 .. n - 1 : f[a] = b
      BY <1>4
    <3> QED
      BY <3>1, <3>2, <3>3, Zenon DEF Bijection, Injection, Surjection, IsInjective
  <2>3. ExistsBijection(0 .. n - 1, B)
    BY <2>2 DEF ExistsBijection
  <2> QED
    BY <2>1, <2>3, FS_Bijection
<1>11. /\ IsFiniteSet(nd.pings \cup B)
       /\ Cardinality(nd.pings \cup B) = nd.join_pinging_nodesN + n
  <2>1. nd.pings \cap B = {}
    BY <1>7, <1>9
  <2>2. Cardinality(nd.pings \cup B) = Cardinality(nd.pings) + Cardinality(B) - 0
    BY <1>7, <1>10, <2>1, FS_Union, FS_EmptySet
  <2>3. IsFiniteSet(nd.pings \cup B)
    BY <1>7, <1>10, FS_Union
  <2>4. Cardinality(nd.pings) + Cardinality(B) - 0 = nd.join_pinging_nodesN + n
    BY <1>7, <1>8, <1>10
  <2> QED
    BY <2>2, <2>3, <2>4
<1>12. /\ SubSeq(list, 1, Len(list) - n) \in Seq(Everyone)
       /\ Len(SubSeq(list, 1, Len(list) - n)) = Len(list) - n
  BY <1>7, <1>8, SubSeqProperties
<1>13. /\ new.pings = nd.pings \cup B
       /\ new.join_bootstrap_contacts = SubSeq(list, 1, Len(list) - n)
       /\ new.join_pinging_nodesN = nd.join_pinging_nodesN + n
       /\ new.ping_id_counter = c + n
       /\ new.join_state = nd.join_state
       /\ new.join_succeedN = nd.join_succeedN
       /\ new.search = nd.search
       /\ new.calls = nd.calls
  BY <1>3, <1>6 DEF Node
<1>14. new \in Node(Everyone)
  <2>1. new.pings \in SUBSET (Nat \X Everyone) /\ new.ping_id_counter \in Nat /\ new.join_pinging_nodesN \in Int
    BY <1>7, <1>8, <1>9, <1>13
  <2> QED
    BY <1>6, <1>12, <1>13, <2>1 DEF Node
<1>15. PingsFit(new)
  <2>1. \A p \in new.pings : p[1] < new.ping_id_counter
    BY <1>7, <1>8, <1>9, <1>13
  <2> QED
    BY <1>8, <1>11, <1>13, <2>1 DEF PingsFit
<1>16. list # <<>> <=> Len(list) # 0
  BY <1>7
<1>17. ListFits(new)
  <2> SUFFICES ASSUME new.join_bootstrap_contacts # <<>> PROVE new.join_pinging_nodesN = alpha
    BY DEF ListFits
  <2>1. Len(list) - n # 0
    BY <1>12, <1>13
  <2> QED
    BY <1>2, <1>7, <1>13, <2>1
<1>18. list = <<>> => new.join_bootstrap_contacts = <<>>
  BY <1>7, <1>8, <1>12, <1>13
<1>19. list # <<>> /\ nd.join_pinging_nodesN < alpha => new.pings # {}
  <2> SUFFICES ASSUME list # <<>>, nd.join_pinging_nodesN < alpha PROVE new.pings # {}
    OBVIOUS
  <2>1. n # 0
    BY <1>2, <1>7, <1>16
  <2>2. B # {}
    BY <1>10, <2>1, FS_EmptySet
  <2> QED
    BY <1>13, <2>2
<1> QED
  BY <1>1, <1>5, <1>13, <1>14, <1>15, <1>17, <1>18, <1>19

\* A search starts, in a node that has none: it will be tried again if contacts are left.
LEMMA StartSearchFacts ==
  ASSUME NEW nd \in Node(Everyone)
  PROVE  /\ StartSearch(nd) \in Node(Everyone)
         /\ StartSearch(nd).join_state = "FIND_NODES_STARTED"
         /\ StartSearch(nd).search = IF nd.join_bootstrap_contacts # <<>> THEN "again" ELSE "once"
         /\ StartSearch(nd).join_bootstrap_contacts = nd.join_bootstrap_contacts
         /\ StartSearch(nd).join_pinging_nodesN = nd.join_pinging_nodesN
         /\ StartSearch(nd).ping_id_counter = nd.ping_id_counter
         /\ StartSearch(nd).pings = nd.pings
         /\ StartSearch(nd).calls = nd.calls
  BY DEF StartSearch, Node

LEMMA CallBackFacts ==
  ASSUME NEW nd \in Node(Everyone), NEW code \in {"SUCCEED", "FAILED"}
  PROVE  /\ CallBack(nd, code) \in Node(Everyone)
         /\ CallBack(nd, code).join_state = nd.join_state
         /\ CallBack(nd, code).search = nd.search
         /\ CallBack(nd, code).join_bootstrap_contacts = nd.join_bootstrap_contacts
         /\ CallBack(nd, code).join_pinging_nodesN = nd.join_pinging_nodesN
         /\ CallBack(nd, code).join_succeedN = nd.join_succeedN
         /\ CallBack(nd, code).ping_id_counter = nd.ping_id_counter
         /\ CallBack(nd, code).pings = nd.pings
         /\ Len(CallBack(nd, code).calls) = Len(nd.calls) + 1
         /\ CallBack(nd, code).calls # nd.calls
         /\ CallBack(nd, code).calls # <<>>
         /\ Last(CallBack(nd, code).calls) = code
         /\ \A n \in 1 .. Len(nd.calls) : CallBack(nd, code).calls[n] = nd.calls[n]
<1>1. nd.calls \in Seq({"SUCCEED", "FAILED"})
  BY DEF Node
<1>2. PICK calls : calls = Append(nd.calls, code)
  OBVIOUS
<1>3. /\ calls \in Seq({"SUCCEED", "FAILED"})
      /\ Len(calls) = Len(nd.calls) + 1
      /\ calls[Len(calls)] = code
      /\ \A n \in 1 .. Len(nd.calls) : calls[n] = nd.calls[n]
  BY <1>1, <1>2, AppendProperties
<1>4. calls # nd.calls /\ calls # <<>> /\ Last(calls) = code
  BY <1>1, <1>3 DEF Last
<1>5. PICK new : new = CallBack(nd, code)
  OBVIOUS
<1>6. new = [nd EXCEPT !.calls = calls]
  BY <1>2, <1>5 DEF CallBack
<1>7. /\ new \in Node(Everyone)
      /\ new.calls = calls
      /\ new.join_state = nd.join_state
      /\ new.search = nd.search
      /\ new.join_bootstrap_contacts = nd.join_bootstrap_contacts
      /\ new.join_pinging_nodesN = nd.join_pinging_nodesN
      /\ new.join_succeedN = nd.join_succeedN
      /\ new.ping_id_counter = nd.ping_id_counter
      /\ new.pings = nd.pings
  BY <1>3, <1>6 DEF Node
<1> QED
  BY <1>3, <1>4, <1>5, <1>7

\* The ping p has ended, and nothing was made of it yet.
LEMMA PingEndedFacts ==
  ASSUME NEW nd, NodeInv(nd), NEW p \in nd.pings, NEW code,
         NEW new, new = PingEnded(nd, p, code)
  PROVE  /\ new \in Node(Everyone)
         /\ PingsFit(new)
         /\ new.join_pinging_nodesN < alpha
         /\ new.join_state = nd.join_state
         /\ new.search = nd.search
         /\ new.calls = nd.calls
         /\ new.join_bootstrap_contacts = nd.join_bootstrap_contacts
         /\ new.join_succeedN = IF code = "SUCCEED" THEN nd.join_succeedN + 1 ELSE nd.join_succeedN
<1>1. /\ nd \in Node(Everyone)
      /\ nd.pings \in SUBSET (Nat \X Everyone)
      /\ nd.join_pinging_nodesN \in Int
      /\ nd.join_succeedN \in Nat
      /\ IsFiniteSet(nd.pings)
      /\ nd.join_pinging_nodesN = Cardinality(nd.pings)
      /\ nd.join_pinging_nodesN <= alpha
  BY DEF NodeInv, Node, PingsFit
<1>2. /\ new \in Node(Everyone)
      /\ new.pings = nd.pings \ {p}
      /\ new.join_pinging_nodesN = nd.join_pinging_nodesN - 1
      /\ new.join_state = nd.join_state
      /\ new.search = nd.search
      /\ new.calls = nd.calls
      /\ new.ping_id_counter = nd.ping_id_counter
      /\ new.join_bootstrap_contacts = nd.join_bootstrap_contacts
      /\ new.join_succeedN = IF code = "SUCCEED" THEN nd.join_succeedN + 1 ELSE nd.join_succeedN
  <2>1. PICK s \in Nat : s = IF code = "SUCCEED" THEN nd.join_succeedN + 1 ELSE nd.join_succeedN
    BY <1>1
  <2>2. PICK q \in SUBSET (Nat \X Everyone) : q = nd.pings \ {p}
    BY <1>1
  <2>3. PICK n \in Int : n = nd.join_pinging_nodesN - 1
    BY <1>1
  <2>6. PICK rs \in SUBSET (Nat \X Nat) : rs = {r \in nd.repeats : r[1] # p[1]}
    BY <1>1 DEF Node
  <2>4. new = [nd EXCEPT !.pings = q, !.repeats = rs, !.join_pinging_nodesN = n,
                         !.join_succeedN = s]
    BY <2>1, <2>2, <2>3, <2>6 DEF PingEnded
  <2>5. /\ new \in Node(Everyone)
        /\ new.pings = q
        /\ new.join_pinging_nodesN = n
        /\ new.join_state = nd.join_state
        /\ new.search = nd.search
        /\ new.calls = nd.calls
        /\ new.ping_id_counter = nd.ping_id_counter
        /\ new.join_bootstrap_contacts = nd.join_bootstrap_contacts
        /\ new.join_succeedN = s
    BY <1>1, <2>4 DEF Node
  <2> QED
    BY <2>1, <2>2, <2>3, <2>5
<1>3. /\ IsFiniteSet(nd.pings \ {p})
      /\ Cardinality(nd.pings \ {p}) = nd.join_pinging_nodesN - 1
  <2>1. PICK ps : ps = nd.pings
    OBVIOUS
  <2>2. /\ IsFiniteSet(ps)
        /\ p \in ps
        /\ Cardinality(ps) = nd.join_pinging_nodesN
    BY <1>1, <2>1
  <2>3. /\ IsFiniteSet(ps \ {p})
        /\ Cardinality(ps \ {p}) = Cardinality(ps) - 1
    BY <2>2, FS_RemoveElement
  <2> QED
    BY <2>1, <2>2, <2>3
<1>4. PingsFit(new)
  BY <1>1, <1>2, <1>3 DEF PingsFit, NodeInv
<1> QED
  BY <1>1, <1>2, <1>4

\* A ping is sent again; that changes nothing else.
LEMMA AttemptsType ==
  ASSUME NEW nd, NEW p
  PROVE  Attempts(nd, p) \in Nat
<1> DEFINE ks == {k \in 1 .. attempts_number : <<p[1], k>> \in nd.repeats}
<1>1. IsFiniteSet(1 .. attempts_number) /\ ks \subseteq 1 .. attempts_number
  BY FS_Interval
<1> HIDE DEF ks
<1>2. Cardinality(ks) \in Nat
  BY <1>1, FS_Subset, FS_CardinalityType
<1> QED
  BY <1>2 DEF ks, Attempts

LEMMA PingRepeatedFacts ==
  ASSUME NEW nd, NodeInv(nd), NEW p \in nd.pings, NEW new, new = PingRepeated(nd, p)
  PROVE  NodeInv(new) /\ new.join_state = nd.join_state /\ new.calls = nd.calls
<1>1. nd \in Node(Everyone) /\ p[1] \in Nat
  BY DEF NodeInv, Node
<1>2. PICK rs \in SUBSET (Nat \X Nat) : rs = nd.repeats \cup {<<p[1], Attempts(nd, p) + 1>>}
  <2>1. nd.repeats \in SUBSET (Nat \X Nat)
    BY <1>1 DEF Node
  <2>2. PICK k \in Nat : k = Attempts(nd, p) + 1
    BY AttemptsType
  <2>3. <<p[1], k>> \in Nat \X Nat
    BY <1>1, <2>2
  <2> QED
    BY <2>1, <2>2, <2>3
<1>3. new = [nd EXCEPT !.repeats = rs]
  BY <1>2 DEF PingRepeated
<1>4. /\ new \in Node(Everyone)
      /\ new.join_state = nd.join_state
      /\ new.join_bootstrap_contacts = nd.join_bootstrap_contacts
      /\ new.join_pinging_nodesN = nd.join_pinging_nodesN
      /\ new.join_succeedN = nd.join_succeedN
      /\ new.ping_id_counter = nd.ping_id_counter
      /\ new.pings = nd.pings
      /\ new.search = nd.search
      /\ new.calls = nd.calls
  BY <1>1, <1>3 DEF Node
<1> QED
  BY <1>4 DEF NodeInv, PingsFit, ListFits, SearchFits, CallsFit, GoesOn

\* A ping ends, however it ends.
LEMMA PingCallbackFacts ==
  ASSUME NEW nd, NodeInv(nd), NEW p \in nd.pings, NEW code
  PROVE  LET new == Join_PingCallback(nd, p, code)
         IN  /\ NodeInv(new)
             /\ new.join_state = "JOINED" <=> nd.join_state = "JOINED"
             /\ \/ new.calls = nd.calls
                \/ new.calls # nd.calls /\ Last(new.calls) = "FAILED"
<1>1. PICK mid : mid = PingEnded(nd, p, code)
  OBVIOUS
<1>2. PICK new : new = Join_PingCallback(nd, p, code)
  OBVIOUS
<1>3. new = IF MaySearch(mid) /\ mid.join_succeedN = 0 THEN CallBack(mid, "FAILED")
            ELSE PingMore(IF MaySearch(mid) THEN StartSearch(mid) ELSE mid)
  BY <1>1, <1>2 DEF Join_PingCallback
<1>4. /\ mid \in Node(Everyone)
      /\ PingsFit(mid)
      /\ mid.join_pinging_nodesN < alpha
      /\ mid.join_state = nd.join_state
      /\ mid.search = nd.search
      /\ mid.calls = nd.calls
      /\ mid.join_bootstrap_contacts = nd.join_bootstrap_contacts
  BY <1>1, PingEndedFacts
<1>5. /\ mid.join_succeedN \in Nat
      /\ mid.join_state \in {"NOT_JOINED", "FIND_NODES_STARTED", "JOINED"}
      /\ mid.calls \in Seq({"SUCCEED", "FAILED"})
      /\ mid.search \in {"none", "once", "again"}
  BY <1>4 DEF Node
<1>6. SearchFits(nd) /\ CallsFit(nd) /\ GoesOn(nd)
  BY DEF NodeInv
<1>7. CASE MaySearch(mid) /\ mid.join_succeedN = 0
  <2>1. new = CallBack(mid, "FAILED")
    BY <1>3, <1>7
  <2>2. mid.join_bootstrap_contacts = <<>> /\ mid.join_state = "NOT_JOINED"
    BY <1>7, JoiningAssumption DEF MaySearch
  <2>3. /\ new \in Node(Everyone)
        /\ new.join_state = mid.join_state
        /\ new.search = mid.search
        /\ new.join_bootstrap_contacts = mid.join_bootstrap_contacts
        /\ new.join_pinging_nodesN = mid.join_pinging_nodesN
        /\ new.ping_id_counter = mid.ping_id_counter
        /\ new.pings = mid.pings
        /\ Len(new.calls) = Len(mid.calls) + 1
        /\ new.calls # mid.calls
        /\ new.calls # <<>>
        /\ Last(new.calls) = "FAILED"
        /\ \A n \in 1 .. Len(mid.calls) : new.calls[n] = mid.calls[n]
    BY <1>4, <2>1, CallBackFacts
  <2>4. PingsFit(new) /\ ListFits(new)
    BY <1>4, <2>2, <2>3 DEF PingsFit, ListFits
  <2>5. SearchFits(new)
    BY <1>4, <1>6, <2>2, <2>3 DEF SearchFits
  <2>6. CallsFit(new)
    <3>1. Len(mid.calls) \in Nat /\ new.calls[Len(new.calls)] = "FAILED"
      BY <1>5, <2>3 DEF Last
    <3>2. \A n \in 1 .. Len(mid.calls) : mid.calls[n] # "SUCCEED"
      BY <1>4, <1>6, <2>2 DEF CallsFit
    <3>3. \A n \in 1 .. Len(new.calls) : n \in 1 .. Len(mid.calls) \/ n = Len(new.calls)
      BY <2>3, <3>1
    <3>4. \A n \in 1 .. Len(new.calls) : new.calls[n] # "SUCCEED"
      BY <2>3, <3>1, <3>2, <3>3
    <3> QED
      BY <2>2, <2>3, <3>4 DEF CallsFit
  <2>7. GoesOn(new)
    BY <2>3 DEF GoesOn
  <2> QED
    BY <1>2, <1>4, <2>2, <2>3, <2>4, <2>5, <2>6, <2>7 DEF NodeInv
<1>8. CASE MaySearch(mid) /\ mid.join_succeedN # 0
  <2>1. PICK st : st = StartSearch(mid)
    OBVIOUS
  <2>2. new = PingMore(st)
    BY <1>3, <1>8, <2>1
  <2>3. mid.join_state = "NOT_JOINED"
    BY <1>8 DEF MaySearch
  <2>4. /\ st \in Node(Everyone)
        /\ st.join_state = "FIND_NODES_STARTED"
        /\ st.search = IF mid.join_bootstrap_contacts # <<>> THEN "again" ELSE "once"
        /\ st.join_bootstrap_contacts = mid.join_bootstrap_contacts
        /\ st.join_pinging_nodesN = mid.join_pinging_nodesN
        /\ st.ping_id_counter = mid.ping_id_counter
        /\ st.pings = mid.pings
        /\ st.calls = mid.calls
    BY <1>4, <2>1, StartSearchFacts
  <2>5. PingsFit(st)
    BY <1>4, <2>4 DEF PingsFit
  <2>6. /\ new \in Node(Everyone) /\ PingsFit(new) /\ ListFits(new)
        /\ new.join_state = st.join_state
        /\ new.search = st.search
        /\ new.calls = st.calls
        /\ st.join_bootstrap_contacts = <<>> => new.join_bootstrap_contacts = <<>>
    BY <2>2, <2>4, <2>5, PingMoreFacts
  <2>7. SearchFits(new) /\ GoesOn(new)
    BY <2>4, <2>6 DEF SearchFits, GoesOn
  <2>8. CallsFit(new)
    BY <1>4, <1>6, <2>3, <2>4, <2>6 DEF CallsFit
  <2> QED
    BY <1>2, <1>4, <2>3, <2>4, <2>6, <2>7, <2>8 DEF NodeInv
<1>9. CASE ~MaySearch(mid)
  <2>1. new = PingMore(mid)
    BY <1>3, <1>9
  <2>2. /\ new \in Node(Everyone) /\ PingsFit(new) /\ ListFits(new)
        /\ new.join_state = mid.join_state
        /\ new.join_succeedN = mid.join_succeedN
        /\ new.search = mid.search
        /\ new.calls = mid.calls
        /\ mid.join_bootstrap_contacts = <<>> => new.join_bootstrap_contacts = <<>>
        /\ mid.join_bootstrap_contacts # <<>> => new.pings # {}
    BY <1>4, <2>1, PingMoreFacts
  <2>3. mid.join_state = "NOT_JOINED" => ~(mid.join_succeedN >= K) /\ mid.join_bootstrap_contacts # <<>>
    BY <1>9 DEF MaySearch
  <2>4. SearchFits(new)
    BY <1>4, <1>6, <2>2, <2>3 DEF SearchFits
  <2>5. GoesOn(new)
    BY <1>4, <1>5, <1>6, <2>2, <2>3 DEF SearchFits, GoesOn
  <2>6. CallsFit(new)
    BY <1>4, <1>6, <2>2 DEF CallsFit
  <2> QED
    BY <1>2, <1>4, <2>2, <2>4, <2>5, <2>6 DEF NodeInv
<1> QED
  BY <1>7, <1>8, <1>9

\* The search of the join procedure ends.
LEMMA FindNodeCallbackFacts ==
  ASSUME NEW nd, NodeInv(nd), nd.search # "none", NEW code
  PROVE  LET new == Join_FindNodeCallback(nd, code)
         IN  /\ NodeInv(new)
             /\ \/ new.calls = nd.calls /\ new.join_state # "JOINED"
                \/ new.calls # nd.calls /\ Last(new.calls) = "FAILED" /\ new.join_state # "JOINED"
                \/ new.calls # nd.calls /\ Last(new.calls) = "SUCCEED" /\ new.join_state = "JOINED"
             /\ nd.join_state # "JOINED"
<1>1. PICK new : new = Join_FindNodeCallback(nd, code)
  OBVIOUS
<1>2. /\ nd \in Node(Everyone) /\ PingsFit(nd) /\ ListFits(nd)
      /\ SearchFits(nd) /\ CallsFit(nd) /\ GoesOn(nd)
      /\ nd.join_state = "FIND_NODES_STARTED"
      /\ nd.search \in {"once", "again"}
      /\ nd.calls \in Seq({"SUCCEED", "FAILED"})
  BY DEF NodeInv, Node, SearchFits
<1>3. ASSUME NEW state \in {"JOINED", "NOT_JOINED"}, NEW c \in {"SUCCEED", "FAILED"},
             c = "SUCCEED" <=> state = "JOINED",
             state = "NOT_JOINED" => nd.search = "once",
             new = CallBack([nd EXCEPT !.join_state = state, !.search = "none"], c)
      PROVE  /\ NodeInv(new)
             /\ new.calls # nd.calls /\ Last(new.calls) = c /\ new.join_state = state
  <2>1. PICK mid : mid = [nd EXCEPT !.join_state = state, !.search = "none"]
    OBVIOUS
  <2>2. /\ mid \in Node(Everyone)
        /\ mid.join_state = state
        /\ mid.search = "none"
        /\ mid.pings = nd.pings
        /\ mid.ping_id_counter = nd.ping_id_counter
        /\ mid.join_pinging_nodesN = nd.join_pinging_nodesN
        /\ mid.join_bootstrap_contacts = nd.join_bootstrap_contacts
        /\ mid.calls = nd.calls
    BY <1>2, <2>1 DEF Node
  <2>3. /\ new \in Node(Everyone)
        /\ new.join_state = state
        /\ new.search = "none"
        /\ new.join_bootstrap_contacts = nd.join_bootstrap_contacts
        /\ new.join_pinging_nodesN = nd.join_pinging_nodesN
        /\ new.ping_id_counter = nd.ping_id_counter
        /\ new.pings = nd.pings
        /\ Len(new.calls) = Len(nd.calls) + 1
        /\ new.calls # nd.calls
        /\ new.calls # <<>>
        /\ Last(new.calls) = c
        /\ \A n \in 1 .. Len(nd.calls) : new.calls[n] = nd.calls[n]
    <3>1. new = CallBack(mid, c)
      BY <1>3, <2>1
    <3> QED
      BY <2>2, <3>1, CallBackFacts
  <2>4. PingsFit(new) /\ ListFits(new)
    BY <1>2, <2>3 DEF PingsFit, ListFits
  <2>5. SearchFits(new)
    BY <1>2, <1>3, <2>3 DEF SearchFits
  <2>6. CallsFit(new)
    BY <1>2, <1>3, <2>3 DEF CallsFit, Last
  <2>7. GoesOn(new)
    BY <1>3, <2>3 DEF GoesOn
  <2> QED
    BY <2>3, <2>4, <2>5, <2>6, <2>7 DEF NodeInv
<1>4. CASE code = "SUCCEED"
  <2>1. new = CallBack([nd EXCEPT !.join_state = "JOINED", !.search = "none"], "SUCCEED")
    BY <1>1, <1>4 DEF Join_FindNodeCallback
  <2> QED
    BY <1>1, <1>2, <1>3, <2>1
<1>5. CASE code # "SUCCEED" /\ nd.search = "again"
  <2>1. new = StartSearch(nd)
    BY <1>1, <1>5 DEF Join_FindNodeCallback
  <2>2. /\ new \in Node(Everyone)
        /\ new.join_state = "FIND_NODES_STARTED"
        /\ new.search = IF nd.join_bootstrap_contacts # <<>> THEN "again" ELSE "once"
        /\ new.join_bootstrap_contacts = nd.join_bootstrap_contacts
        /\ new.join_pinging_nodesN = nd.join_pinging_nodesN
        /\ new.ping_id_counter = nd.ping_id_counter
        /\ new.pings = nd.pings
        /\ new.calls = nd.calls
    BY <1>2, <2>1, StartSearchFacts
  <2>3. PingsFit(new) /\ ListFits(new) /\ SearchFits(new) /\ CallsFit(new) /\ GoesOn(new)
    BY <1>2, <2>2 DEF PingsFit, ListFits, SearchFits, CallsFit, GoesOn
  <2> QED
    BY <1>1, <1>2, <2>2, <2>3 DEF NodeInv
<1>6. CASE code # "SUCCEED" /\ nd.search # "again"
  <2>1. new = CallBack([nd EXCEPT !.join_state = "NOT_JOINED", !.search = "none"], "FAILED")
    BY <1>1, <1>6 DEF Join_FindNodeCallback
  <2> QED
    BY <1>1, <1>2, <1>3, <1>6, <2>1
<1> QED
  BY <1>4, <1>5, <1>6

\* A node as it is activated: it pings the first contacts.
LEMMA JoinNetworkFacts ==
  ASSUME NEW list \in Seq(Everyone), list # <<>>
  PROVE  LET new == JoinNetwork(list)
         IN  NodeInv(new) /\ new.join_state = "NOT_JOINED" /\ new.calls = <<>>
<1>1. PICK nd : nd = [NewNode EXCEPT !.join_bootstrap_contacts = list]
  OBVIOUS
<1>2. /\ nd \in Node(Everyone)
      /\ nd.pings = {} /\ nd.join_pinging_nodesN = 0
      /\ nd.join_state = "NOT_JOINED" /\ nd.search = "none" /\ nd.calls = <<>>
      /\ nd.join_succeedN = 0 /\ nd.join_bootstrap_contacts = list
  <2>1. nd = [join_state |-> "NOT_JOINED", join_bootstrap_contacts |-> list,
               join_pinging_nodesN |-> 0, join_succeedN |-> 0, ping_id_counter |-> 0,
               pings |-> {}, repeats |-> {}, search |-> "none", calls |-> <<>>]
    BY <1>1 DEF NewNode
  <2>2. /\ <<>> \in Seq({"SUCCEED", "FAILED"})
        /\ {} \in SUBSET (Nat \X Everyone) /\ {} \in SUBSET (Nat \X Nat)
    OBVIOUS
  <2>3. nd \in Node(Everyone)
    BY <2>1, <2>2 DEF Node
  <2> QED
    BY <2>1, <2>3
<1>3. PingsFit(nd)
  BY <1>2, FS_EmptySet DEF PingsFit
<1>4. PICK new : new = JoinNetwork(list)
  OBVIOUS
<1>5. new = PingMore(nd)
  BY <1>1, <1>4 DEF JoinNetwork
<1>6. /\ new \in Node(Everyone) /\ PingsFit(new) /\ ListFits(new)
      /\ new.join_state = "NOT_JOINED" /\ new.search = "none" /\ new.calls = <<>>
      /\ new.join_succeedN = 0
      /\ new.pings # {}
  BY <1>2, <1>3, <1>5, PingMoreFacts
<1>7. SearchFits(new) /\ CallsFit(new) /\ GoesOn(new)
  BY <1>6 DEF SearchFits, CallsFit, GoesOn
<1> QED
  BY <1>4, <1>6, <1>7 DEF NodeInv
-----------------------------------------------------------------------------
(* Terminating the pings                                                   *)

\* Induction, for a set of numbers.
LEMMA InductiveSet ==
  ASSUME NEW S, 0 \in S, \A n \in Nat : n \in S => n + 1 \in S
  PROVE  Nat \subseteq S
<1> SUFFICES ASSUME NEW b \in Nat \ S PROVE FALSE
  OBVIOUS
<1> DEFINE T == {0 .. m : m \in Nat \ S}
<1>1. T \subseteq FiniteSubsetsOf(Nat) /\ T # {}
  <2>1. ASSUME NEW m \in Nat PROVE 0 .. m \in FiniteSubsetsOf(Nat)
    BY FS_Interval DEF FiniteSubsetsOf
  <2> QED
    BY <2>1
<1>2. PICK t \in T : \A u \in T : ~(<<u, t>> \in StrictSubsetOrdering(Nat))
  BY <1>1, FS_StrictSubsetOrderingWellFounded, WFMin
<1>3. PICK m \in Nat \ S : t = 0 .. m
  BY <1>2
<1>4. m # 0 /\ m - 1 \in Nat
  BY <1>3
<1>5. m - 1 \notin S
  BY <1>4
<1>6. 0 .. m - 1 \in T
  BY <1>4, <1>5
<1>7. <<0 .. m - 1, 0 .. m>> \in StrictSubsetOrdering(Nat)
  <2>1. 0 .. m - 1 \subseteq 0 .. m /\ m \in 0 .. m /\ m \notin 0 .. m - 1
    BY <1>4
  <2>2. 0 .. m \in SUBSET Nat /\ 0 .. m - 1 \in SUBSET Nat
    OBVIOUS
  <2> QED
    BY <2>1, <2>2 DEF StrictSubsetOrdering
<1> QED
  BY <1>2, <1>3, <1>6, <1>7

\* The first n values of x, F[1][x], F[2][F[1][x]], ..., all of them in S.
IsRun(f, S, x, F, n) ==
  /\ f \in [0 .. n -> S]
  /\ f[0] = x
  /\ \A k \in 1 .. n : f[k] = F[k][f[k - 1]]

StaysIn(S, F, n) == \A k \in 1 .. n : F[k] \in [S -> S]

LEMMA RunExists ==
  ASSUME NEW S, NEW x \in S, NEW N \in Nat, NEW F, StaysIn(S, F, N)
  PROVE  \E f : IsRun(f, S, x, F, N)
<1> DEFINE R == {n \in Nat : n <= N => \E f : IsRun(f, S, x, F, n)}
<1>1. 0 \in R
  <2> DEFINE f == [k \in 0 .. 0 |-> x]
  <2>1. IsRun(f, S, x, F, 0)
    BY DEF IsRun
  <2> QED
    BY <2>1
<1>2. ASSUME NEW n \in Nat, n \in R PROVE n + 1 \in R
  <2>0. CASE ~(n + 1 <= N)
    BY <2>0
  <2> SUFFICES ASSUME n + 1 <= N PROVE n + 1 \in R
    BY <2>0
  <2>1. PICK f : IsRun(f, S, x, F, n)
    BY <1>2
  <2>2. f[n] \in S /\ F[n + 1] \in [S -> S]
    BY <2>1 DEF IsRun, StaysIn
  <2>3. PICK y \in S : y = F[n + 1][f[n]]
    BY <2>2
  <2> DEFINE g == [k \in 0 .. n + 1 |-> IF k = n + 1 THEN y ELSE f[k]]
  <2>4. g \in [0 .. n + 1 -> S]
    BY <2>1 DEF IsRun
  <2>5. ASSUME NEW k \in 1 .. n + 1 PROVE g[k] = F[k][g[k - 1]]
    <3>1. CASE k = n + 1
      <4>1. g[k] = y /\ g[k - 1] = f[n]
        BY <3>1
      <4> QED
        BY <2>3, <3>1, <4>1
    <3>2. CASE k # n + 1
      <4>1. k \in 1 .. n /\ k - 1 \in 0 .. n
        BY <3>2
      <4>2. g[k] = f[k] /\ g[k - 1] = f[k - 1]
        BY <4>1
      <4> QED
        BY <2>1, <4>1, <4>2 DEF IsRun
    <3> QED
      BY <3>1, <3>2
  <2>6. g[0] = x
    BY <2>1 DEF IsRun
  <2> HIDE DEF g
  <2>7. IsRun(g, S, x, F, n + 1)
    BY <2>4, <2>5, <2>6 DEF IsRun
  <2> QED
    BY <2>7
<1> HIDE DEF R
<1>3. Nat \subseteq R
  BY <1>1, <1>2, InductiveSet
<1>4. N \in R
  BY <1>3
<1> QED
  BY <1>4 DEF R

\* A node whose search will not be tried again.
Calm ==
  {nd \in Node(Everyone) : /\ nd.join_pinging_nodesN <= alpha
                           /\ nd.search # "again"
                           /\ SearchFits(nd)}

LEMMA PingMoreIsCalm ==
  ASSUME NEW nd \in Calm
  PROVE  PingMore(nd) \in Calm
<1>1. PICK list : list = nd.join_bootstrap_contacts
  OBVIOUS
<1>2. PICK n : n = IF alpha - nd.join_pinging_nodesN < Len(list) THEN alpha - nd.join_pinging_nodesN ELSE Len(list)
  OBVIOUS
<1>3. PICK c : c = nd.ping_id_counter
  OBVIOUS
<1>4. PICK B : B = {<<c + k, list[Len(list) - k]>> : k \in 0 .. n - 1}
  OBVIOUS
<1>5. PICK new : new = PingMore(nd)
  OBVIOUS
<1>6. /\ nd \in Node(Everyone)
      /\ list \in Seq(Everyone) /\ Len(list) \in Nat
      /\ nd.join_pinging_nodesN \in Int /\ nd.join_pinging_nodesN <= alpha
      /\ c \in Nat /\ nd.pings \in SUBSET (Nat \X Everyone)
      /\ nd.search # "again" /\ SearchFits(nd)
  BY <1>1, <1>3 DEF Calm, Node
<1>7. n \in Nat /\ n <= Len(list) /\ nd.join_pinging_nodesN + n <= alpha
  BY <1>2, <1>6
<1>8. PICK pings \in SUBSET (Nat \X Everyone) : pings = nd.pings \cup B
  <2>1. B \in SUBSET (Nat \X Everyone)
    BY <1>4, <1>6, <1>7
  <2> QED
    BY <1>6, <2>1
<1>9. PICK rest \in Seq(Everyone) :
        /\ rest = SubSeq(list, 1, Len(list) - n)
        /\ Len(rest) = Len(list) - n
  <2>1. /\ SubSeq(list, 1, Len(list) - n) \in Seq(Everyone)
        /\ Len(SubSeq(list, 1, Len(list) - n)) = Len(list) - n
    BY <1>6, <1>7, SubSeqProperties
  <2> QED
    BY <2>1
<1>10. PICK N \in Int : N = nd.join_pinging_nodesN + n
  BY <1>6, <1>7
<1>11. PICK d \in Nat : d = c + n
  BY <1>6, <1>7
<1>12. new = [nd EXCEPT !.pings = pings, !.join_bootstrap_contacts = rest,
                        !.join_pinging_nodesN = N, !.ping_id_counter = d]
  BY <1>1, <1>2, <1>3, <1>4, <1>5, <1>8, <1>9, <1>10, <1>11 DEF PingMore
<1>13. /\ new \in Node(Everyone)
       /\ new.join_bootstrap_contacts = rest
       /\ new.join_pinging_nodesN = N
       /\ new.join_state = nd.join_state
       /\ new.join_succeedN = nd.join_succeedN
       /\ new.search = nd.search
  BY <1>6, <1>12 DEF Node
<1>14. list = <<>> => rest = <<>>
  BY <1>6, <1>7, <1>9
<1>15. SearchFits(new)
  BY <1>1, <1>6, <1>13, <1>14 DEF SearchFits
<1> QED
  BY <1>5, <1>6, <1>7, <1>10, <1>13, <1>15 DEF Calm

\* Terminating a ping of a node that is calm leaves it calm: MaySearch holds only when
\* no contact is left, and the search that starts is not tried again.
LEMMA TerminatedPingIsCalm ==
  ASSUME NEW nd \in Calm, NEW p
  PROVE  Join_PingCallback(nd, p, "TERMINATED") \in Calm
<1>1. PICK mid : mid = PingEnded(nd, p, "TERMINATED")
  OBVIOUS
<1>2. PICK new : new = Join_PingCallback(nd, p, "TERMINATED")
  OBVIOUS
<1>3. new = IF MaySearch(mid) /\ mid.join_succeedN = 0 THEN CallBack(mid, "FAILED")
            ELSE PingMore(IF MaySearch(mid) THEN StartSearch(mid) ELSE mid)
  BY <1>1, <1>2 DEF Join_PingCallback
<1>4. /\ nd \in Node(Everyone)
      /\ nd.pings \in SUBSET (Nat \X Everyone)
      /\ nd.join_pinging_nodesN \in Int
      /\ nd.join_pinging_nodesN <= alpha
      /\ nd.search # "again" /\ SearchFits(nd)
  BY DEF Calm, Node
<1>5. PICK q \in SUBSET (Nat \X Everyone) : q = nd.pings \ {p}
  BY <1>4
<1>6. PICK n \in Int : n = nd.join_pinging_nodesN - 1
  BY <1>4
<1>13. PICK rs \in SUBSET (Nat \X Nat) : rs = {r \in nd.repeats : r[1] # p[1]}
  BY <1>4 DEF Node
<1>7. mid = [nd EXCEPT !.pings = q, !.repeats = rs, !.join_pinging_nodesN = n]
  <2>1. nd.join_succeedN = IF "TERMINATED" = "SUCCEED" THEN nd.join_succeedN + 1 ELSE nd.join_succeedN
    OBVIOUS
  <2>2. mid = [nd EXCEPT !.pings = q, !.repeats = rs, !.join_pinging_nodesN = n,
                         !.join_succeedN = nd.join_succeedN]
    BY <1>1, <1>5, <1>6, <1>13, <2>1 DEF PingEnded
  <2> QED
    BY <1>4, <2>2 DEF Node
<1>8. /\ mid \in Node(Everyone)
      /\ mid.join_pinging_nodesN = n
      /\ mid.join_state = nd.join_state
      /\ mid.search = nd.search
      /\ mid.join_bootstrap_contacts = nd.join_bootstrap_contacts
      /\ mid.join_succeedN = nd.join_succeedN
  BY <1>4, <1>7 DEF Node
<1>9. mid \in Calm
  <2>1. SearchFits(mid)
    BY <1>4, <1>8 DEF SearchFits
  <2> QED
    BY <1>4, <1>6, <1>8, <2>1 DEF Calm
<1>10. CASE MaySearch(mid) /\ mid.join_succeedN = 0
  <2>1. new = CallBack(mid, "FAILED")
    BY <1>3, <1>10
  <2>2. /\ new \in Node(Everyone)
        /\ new.join_state = mid.join_state
        /\ new.search = mid.search
        /\ new.join_bootstrap_contacts = mid.join_bootstrap_contacts
        /\ new.join_pinging_nodesN = mid.join_pinging_nodesN
        /\ new.join_succeedN = mid.join_succeedN
    BY <1>8, <2>1, CallBackFacts
  <2>3. SearchFits(new)
    BY <1>9, <2>2 DEF SearchFits, Calm
  <2> QED
    BY <1>2, <1>9, <2>2, <2>3 DEF Calm
<1>11. CASE MaySearch(mid) /\ mid.join_succeedN # 0
  <2>1. PICK st : st = StartSearch(mid)
    OBVIOUS
  <2>2. mid.join_bootstrap_contacts = <<>>
    BY <1>9, <1>11 DEF MaySearch, Calm, SearchFits
  <2>3. /\ st \in Node(Everyone)
        /\ st.join_state = "FIND_NODES_STARTED"
        /\ st.search = "once"
        /\ st.join_bootstrap_contacts = <<>>
        /\ st.join_pinging_nodesN = mid.join_pinging_nodesN
    BY <1>8, <2>1, <2>2, StartSearchFacts
  <2>4. SearchFits(st)
    BY <2>3 DEF SearchFits
  <2>5. st \in Calm
    BY <1>9, <2>3, <2>4 DEF Calm
  <2> QED
    BY <1>2, <1>3, <1>11, <2>1, <2>5, PingMoreIsCalm
<1>12. CASE ~MaySearch(mid)
  BY <1>2, <1>3, <1>9, <1>12, PingMoreIsCalm
<1> QED
  BY <1>10, <1>11, <1>12

\* The whole of TerminatePingRequests, by induction over the pings.
LEMMA TerminatedPingsAreCalm ==
  ASSUME NEW node \in Calm, IsFiniteSet(node.pings)
  PROVE  TerminatePingRequests(node) \in Calm
<1>1. PICK ps : ps = SetToSortSeq(node.pings, LAMBDA p, q : p[1] < q[1]) \o Further(node)
  OBVIOUS
<1>2. PICK n \in Nat : n = Cardinality(node.pings) + Len(node.join_bootstrap_contacts)
  <2>1. Len(node.join_bootstrap_contacts) \in Nat
    BY DEF Calm, Node
  <2> QED
    BY <2>1, FS_CardinalityType
<1> DEFINE Step(k, nd) == Join_PingCallback(nd, ps[k], "TERMINATED")
           IsAfter(f) == f = [k \in 0 .. n |-> IF k = 0 THEN node ELSE Step(k, f[k - 1])]
           after == CHOOSE f : IsAfter(f)
<1>3. TerminatePingRequests(node) = after[n]
  BY <1>1, <1>2 DEF TerminatePingRequests
<1>4. PICK F : F = [k \in 1 .. n |-> [nd \in Calm |-> Step(k, nd)]]
  OBVIOUS
<1> HIDE DEF Step, IsAfter, after
<1>5. PICK f : IsRun(f, Calm, node, F, n)
  <2>1. StaysIn(Calm, F, n)
    BY <1>4, TerminatedPingIsCalm DEF StaysIn, Step
  <2> QED
    BY <2>1, RunExists
<1> USE DEF IsAfter, after
<1>6. IsAfter(f)
  <2>1. ASSUME NEW k \in 1 .. n PROVE f[k] = Step(k, f[k - 1])
    <3>1. f[k - 1] \in Calm
      BY <1>5 DEF IsRun
    <3> QED
      BY <1>4, <1>5, <3>1 DEF IsRun
  <2>2. \A k \in 0 .. n : f[k] = IF k = 0 THEN node ELSE Step(k, f[k - 1])
    BY <1>5, <2>1 DEF IsRun
  <2>3. f \in [0 .. n -> Calm]
    BY <1>5 DEF IsRun
  <2> QED
    BY <2>2, <2>3
<1>7. IsAfter(after)
  <2> HIDE DEF IsAfter
  <2> QED
    BY <1>6
<1> DEFINE G == {k \in Nat : k <= n => after[k] \in Calm}
<1> HIDE DEF after
<1>8. \A k \in 0 .. n : after[k] = IF k = 0 THEN node ELSE Step(k, after[k - 1])
  BY <1>7
<1>9. 0 \in G
  BY <1>8
<1>10. ASSUME NEW k \in Nat, k \in G PROVE k + 1 \in G
  <2> SUFFICES ASSUME k + 1 <= n PROVE after[k + 1] \in Calm
    OBVIOUS
  <2>1. after[k] \in Calm
    BY <1>10
  <2>2. after[k + 1] = Step(k + 1, after[k])
    BY <1>8
  <2> QED
    BY <2>1, <2>2, TerminatedPingIsCalm DEF Step
<1> HIDE DEF G
<1>11. n \in G
  BY <1>9, <1>10, InductiveSet
<1> QED
  BY <1>3, <1>11 DEF G
-----------------------------------------------------------------------------
(* The invariant                                                           *)

Jobs ==
  [do : {"ActivateNode"}, node : Addr, bootstrap_contacts : Seq(Everyone)]
    \cup [do : {"DeactivateNode", "CheckRandomValue"}, node : Addr]

Messages == [type : {"PingRequest", "PingResponse"}, from : Everyone, to : Everyone, id : Nat]

\* TypeOK in two parts: what a change of a node may change, and the rest.
NodesAreTyped ==
  /\ nodes \in [Addr -> Node(Everyone) \cup {NoNode}]
  /\ jobs \subseteq Jobs
  /\ values_counter \in 0 .. values_total
  /\ stored \subseteq Addr \X (1 .. values_total)
  /\ looked_up \in {NoValue} \cup 0 .. values_total - 1
  /\ left \subseteq Addr
  /\ activations \in [Addr -> Nat]

NetworkIsTyped ==
  /\ contacts \in [Addr -> SUBSET Everyone]
  /\ BagToSet(network) \subseteq Messages
  /\ aborted \in BOOLEAN

LEMMA TypeParts == TypeOK <=> NodesAreTyped /\ NetworkIsTyped
  BY DEF TypeOK, NodesAreTyped, NetworkIsTyped, Jobs, Messages

LEMMA TypePartsNext == TypeOK' <=> NodesAreTyped' /\ NetworkIsTyped'
  BY DEF TypeOK, NodesAreTyped, NetworkIsTyped, Jobs, Messages

NodesFit == \A a \in Active : NodeInv(nodes[a])

\* JobsFitNodes without the sets: the job that makes a node of an address is there
\* exactly if no node is, and there are no two.
JobsFit ==
  /\ \A a \in Addr \ Active : \E j \in jobs : j.do = "ActivateNode" /\ j.node = a
  /\ \A j \in jobs : j.do = "ActivateNode" => j.node \notin Active
  /\ \A i, j \in jobs :
       i.do = "ActivateNode" /\ j.do = "ActivateNode" /\ i.node = j.node => i = j
  /\ \A a \in Addr : DeactivateJob(a) \in jobs <=> a \in Active
  /\ \A a \in Addr : CheckJob(a) \in jobs <=> a \in Active /\ nodes[a].join_state = "JOINED"

\* ValuesAreStoredOnce without the sets.
ValuesFit ==
  /\ \A v \in 1 .. values_total : v > values_counter => \E a \in Addr : <<a, v>> \in stored
  /\ \A a \in Addr, v \in 1 .. values_total : <<a, v>> \in stored => v > values_counter
  /\ \A a, b \in Addr, v \in 1 .. values_total : <<a, v>> \in stored /\ <<b, v>> \in stored => a = b
  /\ looked_up # NoValue => values_counter = 0

IInv == TypeOK /\ NodesFit /\ JobsFit /\ ValuesFit

LEMMA TotalType == values_total \in Nat
<1>1. Cardinality(Addr) \in Nat
  BY FS_CardinalityType
<1>2. \A m, n \in Nat : m * n \in Nat
  OBVIOUS
<1> QED
  BY <1>1, <1>2

LEMMA InitIInv == Init => IInv
<1> SUFFICES ASSUME Init PROVE IInv
  OBVIOUS
<1>1. Active = {}
  BY DEF Init, Active
<1>2. jobs = {ActivateJob(a, <<supernode>>) : a \in Addr}
  BY DEF Init
<1>3. <<supernode>> \in Seq(Everyone)
  BY DEF Everyone
<1>4. \A a \in Addr : ActivateJob(a, <<supernode>>) \in Jobs
  BY <1>3 DEF ActivateJob, Jobs
<1>5. NodesAreTyped
  <2>1. jobs \subseteq Jobs
    BY <1>2, <1>4
  <2> QED
    BY <2>1, TotalType DEF Init, NodesAreTyped, NoValue
<1>6. NetworkIsTyped
  BY DEF EmptyBag, SetToBag, BagToSet, Init, NetworkIsTyped
<1>7. NodesFit
  BY <1>1 DEF NodesFit
<1>8. JobsFit
  <2>1. \A a \in Addr : /\ ActivateJob(a, <<supernode>>).do = "ActivateNode"
                       /\ ActivateJob(a, <<supernode>>).node = a
    BY DEF ActivateJob
  <2>2. \A j \in jobs : \E a \in Addr : j = ActivateJob(a, <<supernode>>)
    BY <1>2
  <2>3. \A a \in Addr : \E j \in jobs : j.do = "ActivateNode" /\ j.node = a
    BY <1>2, <2>1
  <2>4. \A i, j \in jobs : i.node = j.node => i = j
    BY <2>1, <2>2
  <2>5. \A j \in jobs : j.do = "ActivateNode"
    BY <2>1, <2>2
  <2>6. \A a \in Addr : DeactivateJob(a) \notin jobs /\ CheckJob(a) \notin jobs
    BY <2>5 DEF DeactivateJob, CheckJob
  <2> QED
    BY <1>1, <2>3, <2>4, <2>6 DEF JobsFit
<1>9. ValuesFit
  BY TotalType DEF Init, ValuesFit
<1> QED
  BY <1>5, <1>6, <1>7, <1>8, <1>9, TypeParts DEF IInv

\* How the node of an address changes, and what of it is called back.
Changes(nd, new) ==
  \/ new.calls = nd.calls /\ (new.join_state = "JOINED" <=> nd.join_state = "JOINED")
  \/ new.calls # nd.calls /\ Last(new.calls) = "FAILED"
       /\ (new.join_state = "JOINED" <=> nd.join_state = "JOINED")
  \/ new.calls # nd.calls /\ Last(new.calls) = "SUCCEED"
       /\ new.join_state = "JOINED" /\ nd.join_state # "JOINED"

LEMMA ActiveNode ==
  ASSUME IInv, NEW a \in Active
  PROVE  a \in Addr /\ nodes[a] \in Node(Everyone) /\ NodeInv(nodes[a])
  BY DEF IInv, NodesFit, Active, NodeInv

LEMMA ShareFacts ==
  ASSUME IInv
  PROVE  /\ Share \subseteq 1 .. values_counter
         /\ Cardinality(Share) \in 0 .. values_counter
         /\ \A v \in 1 .. values_counter : v \in Share <=> v > values_counter - Cardinality(Share)
<1>1. values_counter \in Nat /\ values_per_node \in Nat
  BY TypeParts, TotalType DEF IInv, NodesAreTyped
<1>2. PICK n \in Nat : n = IF values_counter < values_per_node THEN values_counter ELSE values_per_node
  BY <1>1
<1>3. n <= values_counter
  BY <1>1, <1>2
<1>4. Share = values_counter - n + 1 .. values_counter
  BY <1>2 DEF Share
<1>5. Cardinality(Share) = n
  <2>1. Cardinality(Share) = IF values_counter - n + 1 > values_counter THEN 0
                             ELSE values_counter - (values_counter - n + 1) + 1
    BY <1>1, <1>4, FS_Interval
  <2> QED
    BY <1>1, <2>1
<1> QED
  BY <1>1, <1>3, <1>4, <1>5

\* A node changes, and the simulator does what it does when it is called back.
LEMMA BecomesFits ==
  ASSUME IInv, NEW a \in Active, NEW nd, NodeInv(nd), Changes(nodes[a], nd), Becomes(a, nd)
  PROVE  NodesAreTyped' /\ NodesFit' /\ JobsFit' /\ ValuesFit'
<1>1. /\ a \in Addr /\ nodes[a] \in Node(Everyone)
      /\ nodes \in [Addr -> Node(Everyone) \cup {NoNode}]
      /\ nodes' = [nodes EXCEPT ![a] = nd]
      /\ nd \in Node(Everyone) /\ nd # NoNode
      /\ UNCHANGED <<looked_up, left, activations>>
  BY ActiveNode, TypeParts DEF NodeInv, Becomes, IInv, NodesAreTyped
<1>2. nodes' \in [Addr -> Node(Everyone) \cup {NoNode}]
  BY <1>1
<1>3. nodes'[a] = nd /\ \A b \in Addr \ {a} : nodes'[b] = nodes[b]
  BY <1>1
<1>4. Active' = Active
  <2>1. \A b \in Addr : nodes'[b] # NoNode <=> nodes[b] # NoNode
    BY <1>1, <1>3 DEF Active
  <2> QED
    BY <2>1 DEF Active
<1>5. NodesFit'
  <2>1. \A b \in Active : NodeInv(nodes'[b])
    BY <1>3 DEF IInv, NodesFit, Active
  <2> QED
    BY <1>4, <2>1 DEF NodesFit
<1>6. /\ jobs \subseteq Jobs
      /\ values_counter \in 0 .. values_total
      /\ stored \subseteq Addr \X (1 .. values_total)
      /\ looked_up \in {NoValue} \cup 0 .. values_total - 1
      /\ left \subseteq Addr
      /\ activations \in [Addr -> Nat]
      /\ JobsFit /\ ValuesFit
  BY TypeParts DEF IInv, NodesAreTyped
<1>7. CASE UNCHANGED <<stored, values_counter, jobs>> /\ (nd.join_state = "JOINED" <=> nodes[a].join_state = "JOINED")
  <2>1. NodesAreTyped'
    BY <1>1, <1>2, <1>6, <1>7 DEF NodesAreTyped, Jobs
  <2>2. JobsFit'
    <3>1. \A b \in Addr : nodes'[b].join_state = "JOINED" <=> nodes[b].join_state = "JOINED"
      BY <1>3, <1>7
    <3> QED
      BY <1>4, <1>6, <1>7, <3>1 DEF JobsFit, DeactivateJob, CheckJob
  <2>3. ValuesFit'
    BY <1>1, <1>6, <1>7 DEF ValuesFit, NoValue
  <2> QED
    BY <1>5, <2>1, <2>2, <2>3
<1>8. CASE /\ stored' = stored \cup ({a} \X Share)
           /\ values_counter' = values_counter - Cardinality(Share)
           /\ jobs' = jobs \cup {CheckJob(a)}
           /\ nd.join_state = "JOINED"
  <2>1. PICK n \in Nat : n = values_counter'
    BY <1>6, <1>8, ShareFacts, TotalType
  <2>2. /\ n <= values_counter
        /\ \A v \in 1 .. values_counter : v \in Share <=> v > n
        /\ Share \subseteq 1 .. values_counter
    BY <1>6, <1>8, <2>1, ShareFacts, TotalType
  <2>3. CheckJob(a) \in Jobs
    BY <1>1 DEF CheckJob, Jobs
  <2>4. NodesAreTyped'
    <3>1. stored' \subseteq Addr \X (1 .. values_total)
      <4>1. Share \subseteq 1 .. values_total
        BY <1>6, <2>2, TotalType
      <4>2. {a} \X Share \subseteq Addr \X (1 .. values_total)
        BY <1>1, <4>1
      <4> QED
        BY <1>6, <1>8, <4>2
    <3>2. n \in 0 .. values_total
      BY <1>6, <2>2, TotalType
    <3> QED
      BY <1>1, <1>2, <1>6, <1>8, <2>1, <2>3, <3>1, <3>2 DEF NodesAreTyped, Jobs
  <2>5. JobsFit'
    <3>1. /\ CheckJob(a).do = "CheckRandomValue" /\ CheckJob(a).node = a
          /\ \A b \in Addr : DeactivateJob(b) # CheckJob(a)
          /\ \A b \in Addr : CheckJob(b) = CheckJob(a) <=> b = a
      BY DEF CheckJob, DeactivateJob
    <3>2. \A j \in jobs' : j.do = "ActivateNode" => j \in jobs
      BY <1>8, <3>1
    <3>3. /\ \A b \in Addr \ Active' : \E j \in jobs' : j.do = "ActivateNode" /\ j.node = b
          /\ \A j \in jobs' : j.do = "ActivateNode" => j.node \notin Active'
          /\ \A i, j \in jobs' :
               i.do = "ActivateNode" /\ j.do = "ActivateNode" /\ i.node = j.node => i = j
      BY <1>4, <1>6, <1>8, <3>2 DEF JobsFit
    <3>4. \A b \in Addr : DeactivateJob(b) \in jobs' <=> b \in Active'
      BY <1>4, <1>6, <1>8, <3>1 DEF JobsFit
    <3>5. \A b \in Addr : CheckJob(b) \in jobs' <=> b \in Active' /\ nodes'[b].join_state = "JOINED"
      BY <1>3, <1>4, <1>6, <1>8, <3>1 DEF JobsFit
    <3> QED
      BY <3>3, <3>4, <3>5 DEF JobsFit, DeactivateJob, CheckJob
  <2>6. ValuesFit'
    <3>1. \A b \in Addr, v \in 1 .. values_total :
            <<b, v>> \in stored' <=> <<b, v>> \in stored \/ (b = a /\ v <= values_counter /\ v > n)
      BY <1>6, <1>8, <2>2, TotalType
    <3>2. \A v \in 1 .. values_total : v > n => \E b \in Addr : <<b, v>> \in stored'
      <4> SUFFICES ASSUME NEW v \in 1 .. values_total, v > n
                   PROVE  \E b \in Addr : <<b, v>> \in stored'
        OBVIOUS
      <4>1. CASE v > values_counter
        <5>1. PICK b \in Addr : <<b, v>> \in stored
          BY <1>6, <4>1 DEF ValuesFit
        <5> QED
          BY <1>8, <5>1
      <4>2. CASE ~(v > values_counter)
        <5>1. v <= values_counter
          BY <1>6, <4>2, TotalType
        <5>2. <<a, v>> \in stored'
          BY <1>1, <3>1, <5>1
        <5> QED
          BY <1>1, <5>2
      <4> QED
        BY <4>1, <4>2
    <3>3. \A b \in Addr, v \in 1 .. values_total : <<b, v>> \in stored' => v > n
      BY <1>6, <2>2, <3>1, TotalType DEF ValuesFit
    <3>4. \A b, c \in Addr, v \in 1 .. values_total : <<b, v>> \in stored' /\ <<c, v>> \in stored' => b = c
      BY <1>6, <3>1, TotalType DEF ValuesFit
    <3>5. looked_up # NoValue => n = 0
      BY <1>6, <2>2 DEF ValuesFit
    <3> QED
      BY <1>1, <2>1, <3>2, <3>3, <3>4, <3>5 DEF ValuesFit, NoValue
  <2> QED
    BY <1>5, <2>4, <2>5, <2>6
<1> QED
  BY <1>7, <1>8 DEF Changes, Becomes, StartNodeLoop
-----------------------------------------------------------------------------
(* Each action keeps the invariant                                         *)

LEMMA PingRequestsAreMessages ==
  ASSUME NEW a \in Addr, NEW pings \in SUBSET (Nat \X Everyone)
  PROVE  PingRequests(a, pings) \subseteq Messages
<1> SUFFICES ASSUME NEW p \in pings PROVE Message("PingRequest", a, p[2], p[1]) \in Messages
  BY DEF PingRequests
<1>1. a \in Everyone /\ p[2] \in Everyone /\ p[1] \in Nat
  BY DEF Everyone
<1> QED
  BY <1>1 DEF Message, Messages

LEMMA SendIsTyped ==
  ASSUME BagToSet(network) \subseteq Messages, NEW ms, ms \subseteq Messages, Send(ms)
  PROVE  BagToSet(network') \subseteq Messages
<1>1. BagToSet(network') = BagToSet(network) \cup ms
  BY DEF Send, BagToSet, SetToBag, (+)
<1> QED
  BY <1>1

LEMMA ArrivesIsTyped ==
  ASSUME BagToSet(network) \subseteq Messages, NEW m, NEW ms, ms \subseteq Messages, Arrives(m, ms)
  PROVE  BagToSet(network') \subseteq Messages
<1>1. PICK rest : rest = network (-) SetToBag({m})
  OBVIOUS
<1>2. BagToSet(rest) \subseteq BagToSet(network)
  BY <1>1 DEF BagToSet, (-)
<1>3. network' = rest (+) SetToBag(ms)
  BY <1>1 DEF Arrives
<1>4. BagToSet(network') = BagToSet(rest) \cup ms
  BY <1>3 DEF BagToSet, SetToBag, (+)
<1> QED
  BY <1>2, <1>4

LEMMA ActivateNodeIInv ==
  ASSUME IInv, NEW a \in Addr, ActivateNode(a)
  PROVE  IInv'
<1>1. PICK job \in jobs :
        /\ job.do = "ActivateNode" /\ job.node = a
        /\ activations' = [activations EXCEPT ![a] = @ + 1]
        /\ LET nd == JoinNetwork(IF job.bootstrap_contacts = <<>> THEN <<supernode>>
                                                                 ELSE job.bootstrap_contacts)
           IN  /\ nodes' = AddNode(a, nd)
               /\ Send(PingRequests(a, nd.pings))
        /\ jobs' = (jobs \ {job}) \cup {DeactivateJob(a)}
        /\ UNCHANGED <<contacts, values, left, aborted>>
  BY DEF ActivateNode
<1>2. /\ nodes \in [Addr -> Node(Everyone) \cup {NoNode}]
      /\ jobs \subseteq Jobs
      /\ values_counter \in 0 .. values_total
      /\ stored \subseteq Addr \X (1 .. values_total)
      /\ looked_up \in {NoValue} \cup 0 .. values_total - 1
      /\ left \subseteq Addr
      /\ activations \in [Addr -> Nat]
      /\ NetworkIsTyped /\ NodesFit /\ JobsFit /\ ValuesFit
  BY TypeParts DEF IInv, NodesAreTyped
<1>3. PICK list : list = IF job.bootstrap_contacts = <<>> THEN <<supernode>> ELSE job.bootstrap_contacts
  OBVIOUS
<1>4. list \in Seq(Everyone) /\ list # <<>>
  <2>1. job \in Jobs
    BY <1>2
  <2>2. job \in [do : {"ActivateNode"}, node : Addr, bootstrap_contacts : Seq(Everyone)]
    BY <1>1, <2>1 DEF Jobs
  <2>3. job.bootstrap_contacts \in Seq(Everyone)
    BY <2>2
  <2>4. <<supernode>> \in Seq(Everyone) /\ <<supernode>> # <<>>
    BY DEF Everyone
  <2> QED
    BY <1>3, <2>3, <2>4
<1>5. PICK nd : nd = JoinNetwork(list)
  OBVIOUS
<1>6. NodeInv(nd) /\ nd.join_state = "NOT_JOINED"
  BY <1>4, <1>5, JoinNetworkFacts
<1>7. a \notin Active
  BY <1>1, <1>2 DEF JobsFit
<1>8. nodes' = [nodes EXCEPT ![a] = nd] /\ Send(PingRequests(a, nd.pings))
  BY <1>1, <1>3, <1>5, <1>7 DEF AddNode
<1>9. nd \in Node(Everyone) /\ nd # NoNode /\ nd.pings \in SUBSET (Nat \X Everyone)
  BY <1>6 DEF NodeInv, Node
<1>10. nodes'[a] = nd /\ \A b \in Addr \ {a} : nodes'[b] = nodes[b]
  BY <1>2, <1>8
<1>11. Active' = Active \cup {a}
  <2>1. \A b \in Addr : nodes'[b] # NoNode <=> nodes[b] # NoNode \/ b = a
    BY <1>9, <1>10
  <2> QED
    BY <2>1 DEF Active
<1>12. NodesFit'
  <2>1. \A b \in Active \cup {a} : NodeInv(nodes'[b])
    BY <1>2, <1>6, <1>10 DEF NodesFit, Active
  <2> QED
    BY <1>11, <2>1 DEF NodesFit
<1>13. NodesAreTyped'
  <2>1. nodes' \in [Addr -> Node(Everyone) \cup {NoNode}]
    BY <1>2, <1>8, <1>9
  <2>2. jobs' \subseteq Jobs
    <3>1. DeactivateJob(a) \in Jobs
      BY DEF DeactivateJob, Jobs
    <3> QED
      BY <1>1, <1>2, <3>1
  <2>3. activations' \in [Addr -> Nat]
    BY <1>1, <1>2
  <2>4. UNCHANGED <<values_counter, stored, looked_up, left>>
    BY <1>1 DEF values
  <2> QED
    BY <1>2, <2>1, <2>2, <2>3, <2>4 DEF NodesAreTyped, Jobs
<1>14. NetworkIsTyped'
  <2>1. BagToSet(network') \subseteq Messages
    BY <1>2, <1>8, <1>9, PingRequestsAreMessages, SendIsTyped DEF NetworkIsTyped
  <2> QED
    BY <1>1, <1>2, <2>1 DEF NetworkIsTyped, Messages
<1>15. JobsFit'
  <2>1. /\ DeactivateJob(a).do = "DeactivateNode" /\ DeactivateJob(a).node = a
        /\ \A b \in Addr : CheckJob(b) # DeactivateJob(a) /\ CheckJob(b) # job /\ DeactivateJob(b) # job
        /\ \A b \in Addr : DeactivateJob(b) = DeactivateJob(a) <=> b = a
    BY <1>1 DEF CheckJob, DeactivateJob
  <2>2. \A j : j \in jobs' /\ j.do = "ActivateNode" => j \in jobs /\ j # job
    BY <1>1, <2>1
  <2>3. \A b \in Addr \ Active' : \E j \in jobs' : j.do = "ActivateNode" /\ j.node = b
    <3> SUFFICES ASSUME NEW b \in Addr \ Active' PROVE \E j \in jobs' : j.do = "ActivateNode" /\ j.node = b
      OBVIOUS
    <3>1. b \in Addr \ Active /\ b # a
      BY <1>11
    <3>2. PICK j \in jobs : j.do = "ActivateNode" /\ j.node = b
      BY <1>2, <3>1 DEF JobsFit
    <3>3. j \in jobs'
      BY <1>1, <3>1, <3>2
    <3> QED
      BY <3>2, <3>3
  <2>4. \A j \in jobs' : j.do = "ActivateNode" => j.node \notin Active'
    <3> SUFFICES ASSUME NEW j \in jobs', j.do = "ActivateNode" PROVE j.node \notin Active'
      OBVIOUS
    <3>1. j \in jobs /\ j # job
      BY <2>2
    <3>2. j.node # a
      BY <1>1, <1>2, <3>1 DEF JobsFit
    <3> QED
      BY <1>2, <1>11, <3>1, <3>2 DEF JobsFit
  <2>5. \A i, j \in jobs' :
          i.do = "ActivateNode" /\ j.do = "ActivateNode" /\ i.node = j.node => i = j
    BY <1>2, <2>2 DEF JobsFit
  <2>6. \A b \in Addr : DeactivateJob(b) \in jobs' <=> b \in Active'
    BY <1>1, <1>2, <1>11, <2>1 DEF JobsFit
  <2>7. \A b \in Addr : CheckJob(b) \in jobs' <=> b \in Active' /\ nodes'[b].join_state = "JOINED"
    BY <1>1, <1>2, <1>6, <1>7, <1>10, <1>11, <2>1 DEF JobsFit
  <2> QED
    BY <2>3, <2>4, <2>5, <2>6, <2>7 DEF JobsFit, DeactivateJob, CheckJob
<1>16. ValuesFit'
  BY <1>1, <1>2 DEF ValuesFit, values, NoValue
<1> QED
  BY <1>12, <1>13, <1>14, <1>15, <1>16, TypePartsNext DEF IInv

\* The contacts that a node saves are those of its table, in some order.
LEMMA SavedContacts ==
  ASSUME IInv, NEW a \in Addr, NEW list \in SaveBootstrapContacts(a)
  PROVE  list \in Seq(Everyone)
<1>1. contacts[a] \in SUBSET Everyone
  BY TypeParts DEF IInv, NetworkIsTyped
<1>2. IsFiniteSet(Everyone)
  <2>1. IsFiniteSet({supernode})
    BY FS_Singleton
  <2> QED
    BY <2>1, FS_Union DEF Everyone
<1>3. IsFiniteSet(contacts[a])
  BY <1>1, <1>2, FS_Subset
<1>4. PICK n \in Nat : n = Cardinality(contacts[a])
  BY <1>3, FS_CardinalityType
<1>5. list \in [1 .. n -> contacts[a]]
  BY <1>4 DEF SaveBootstrapContacts, SetToSeqs
<1> QED
  BY <1>1, <1>5

LEMMA FurtherPings ==
  ASSUME NEW nd \in Node(Everyone)
  PROVE  Range(Further(nd)) \in SUBSET (Nat \X Everyone)
<1>1. PICK list \in Seq(Everyone) : list = nd.join_bootstrap_contacts
  BY DEF Node
<1>2. PICK c \in Nat : c = nd.ping_id_counter
  BY DEF Node
<1>3. Further(nd) = [k \in 1 .. Len(list) |-> <<c + k - 1, Reverse(list)[k]>>]
  BY <1>1, <1>2 DEF Further
<1>4. ASSUME NEW k \in 1 .. Len(list) PROVE <<c + k - 1, Reverse(list)[k]>> \in Nat \X Everyone
  <2>1. c + k - 1 \in Nat
    BY <1>2
  <2>2. Reverse(list)[k] = list[Len(list) - k + 1]
    BY DEF Reverse
  <2>3. Len(list) - k + 1 \in 1 .. Len(list)
    OBVIOUS
  <2>4. list[Len(list) - k + 1] \in Everyone
    BY <2>3
  <2> QED
    BY <2>1, <2>2, <2>4
<1> QED
  BY <1>3, <1>4 DEF Range

LEMMA DeactivateNodeIInv ==
  ASSUME IInv, NEW a \in Addr, DeactivateNode(a)
  PROVE  IInv'
<1>1. PICK list \in SaveBootstrapContacts(a) :
        jobs' = (jobs \ OwnedBy(a)) \cup {ActivateJob(a, list)}
  BY DEF DeactivateNode
<1>2. /\ DeactivateJob(a) \in jobs
      /\ nodes' = RemoveNode(a)
      /\ Send(PingRequests(a, Range(Further(nodes[a]))))
      /\ contacts' = [contacts EXCEPT ![a] = {}]
      /\ UNCHANGED <<values, activations>>
  BY DEF DeactivateNode
<1>3. /\ nodes \in [Addr -> Node(Everyone) \cup {NoNode}]
      /\ jobs \subseteq Jobs
      /\ values_counter \in 0 .. values_total
      /\ stored \subseteq Addr \X (1 .. values_total)
      /\ looked_up \in {NoValue} \cup 0 .. values_total - 1
      /\ left \subseteq Addr
      /\ activations \in [Addr -> Nat]
      /\ NetworkIsTyped /\ NodesFit /\ JobsFit /\ ValuesFit
  BY TypeParts DEF IInv, NodesAreTyped
<1>4. a \in Active /\ nodes[a] \in Node(Everyone)
  <2>1. a \in Active
    BY <1>2, <1>3 DEF JobsFit
  <2> QED
    BY <2>1, ActiveNode
<1>5. nodes'[a] = NoNode /\ \A b \in Addr \ {a} : nodes'[b] = nodes[b]
  BY <1>2, <1>3 DEF RemoveNode
<1>6. Active' = Active \ {a}
  <2>1. \A b \in Addr : nodes'[b] # NoNode <=> nodes[b] # NoNode /\ b # a
    BY <1>5
  <2> QED
    BY <2>1 DEF Active
<1>7. NodesFit'
  <2>1. \A b \in Active \ {a} : NodeInv(nodes'[b])
    BY <1>3, <1>5 DEF NodesFit, Active
  <2> QED
    BY <1>6, <2>1 DEF NodesFit
<1>8. left' \subseteq Addr /\ aborted' \in BOOLEAN
  <2>1. PICK followed \in BOOLEAN :
          LET pinged == TerminatePingRequests(nodes[a])
              end == Terminate(nodes[a], followed)
          IN  /\ left' = IF end.search # "none" THEN left \cup {a} ELSE left
              /\ aborted' = Aborts(a, StartsSearch(nodes[a], pinged) \/ TriesAgain(pinged))
    BY DEF DeactivateNode
  <2>2. left' \subseteq Addr
    BY <1>3, <2>1
  <2>3. aborted' \in BOOLEAN
    BY <2>1 DEF Aborts
  <2> QED
    BY <2>2, <2>3
<1>9. NodesAreTyped'
  <2>1. nodes' \in [Addr -> Node(Everyone) \cup {NoNode}]
    BY <1>2, <1>3 DEF RemoveNode
  <2>2. ActivateJob(a, list) \in Jobs
    BY SavedContacts DEF ActivateJob, Jobs
  <2>3. jobs' \subseteq Jobs
    BY <1>1, <1>3, <2>2
  <2> QED
    BY <1>2, <1>3, <1>8, <2>1, <2>3 DEF NodesAreTyped, Jobs, values
<1>10. NetworkIsTyped'
  <2>1. BagToSet(network') \subseteq Messages
    <3>1. PICK ms : ms = PingRequests(a, Range(Further(nodes[a])))
      OBVIOUS
    <3>2. ms \subseteq Messages
      BY <1>4, <3>1, FurtherPings, PingRequestsAreMessages
    <3> QED
      BY <1>2, <1>3, <3>1, <3>2, SendIsTyped DEF NetworkIsTyped
  <2>2. contacts' \in [Addr -> SUBSET Everyone]
    BY <1>2, <1>3 DEF NetworkIsTyped
  <2> QED
    BY <1>8, <2>1, <2>2 DEF NetworkIsTyped, Messages
<1>11. JobsFit'
  <2>1. PICK new : new = ActivateJob(a, list)
    OBVIOUS
  <2>2. /\ new.do = "ActivateNode" /\ new.node = a
        /\ \A b \in Addr : CheckJob(b) # new /\ DeactivateJob(b) # new
        /\ \A b \in Addr : CheckJob(b) \in OwnedBy(a) <=> b = a
        /\ \A b \in Addr : DeactivateJob(b) \in OwnedBy(a) <=> b = a
        /\ \A j \in OwnedBy(a) : j.do # "ActivateNode"
    BY <2>1 DEF CheckJob, DeactivateJob, ActivateJob, OwnedBy
  <2>3. jobs' = (jobs \ OwnedBy(a)) \cup {new}
    BY <1>1, <2>1
  <2>4. \A j : j \in jobs' /\ j.do = "ActivateNode" => j \in jobs \/ j = new
    BY <2>3
  <2>5. \A b \in Addr \ Active' : \E j \in jobs' : j.do = "ActivateNode" /\ j.node = b
    <3> SUFFICES ASSUME NEW b \in Addr \ Active' PROVE \E j \in jobs' : j.do = "ActivateNode" /\ j.node = b
      OBVIOUS
    <3>1. CASE b = a
      BY <2>2, <2>3, <3>1
    <3>2. CASE b # a
      <4>1. PICK j \in jobs : j.do = "ActivateNode" /\ j.node = b
        BY <1>3, <1>6, <3>2 DEF JobsFit
      <4>2. j \in jobs'
        BY <2>2, <2>3, <4>1
      <4> QED
        BY <4>1, <4>2
    <3> QED
      BY <3>1, <3>2
  <2>6. \A j \in jobs' : j.do = "ActivateNode" => j.node \notin Active'
    BY <1>3, <1>6, <2>2, <2>4 DEF JobsFit
  <2>7. \A i, j \in jobs' :
          i.do = "ActivateNode" /\ j.do = "ActivateNode" /\ i.node = j.node => i = j
    <3>1. \A j \in jobs : j.do = "ActivateNode" => j.node # a
      BY <1>3, <1>4 DEF JobsFit
    <3> QED
      BY <1>3, <2>2, <2>4, <3>1 DEF JobsFit
  <2>8. \A b \in Addr : DeactivateJob(b) \in jobs' <=> b \in Active'
    BY <1>3, <1>6, <2>2, <2>3 DEF JobsFit
  <2>9. \A b \in Addr : CheckJob(b) \in jobs' <=> b \in Active' /\ nodes'[b].join_state = "JOINED"
    BY <1>3, <1>5, <1>6, <2>2, <2>3 DEF JobsFit
  <2> QED
    BY <2>5, <2>6, <2>7, <2>8, <2>9 DEF JobsFit, DeactivateJob, CheckJob
<1>12. ValuesFit'
  BY <1>2, <1>3 DEF ValuesFit, values, NoValue
<1> QED
  BY <1>7, <1>9, <1>10, <1>11, <1>12, TypePartsNext DEF IInv

LEMMA PingRequestTimeoutIInv ==
  ASSUME IInv, NEW a \in Addr, NEW p, PingRequestTimeout(a, p)
  PROVE  IInv'
<1>1. a \in Active /\ p \in nodes[a].pings /\ UNCHANGED contacts
  BY DEF PingRequestTimeout
<1>2. PICK nd : nd = Join_PingCallback(nodes[a], p, "FAILED")
  OBVIOUS
<1>3. PICK again : again = PingRepeated(nodes[a], p)
  OBVIOUS
<1>5. NetworkIsTyped
  BY TypeParts DEF IInv
<1>6. CASE /\ Becomes(a, again)
           /\ Send(PingRequests(a, {p}))
           /\ UNCHANGED aborted
  <2>1. NodeInv(again) /\ Changes(nodes[a], again)
    BY <1>1, <1>3, ActiveNode, PingRepeatedFacts DEF Changes
  <2>2. NodesAreTyped' /\ NodesFit' /\ JobsFit' /\ ValuesFit'
    BY <1>1, <1>6, <2>1, BecomesFits
  <2>3. a \in Addr /\ {p} \in SUBSET (Nat \X Everyone)
    BY <1>1, ActiveNode DEF Node
  <2>4. BagToSet(network') \subseteq Messages
    BY <1>5, <1>6, <2>3, PingRequestsAreMessages, SendIsTyped DEF NetworkIsTyped
  <2>5. NetworkIsTyped'
    BY <1>1, <1>5, <1>6, <2>4 DEF NetworkIsTyped, Messages
  <2> QED
    BY <2>2, <2>5, TypePartsNext DEF IInv
<1>7. CASE /\ Becomes(a, nd)
           /\ Send(PingRequests(a, nd.pings \ nodes[a].pings))
           /\ aborted' = Aborts(a, StartsSearch(nodes[a], nd))
  <2>1. NodeInv(nd) /\ Changes(nodes[a], nd)
    BY <1>1, <1>2, ActiveNode, PingCallbackFacts DEF Changes
  <2>2. NodesAreTyped' /\ NodesFit' /\ JobsFit' /\ ValuesFit'
    BY <1>1, <1>7, <2>1, BecomesFits
  <2>3. nd.pings \ nodes[a].pings \in SUBSET (Nat \X Everyone)
    BY <2>1 DEF NodeInv, Node
  <2>4. BagToSet(network') \subseteq Messages
    BY <1>5, <1>7, <2>3, PingRequestsAreMessages, SendIsTyped DEF NetworkIsTyped
  <2>5. aborted' \in BOOLEAN
    BY <1>7 DEF Aborts
  <2>6. NetworkIsTyped'
    BY <1>1, <1>5, <2>4, <2>5 DEF NetworkIsTyped, Messages
  <2> QED
    BY <2>2, <2>6, TypePartsNext DEF IInv
<1> QED
  BY <1>2, <1>3, <1>6, <1>7 DEF PingRequestTimeout

LEMMA SearchEndsIInv ==
  ASSUME IInv, NEW a \in Addr, SearchEnds(a)
  PROVE  IInv'
<1>1. a \in Active /\ nodes[a].search # "none"
  BY DEF SearchEnds
<1>2. ASSUME NEW code, Becomes(a, Join_FindNodeCallback(nodes[a], code))
      PROVE  NodesAreTyped' /\ NodesFit' /\ JobsFit' /\ ValuesFit'
  <2>1. PICK nd : nd = Join_FindNodeCallback(nodes[a], code)
    OBVIOUS
  <2>2. NodeInv(nd) /\ Changes(nodes[a], nd)
    BY <1>1, <2>1, ActiveNode, FindNodeCallbackFacts DEF Changes
  <2> QED
    BY <1>1, <1>2, <2>1, <2>2, BecomesFits
<1>3. NodesAreTyped' /\ NodesFit' /\ JobsFit' /\ ValuesFit'
  BY <1>2 DEF SearchEnds
<1>4. NetworkIsTyped'
  <2>1. NetworkIsTyped
    BY TypeParts DEF IInv
  <2>2. contacts' \in [Addr -> SUBSET Everyone]
    BY <2>1 DEF SearchEnds, NetworkIsTyped
  <2>3. UNCHANGED network /\ aborted' \in BOOLEAN
    BY <2>1 DEF SearchEnds, Aborts, NetworkIsTyped
  <2> QED
    BY <2>1, <2>2, <2>3 DEF NetworkIsTyped, Messages
<1> QED
  BY <1>3, <1>4, TypePartsNext DEF IInv

\* What a message does to the table of the node that gets it.
LEMMA HeardIsTyped ==
  ASSUME NetworkIsTyped, NEW m \in BagToSet(network), m.to \in Active \cup {supernode}
  PROVE  Heard(m) \in [Addr -> SUBSET Everyone]
<1>1. m.from \in Everyone
  BY DEF NetworkIsTyped, Messages
<1>2. contacts \in [Addr -> SUBSET Everyone]
  BY DEF NetworkIsTyped
<1>3. CASE m.to = supernode
  BY <1>2, <1>3 DEF Heard
<1>4. CASE m.to # supernode
  <2>1. Heard(m) = [contacts EXCEPT ![m.to] = @ \cup {m.from}]
    BY <1>4 DEF Heard
  <2> QED
    BY <1>1, <1>2, <2>1
<1> QED
  BY <1>3, <1>4

\* A step that changes no node, job or value.
LEMMA NodesUnchanged ==
  ASSUME IInv, UNCHANGED <<nodes, jobs, values, left, activations>>
  PROVE  NodesAreTyped' /\ NodesFit' /\ JobsFit' /\ ValuesFit'
<1>1. NodesAreTyped /\ NodesFit /\ JobsFit /\ ValuesFit
  BY TypeParts DEF IInv
<1>2. NodesAreTyped'
  BY <1>1 DEF NodesAreTyped, Jobs, values, NoValue
<1>3. NodesFit'
  BY <1>1 DEF NodesFit, Active
<1>4. JobsFit'
  BY <1>1 DEF JobsFit, Active, DeactivateJob, CheckJob
<1>5. ValuesFit'
  BY <1>1 DEF ValuesFit, values, NoValue
<1> QED
  BY <1>2, <1>3, <1>4, <1>5

LEMMA DoPingRequestIInv ==
  ASSUME IInv, NEW m \in BagToSet(network), DoPingRequest(m)
  PROVE  IInv'
<1>1. NetworkIsTyped
  BY TypeParts DEF IInv
<1>2. NodesAreTyped' /\ NodesFit' /\ JobsFit' /\ ValuesFit'
  BY NodesUnchanged DEF DoPingRequest
<1>3. NetworkIsTyped'
  <2>1. Message("PingResponse", m.to, m.from, m.id) \in Messages
    BY <1>1 DEF NetworkIsTyped, Message, Messages
  <2>2. BagToSet(network') \subseteq Messages
    <3>1. PICK answer : answer = Message("PingResponse", m.to, m.from, m.id)
      OBVIOUS
    <3>2. Arrives(m, {answer}) \/ Arrives(m, {})
      BY <3>1 DEF DoPingRequest
    <3> QED
      BY <1>1, <2>1, <3>1, <3>2, ArrivesIsTyped DEF NetworkIsTyped
  <2>3. contacts' \in [Addr -> SUBSET Everyone]
    <3>1. CASE m.to \in Active \cup {supernode}
      BY <1>1, <3>1, HeardIsTyped DEF DoPingRequest
    <3>2. CASE m.to \notin Active \cup {supernode}
      BY <1>1, <3>2 DEF DoPingRequest, NetworkIsTyped
    <3> QED
      BY <3>1, <3>2
  <2>4. UNCHANGED aborted
    BY DEF DoPingRequest
  <2> QED
    BY <1>1, <2>2, <2>3, <2>4 DEF NetworkIsTyped, Messages
<1> QED
  BY <1>2, <1>3, TypePartsNext DEF IInv

LEMMA DoPingResponseIInv ==
  ASSUME IInv, NEW m \in BagToSet(network), DoPingResponse(m)
  PROVE  IInv'
<1>1. NetworkIsTyped /\ UNCHANGED aborted
  BY TypeParts DEF IInv, DoPingResponse
<1>2. CASE m.to \notin Active
  <2>1. Arrives(m, {}) /\ UNCHANGED <<nodes, contacts, jobs, values, left, activations>>
    BY <1>2 DEF DoPingResponse
  <2>2. NodesAreTyped' /\ NodesFit' /\ JobsFit' /\ ValuesFit'
    BY <2>1, NodesUnchanged
  <2>3. NetworkIsTyped'
    BY <1>1, <2>1, ArrivesIsTyped DEF NetworkIsTyped, Messages
  <2> QED
    BY <2>2, <2>3, TypePartsNext DEF IInv
<1>3. CASE m.to \in Active
  <2>1. contacts' \in [Addr -> SUBSET Everyone]
    BY <1>1, <1>3, HeardIsTyped DEF DoPingResponse
  <2>2. CASE \E p \in nodes[m.to].pings : IsAnswerTo(m, p)
    <3>1. PICK p : p = CHOOSE q \in nodes[m.to].pings : IsAnswerTo(m, q)
      OBVIOUS
    <3>2. p \in nodes[m.to].pings
      BY <2>2, <3>1
    <3>3. PICK nd : nd = Join_PingCallback(nodes[m.to], p, "SUCCEED")
      OBVIOUS
    <3>4. /\ Becomes(m.to, nd)
          /\ Arrives(m, PingRequests(m.to, nd.pings \ nodes[m.to].pings))
      BY <1>3, <2>2, <3>1, <3>3 DEF DoPingResponse
    <3>5. NodeInv(nd) /\ Changes(nodes[m.to], nd)
      BY <1>3, <3>2, <3>3, ActiveNode, PingCallbackFacts DEF Changes
    <3>6. NodesAreTyped' /\ NodesFit' /\ JobsFit' /\ ValuesFit'
      BY <1>3, <3>4, <3>5, BecomesFits
    <3>7. nd.pings \ nodes[m.to].pings \in SUBSET (Nat \X Everyone) /\ m.to \in Addr
      BY <1>3, <3>5 DEF NodeInv, Node, Active
    <3>8. BagToSet(network') \subseteq Messages
      BY <1>1, <3>4, <3>7, PingRequestsAreMessages, ArrivesIsTyped DEF NetworkIsTyped
    <3>9. NetworkIsTyped'
      BY <1>1, <2>1, <3>8 DEF NetworkIsTyped, Messages
    <3> QED
      BY <3>6, <3>9, TypePartsNext DEF IInv
  <2>3. CASE ~ \E p \in nodes[m.to].pings : IsAnswerTo(m, p)
    <3>1. Arrives(m, {}) /\ UNCHANGED <<nodes, jobs, values, left, activations>>
      BY <1>3, <2>3 DEF DoPingResponse
    <3>2. NodesAreTyped' /\ NodesFit' /\ JobsFit' /\ ValuesFit'
      BY <3>1, NodesUnchanged
    <3>3. NetworkIsTyped'
      BY <1>1, <2>1, <3>1, ArrivesIsTyped DEF NetworkIsTyped, Messages
    <3> QED
      BY <3>2, <3>3, TypePartsNext DEF IInv
  <2> QED
    BY <2>2, <2>3
<1> QED
  BY <1>2, <1>3

LEMMA CheckRandomValueIInv ==
  ASSUME IInv, NEW a \in Addr, CheckRandomValue(a)
  PROVE  IInv'
<1>1. NodesAreTyped /\ NetworkIsTyped /\ NodesFit /\ JobsFit /\ ValuesFit
  BY TypeParts DEF IInv
<1>2. /\ looked_up' \in LookedUp
      /\ UNCHANGED <<nodes, contacts, jobs, network, values_counter, stored, left, aborted, activations>>
  BY DEF CheckRandomValue
<1>3. NodesAreTyped'
  BY <1>1, <1>2 DEF NodesAreTyped, LookedUp, Jobs, NoValue
<1>4. NetworkIsTyped'
  BY <1>1, <1>2 DEF NetworkIsTyped, Messages
<1>5. NodesFit'
  BY <1>1, <1>2 DEF NodesFit, Active
<1>6. JobsFit'
  BY <1>1, <1>2 DEF JobsFit, Active, DeactivateJob, CheckJob
<1>7. ValuesFit'
  <2>1. values_counter \in Nat
    BY <1>1, TotalType DEF NodesAreTyped
  <2>2. looked_up' # NoValue => values_counter = 0
    BY <1>1, <1>2, <2>1 DEF ValuesFit, LookedUp
  <2> QED
    BY <1>1, <1>2, <2>2 DEF ValuesFit, NoValue
<1> QED
  BY <1>3, <1>4, <1>5, <1>6, <1>7, TypePartsNext DEF IInv
-----------------------------------------------------------------------------
LEMMA NextIInv ==
  ASSUME IInv, [Next]_vars
  PROVE  IInv'
<1>1. ASSUME NEW a \in Addr, ActivateNode(a) PROVE IInv'
  BY <1>1, ActivateNodeIInv
<1>2. ASSUME NEW a \in Addr, DeactivateNode(a) PROVE IInv'
  BY <1>2, DeactivateNodeIInv
<1>3. ASSUME NEW a \in Addr, SearchEnds(a) PROVE IInv'
  BY <1>3, SearchEndsIInv
<1>4. ASSUME NEW a \in Addr, CheckRandomValue(a) PROVE IInv'
  BY <1>4, CheckRandomValueIInv
<1>5. ASSUME NEW a \in Addr, NEW p \in PingId \X Everyone, PingRequestTimeout(a, p) PROVE IInv'
  BY <1>5, PingRequestTimeoutIInv
<1>6. ASSUME NEW m \in BagToSet(network), DoPingRequest(m) PROVE IInv'
  BY <1>6, DoPingRequestIInv
<1>7. ASSUME NEW m \in BagToSet(network), DoPingResponse(m) PROVE IInv'
  BY <1>7, DoPingResponseIInv
<1>8. CASE UNCHANGED vars
  <2>1. UNCHANGED <<nodes, jobs, values, left, activations>> /\ UNCHANGED <<contacts, network, aborted>>
    BY <1>8 DEF vars
  <2>2. NodesAreTyped' /\ NodesFit' /\ JobsFit' /\ ValuesFit'
    BY <2>1, NodesUnchanged
  <2>3. NetworkIsTyped'
    BY <2>1, TypeParts DEF IInv, NetworkIsTyped, Messages
  <2> QED
    BY <2>2, <2>3, TypePartsNext DEF IInv
<1> QED
  BY <1>1, <1>2, <1>3, <1>4, <1>5, <1>6, <1>7, <1>8 DEF Next

LEMMA Invariant == Spec => []IInv
<1>1. Init => IInv
  BY InitIInv
<1>2. IInv /\ [Next]_vars => IInv'
  BY NextIInv
<1> QED
  BY <1>1, <1>2, PTL DEF Spec

\* Every variable of the simulation has its type, and every node the one of Joining.
THEOREM TypeCorrect == Spec => []TypeOK
<1>1. IInv => TypeOK
  BY DEF IInv
<1> QED
  BY <1>1, Invariant, PTL

-----------------------------------------------------------------------------
(* What the invariant says of the system                                   *)

LEMMA JobsFitNodesFromIInv ==
  ASSUME IInv
  PROVE  JobsFitNodes
<1>1. JobsFit /\ jobs \subseteq Jobs
  BY TypeParts DEF IInv, NodesAreTyped
<1>2. ASSUME NEW a \in Addr
      PROVE  Cardinality({j \in jobs : j.do = "ActivateNode" /\ j.node = a}) = IF a \in Active THEN 0 ELSE 1
  <2>1. PICK mine : mine = {j \in jobs : j.do = "ActivateNode" /\ j.node = a}
    OBVIOUS
  <2>2. CASE a \in Active
    <3>1. mine = {}
      BY <1>1, <2>1, <2>2 DEF JobsFit
    <3> QED
      BY <2>1, <2>2, <3>1, FS_EmptySet
  <2>3. CASE a \notin Active
    <3>1. PICK j \in jobs : j.do = "ActivateNode" /\ j.node = a
      BY <1>1, <2>3 DEF JobsFit
    <3>2. mine = {j}
      BY <1>1, <2>1, <3>1 DEF JobsFit
    <3>3. Cardinality({j}) = 1
      BY FS_Singleton
    <3> QED
      BY <2>1, <2>3, <3>2, <3>3
  <2> QED
    BY <2>2, <2>3
<1>3. {j \in jobs : j.do # "ActivateNode"} =
        {DeactivateJob(a) : a \in Active}
          \cup {CheckJob(a) : a \in {b \in Active : nodes[b].join_state = "JOINED"}}
  <2>1. ASSUME NEW j \in jobs, j.do # "ActivateNode"
        PROVE  \/ \E a \in Active : j = DeactivateJob(a)
               \/ \E a \in Active : nodes[a].join_state = "JOINED" /\ j = CheckJob(a)
    <3>1. j \in [do : {"DeactivateNode", "CheckRandomValue"}, node : Addr]
      BY <1>1, <2>1 DEF Jobs
    <3>2. CASE j.do = "DeactivateNode"
      <4>1. j = DeactivateJob(j.node) /\ j.node \in Addr
        BY <3>1, <3>2 DEF DeactivateJob
      <4> QED
        BY <1>1, <4>1 DEF JobsFit
    <3>3. CASE j.do = "CheckRandomValue"
      <4>1. j = CheckJob(j.node) /\ j.node \in Addr
        BY <3>1, <3>3 DEF CheckJob
      <4> QED
        BY <1>1, <4>1 DEF JobsFit
    <3> QED
      BY <3>1, <3>2, <3>3
  <2>2. ASSUME NEW a \in Active
        PROVE  /\ DeactivateJob(a) \in jobs /\ DeactivateJob(a).do # "ActivateNode"
               /\ CheckJob(a).do # "ActivateNode"
               /\ nodes[a].join_state = "JOINED" => CheckJob(a) \in jobs
    <3>1. a \in Addr
      BY DEF Active
    <3> QED
      BY <1>1, <3>1 DEF JobsFit, DeactivateJob, CheckJob
  <2> QED
    BY <2>1, <2>2
<1> QED
  BY <1>2, <1>3 DEF JobsFitNodes

\* The jobs of the scheduler fit the nodes at all times: no node is made for an address
\* that has one, and no job is left for a node that was deleted.
THEOREM JobsStayFit == Spec => []JobsFitNodes
<1>1. IInv => JobsFitNodes
  BY JobsFitNodesFromIInv
<1> QED
  BY <1>1, Invariant, PTL

\* join_pinging_nodesN is the number of the pings under way, alpha of them while there
\* are contacts left and never more, after any sequence of answers and timeouts, also
\* when the list is empty, the search has begun or the node has joined.
THEOREM PingingStaysCounted == Spec => []PingingIsCounted
<1>1. IInv => PingingIsCounted
  BY DEF IInv, NodesFit, NodeInv, PingsFit, ListFits, PingingIsCounted
<1> QED
  BY <1>1, Invariant, PTL

\* A node that has called back that it joined has joined, and calls back no more.
THEOREM SucceedStaysLast == Spec => []SucceedIsLast
<1>1. IInv => SucceedIsLast
  BY DEF IInv, NodesFit, NodeInv, CallsFit, SucceedIsLast
<1> QED
  BY <1>1, Invariant, PTL

\* Of every node that has not joined, something is under way that will call back, or it
\* was the last thing called back that the node has failed.
THEOREM JoinKeepsGoing == Spec => []JoinGoesOn
<1>1. IInv => JoinGoesOn
  BY DEF IInv, NodesFit, NodeInv, GoesOn, JoinGoesOn
<1> QED
  BY <1>1, Invariant, PTL

LEMMA ValuesAreStoredOnceFromIInv ==
  ASSUME IInv
  PROVE  ValuesAreStoredOnce
<1>1. ValuesFit
  BY DEF IInv
<1>2. ASSUME NEW v \in 1 .. values_total
      PROVE  Cardinality({a \in Addr : <<a, v>> \in stored}) = IF v > values_counter THEN 1 ELSE 0
  <2>1. PICK who : who = {a \in Addr : <<a, v>> \in stored}
    OBVIOUS
  <2>2. CASE v > values_counter
    <3>1. PICK a \in Addr : <<a, v>> \in stored
      BY <1>1, <2>2 DEF ValuesFit
    <3>2. who = {a}
      BY <1>1, <2>1, <3>1 DEF ValuesFit
    <3>3. Cardinality({a}) = 1
      BY FS_Singleton
    <3> QED
      BY <2>1, <2>2, <3>2, <3>3
  <2>3. CASE ~(v > values_counter)
    <3>1. who = {}
      BY <1>1, <2>1, <2>3 DEF ValuesFit
    <3> QED
      BY <2>1, <2>3, <3>1, FS_EmptySet
  <2> QED
    BY <2>2, <2>3
<1>3. looked_up # NoValue => values_counter = 0
  BY <1>1 DEF ValuesFit
<1> QED
  BY <1>2, <1>3 DEF ValuesAreStoredOnce

\* However the nodes come, join and go, each value is stored by one of them, and a value
\* is looked up only when all are stored.
THEOREM ValuesStayStoredOnce == Spec => []ValuesAreStoredOnce
<1>1. IInv => ValuesAreStoredOnce
  BY ValuesAreStoredOnceFromIInv
<1> QED
  BY <1>1, Invariant, PTL

-----------------------------------------------------------------------------
(* What a deleted node leaves                                              *)

\* A node is terminated whose search was not to be tried again.
LEMMA TerminateEndsSearch ==
  ASSUME NEW nd, NodeInv(nd), nd.search # "again", NEW followed \in BOOLEAN
  PROVE  Terminate(nd, followed).search = "none"
<1>1. PICK pinged : pinged = TerminatePingRequests(nd)
  OBVIOUS
<1>2. pinged \in Calm
  <2>1. nd \in Calm /\ IsFiniteSet(nd.pings)
    BY DEF NodeInv, PingsFit, Calm
  <2> QED
    BY <1>1, <2>1, TerminatedPingsAreCalm
<1>3. pinged \in Node(Everyone) /\ pinged.search \in {"none", "once"}
  BY <1>2 DEF Calm, Node
<1>4. PICK one : one = TerminateOneSearch(pinged)
  OBVIOUS
<1>5. one.search = "none"
  <2>1. CASE pinged.search = "none"
    BY <1>4, <2>1 DEF TerminateOneSearch
  <2>2. CASE pinged.search = "once"
    <3>1. PICK mid : mid = [pinged EXCEPT !.join_state = "NOT_JOINED", !.search = "none"]
      OBVIOUS
    <3>2. mid \in Node(Everyone) /\ mid.search = "none"
      BY <1>3, <3>1 DEF Node
    <3>3. one = CallBack(mid, "FAILED")
      BY <1>4, <2>2, <3>1 DEF TerminateOneSearch, Join_FindNodeCallback
    <3> QED
      BY <3>2, <3>3, CallBackFacts
  <2> QED
    BY <1>3, <2>1, <2>2
<1>6. TerminateOneSearch(one) = one
  BY <1>5 DEF TerminateOneSearch
<1>7. Terminate(nd, followed) = one
  BY <1>1, <1>4, <1>6 DEF Terminate, TerminateFindRequests
<1> QED
  BY <1>5, <1>7

\* Only the search of a join procedure that was to be tried again outlives its node:
\* whatever pings and searches a node has when it is deleted, and whichever callbacks
\* run while they are terminated, all others are gone with it.
THEOREM OnlyTheJoinSearchStaysLeft == Spec => OnlyTheJoinSearchIsLeft
<1>1. ASSUME IInv, [Next]_vars
      PROVE  [\A a \in left' \ left : nodes[a].search = "again"]_vars
  <2>1. ASSUME NEW a \in Addr, DeactivateNode(a)
        PROVE  \A b \in left' \ left : nodes[b].search = "again"
    <3>1. PICK followed \in BOOLEAN :
            left' = IF Terminate(nodes[a], followed).search # "none" THEN left \cup {a} ELSE left
      BY <2>1 DEF DeactivateNode
    <3>2. NodeInv(nodes[a])
      <4>1. a \in Active
        BY <1>1, <2>1 DEF DeactivateNode, IInv, JobsFit
      <4> QED
        BY <1>1, <4>1, ActiveNode
    <3>3. Terminate(nodes[a], followed).search # "none" => nodes[a].search = "again"
      BY <3>2, TerminateEndsSearch
    <3> QED
      BY <3>1, <3>3
  <2>2. ASSUME NEW a \in Addr, ActivateNode(a) PROVE left' = left
    BY <2>2 DEF ActivateNode
  <2>3. ASSUME NEW a \in Addr, SearchEnds(a) PROVE left' = left
    BY <2>3 DEF SearchEnds, Becomes
  <2>4. ASSUME NEW a \in Addr, CheckRandomValue(a) PROVE left' = left
    BY <2>4 DEF CheckRandomValue
  <2>5. ASSUME NEW a \in Addr, NEW p \in PingId \X Everyone, PingRequestTimeout(a, p) PROVE left' = left
    BY <2>5 DEF PingRequestTimeout, Becomes
  <2>6. ASSUME NEW m \in BagToSet(network), DoPingRequest(m) PROVE left' = left
    BY <2>6 DEF DoPingRequest
  <2>7. ASSUME NEW m \in BagToSet(network), DoPingResponse(m) PROVE left' = left
    BY <2>7 DEF DoPingResponse, Becomes
  <2> QED
    BY <1>1, <2>1, <2>2, <2>3, <2>4, <2>5, <2>6, <2>7 DEF Next
<1> QED
  BY <1>1, Invariant, PTL DEF Spec, OnlyTheJoinSearchIsLeft
=============================================================================
