--------------------------- MODULE Lookup_proofs ---------------------------
(***************************************************************************)
(* The searches of Lookup are safe for any ids and any metric, any K,      *)
(* alpha and attempts_number, and any number of searches: timeouts never   *)
(* dangle, pending_nodes is right, no search is left waiting for nothing,  *)
(* each calls back once, what it reports are the closest that answer, and  *)
(* it asks each peer attempts_number + 1 times at most.  The searches      *)
(* implement SearchService.                                                *)
(*                                                                         *)
(* Nearly all the work is done once, in the lemma about Advance, the tail  *)
(* that the answers and the timeout have in common: it takes candidates,   *)
(* a count and jobs that agree with each other, and leaves a search that   *)
(* either waits for something or is being reported.                        *)
(***************************************************************************)
EXTENDS Lookup, FiniteSetTheorems, TLAPS

\* The searches in progress have been started.
LiveAreStarted == \A id \in find_requests : id < find_id_counter

IInv ==
  /\ TypeOK
  /\ JobsArePending
  /\ PendingIsCounted
  /\ NeverStuck
  /\ CalledBackOnce
  /\ LiveAreStarted

-----------------------------------------------------------------------------
(* The closest of a set, for every metric in which no two ids tie          *)

\* SendFindRequestToOneNode and GetClosestContacts take at most k, and take some
\* if there are any.
LEMMA NearestIsSubset ==
  ASSUME NEW S, IsFiniteSet(S), NEW t, NEW k \in Nat, NEW T \in Nearest(S, t, k)
  PROVE  /\ T \subseteq S
         /\ IsFiniteSet(T)
         /\ Cardinality(T) \in Nat
         /\ Cardinality(T) <= k
         /\ Cardinality(T) = 0 <=> T = {}
         /\ S # {} /\ k > 0 => T # {}
<1>1. /\ T \subseteq S
      /\ Cardinality(T) = IF Cardinality(S) < k THEN Cardinality(S) ELSE k
  BY DEF Nearest
<1>2. IsFiniteSet(T) /\ Cardinality(T) \in Nat /\ Cardinality(S) \in Nat
  BY <1>1, FS_Subset, FS_CardinalityType
<1>3. Cardinality(T) = 0 <=> T = {}
  BY <1>2, FS_EmptySet
<1>4. Cardinality(S) = 0 <=> S = {}
  BY FS_EmptySet
<1> QED
  BY <1>1, <1>2, <1>3, <1>4

\* What was left out is farther than everything that was taken, and only k make
\* the set leave anything out.
LEMMA NearestLeavesOut ==
  ASSUME NEW S, IsFiniteSet(S), NEW t, NEW k \in Nat, NEW T \in Nearest(S, t, k),
         NEW n \in S \ T
  PROVE  Cardinality(T) = k /\ \A m \in T : Closer(t, m, n)
<1>1. T \subseteq S /\ \A m \in T : Closer(t, m, n)
  BY DEF Nearest
<1>2. CASE Cardinality(S) < k
  <2>1. Cardinality(T) = Cardinality(S)
    BY <1>2 DEF Nearest
  <2> QED
    BY <2>1, <1>1, FS_Subset
<1>3. CASE ~(Cardinality(S) < k)
  BY <1>1, <1>3 DEF Nearest
<1> QED
  BY <1>2, <1>3

\* An id with k of S before it is behind all the k closest of S: the reason why a
\* search may stop asking after K answers.
LEMMA BehindNearest ==
  ASSUME NEW S \in SUBSET Id, IsFiniteSet(S), NEW t \in Id, NEW k \in Nat,
         NEW T \in Nearest(S, t, k), NEW n \in Id \ S,
         ~(Cardinality({m \in S : Closer(t, m, n)}) < k)
  PROVE  Cardinality(T) = k /\ \A m \in T : Closer(t, m, n)
<1> DEFINE C == {m \in S : Closer(t, m, n)}
<1>1. /\ T \subseteq S
      /\ Cardinality(T) = IF Cardinality(S) < k THEN Cardinality(S) ELSE k
      /\ \A a \in T, b \in S \ T : Closer(t, a, b)
  BY DEF Nearest
<1>2. /\ IsFiniteSet(T) /\ Cardinality(T) \in Nat
      /\ IsFiniteSet(C) /\ Cardinality(C) \in Nat
      /\ Cardinality(C) <= Cardinality(S) /\ Cardinality(S) \in Nat
  BY <1>1, FS_Subset, FS_CardinalityType
<1>3. Cardinality(T) = k
  BY <1>1, <1>2
<1>4. ASSUME NEW m \in T, ~Closer(t, m, n) PROVE FALSE
  <2>1. \A a, b \in Id : Dist[t][a] \in Nat /\ Dist[t][b] \in Nat
    BY DistAssumption
  <2>2. C \subseteq T \ {m}
    <3> SUFFICES ASSUME NEW c \in C, c \notin T \ {m} PROVE FALSE
      OBVIOUS
    <3>1. c # m /\ c \in S \ T
      BY <1>4
    <3>2. Closer(t, m, c) /\ Closer(t, c, n)
      BY <1>1, <3>1
    <3> QED
      BY <1>1, <1>4, <2>1, <3>1, <3>2 DEF Closer
  <2>3. IsFiniteSet(T \ {m}) /\ Cardinality(T \ {m}) = k - 1
    BY <1>2, <1>3, FS_RemoveElement
  <2>4. Cardinality(C) <= k - 1
    BY <2>2, <2>3, FS_Subset
  <2> QED
    BY <1>2, <2>4
<1> QED
  BY <1>3, <1>4

USE LookupAssumption

-----------------------------------------------------------------------------
(* Lemmas about the operators                                              *)

LEMMA StatesAreFinite ==
  ASSUME NEW ct, NEW s
  PROVE  /\ InState(ct, s) \in SUBSET Id
         /\ IsFiniteSet(InState(ct, s))
         /\ Cardinality(InState(ct, s)) \in Nat
         /\ Cardinality(InState(ct, s)) = 0 <=> InState(ct, s) = {}
<1>1. InState(ct, s) \in SUBSET Id
  BY DEF InState
<1>2. IsFiniteSet(InState(ct, s))
  BY <1>1, FS_Subset
<1> QED
  BY <1>1, <1>2, FS_CardinalityType, FS_EmptySet

\* The routing table holds peers whatever AddContact does.
LEMMA AddContactType ==
  ASSUME NEW c \in SUBSET (Id \ {Self}), NEW p \in Id \ {Self}, NEW d \in RT!AddContact(c, p)
  PROVE  d \in SUBSET (Id \ {Self})
  BY DEF RT!AddContact

\* The candidates to ask next: UNKNOWN peers, alpha - p of them at most, and none
\* only if there is none to ask.
LEMMA EligibleFacts ==
  ASSUME NEW ct \in [Id -> CandidateType], NEW t, NEW k \in Nat,
         NEW ns \in Nearest(Eligible(ct, t), t, k)
  PROVE  /\ ns \in SUBSET (Id \ {Self})
         /\ ns \subseteq InState(ct, "UNKNOWN")
         /\ IsFiniteSet(ns)
         /\ Cardinality(ns) \in Nat /\ Cardinality(ns) <= k
         /\ Cardinality(ns) = 0 <=> ns = {}
         /\ k > 0 /\ Eligible(ct, t) # {} => ns # {}
<1>1. Eligible(ct, t) \subseteq InState(ct, "UNKNOWN") \ {Self}
  BY DEF Eligible
<1>2. IsFiniteSet(Eligible(ct, t))
  BY <1>1, StatesAreFinite, FS_Subset
<1> QED
  BY <1>1, <1>2, NearestIsSubset, StatesAreFinite

\* The number of PENDING candidates after asking ns.
LEMMA AskCounts ==
  ASSUME NEW ct \in [Id -> CandidateType], NEW ns \in SUBSET InState(ct, "UNKNOWN"),
         NEW after, after = [n \in Id |-> IF n \in ns THEN "PENDING" ELSE ct[n]]
  PROVE  /\ after \in [Id -> CandidateType]
         /\ InState(after, "PENDING") = InState(ct, "PENDING") \cup ns
         /\ Cardinality(InState(after, "PENDING")) =
              Cardinality(InState(ct, "PENDING")) + Cardinality(ns)
<1>1. after \in [Id -> CandidateType]
  BY DEF CandidateType
<1>2. InState(after, "PENDING") = InState(ct, "PENDING") \cup ns
  BY DEF InState
<1>3. InState(ct, "PENDING") \cap ns = {}
  BY DEF InState
<1>4. IsFiniteSet(ns)
  BY StatesAreFinite, FS_Subset
<1>5. Cardinality(InState(ct, "PENDING") \cup ns) =
        Cardinality(InState(ct, "PENDING")) + Cardinality(ns) - 0
  BY <1>3, <1>4, StatesAreFinite, FS_Union, FS_EmptySet
<1>6. Cardinality(ns) \in Nat /\ Cardinality(InState(ct, "PENDING")) \in Nat
  BY <1>4, FS_CardinalityType, StatesAreFinite
<1>7. Cardinality(InState(ct, "PENDING") \cup ns) =
        Cardinality(InState(ct, "PENDING")) + Cardinality(ns)
  BY <1>5, <1>6
<1> QED
  BY <1>1, <1>2, <1>7

\* The number of PENDING candidates when one of them changes its state.
LEMMA OneLessPending ==
  ASSUME NEW ct \in [Id -> CandidateType], NEW n \in Id,
         NEW s \in CandidateType \ {"PENDING"},
         NEW after, after = [ct EXCEPT ![n] = s]
  PROVE  /\ after \in [Id -> CandidateType]
         /\ InState(after, "PENDING") = InState(ct, "PENDING") \ {n}
         /\ Cardinality(InState(after, "PENDING")) =
              IF ct[n] = "PENDING" THEN Cardinality(InState(ct, "PENDING")) - 1
                                   ELSE Cardinality(InState(ct, "PENDING"))
<1>1. after \in [Id -> CandidateType]
  OBVIOUS
<1>2. InState(after, "PENDING") = InState(ct, "PENDING") \ {n}
  BY DEF InState
<1>3. n \in InState(ct, "PENDING") <=> ct[n] = "PENDING"
  BY DEF InState
<1>4. Cardinality(InState(ct, "PENDING") \ {n}) =
        IF n \in InState(ct, "PENDING") THEN Cardinality(InState(ct, "PENDING")) - 1
                                        ELSE Cardinality(InState(ct, "PENDING"))
  BY StatesAreFinite, FS_RemoveElement
<1> QED
  BY <1>1, <1>2, <1>3, <1>4

\* FindRequestData::Update adds UNKNOWN candidates and changes no other.
LEMMA UpdateFacts ==
  ASSUME NEW ct \in [Id -> CandidateType], NEW nodes
  PROVE  /\ Update(ct, nodes) \in [Id -> CandidateType]
         /\ \A s \in CandidateType \ {"NONE", "UNKNOWN"} :
              InState(Update(ct, nodes), s) = InState(ct, s)
<1>1. Update(ct, nodes) \in [Id -> CandidateType]
  BY DEF Update, CandidateType
<1>2. ASSUME NEW s \in CandidateType \ {"NONE", "UNKNOWN"}
      PROVE  InState(Update(ct, nodes), s) = InState(ct, s)
  BY DEF Update, InState, CandidateType
<1> QED
  BY <1>1, <1>2

-----------------------------------------------------------------------------
(* The steps                                                               *)

LEMMA InitIInv == Init => IInv
<1> SUFFICES ASSUME Init PROVE IInv
  OBVIOUS
<1>1. TypeOK
  <2>1. [code |-> "NONE", nodes |-> {}] \in Outcome /\ [down |-> {}, to |-> {}] \in Downlist
    BY DEF Outcome, Downlist
  <2>2. NoCandidates \in [Id -> CandidateType] /\ NoAttempts \in [Id -> Nat]
    BY DEF NoCandidates, NoAttempts, CandidateType
  <2>3. "FIND_NODE" \in FindType /\ 0 \in 0 .. MaxFinds
    BY DEF FindType
  <2>4. /\ contacts \in SUBSET (Id \ {Self})
        /\ find_id_counter \in 0 .. MaxFinds
        /\ find_requests \in SUBSET FindId
        /\ jobs \in SUBSET (FindId \X Id)
        /\ calling \in find_requests \cup {NoCall}
        /\ aborted \in BOOLEAN
    BY <2>3 DEF Init
  <2>5. /\ type \in [FindId -> FindType]
        /\ target \in [FindId -> Id]
        /\ cand \in [FindId -> [Id -> CandidateType]]
        /\ attempts \in [FindId -> [Id -> Nat]]
    BY <2>2, <2>3 DEF Init
  <2>6. /\ pending_nodes \in [FindId -> Int]
        /\ requests_total \in [FindId -> Nat]
        /\ calls \in [FindId -> Nat]
    BY DEF Init
  <2>7. /\ sent \in [FindId -> SUBSET (Id \ {Self})]
        /\ outcome \in [FindId -> Outcome]
        /\ cached \in [FindId -> SUBSET Id]
        /\ downlists \in [FindId -> Downlist]
    BY <2>1 DEF Init
  <2> QED
    BY <2>4, <2>5, <2>6, <2>7 DEF TypeOK
<1>2. JobsArePending /\ PendingIsCounted /\ NeverStuck /\ CalledBackOnce /\ LiveAreStarted
  BY DEF Init, JobsArePending, PendingIsCounted, NeverStuck, CalledBackOnce, LiveAreStarted,
         FindId
<1> QED
  BY <1>1, <1>2 DEF IInv

\* The jobs when the candidates of id are ct.
JobsWith(id, ct) ==
  {j \in FindId \X Id : /\ j[1] \in find_requests
                        /\ (IF j[1] = id THEN ct ELSE cand[j[1]])[j[2]] = "PENDING"}

\* A report starts: its result is made of candidates that are UP.
LEMMA ReportEndFacts ==
  ASSUME TypeOK, NEW id \in FindId, NEW ct \in [Id -> CandidateType], ReportEnd(id, ct)
  PROVE  /\ calling' = id
         /\ calls' = [calls EXCEPT ![id] = @ + 1]
         /\ outcome' \in [FindId -> Outcome]
<1>1. ASSUME NEW c \in {"SUCCEED", "FAILED"}, NEW nodes \in SUBSET Id, CallBack(id, c, nodes)
      PROVE  /\ calling' = id
             /\ calls' = [calls EXCEPT ![id] = @ + 1]
             /\ outcome' \in [FindId -> Outcome]
  <2>1. [code |-> c, nodes |-> nodes] \in Outcome
    BY DEF Outcome
  <2> QED
    BY <1>1, <2>1 DEF CallBack, TypeOK
<1>2. CASE type[id] = "FIND_NODE"
  <2>1. PICK nodes \in Nearest(Reportable(ct), target[id], K) :
               CallBack(id, IF nodes = {} THEN "FAILED" ELSE "SUCCEED", nodes)
    BY <1>2 DEF ReportEnd
  <2>2. nodes \in SUBSET Id
    BY StatesAreFinite, NearestIsSubset DEF Reportable
  <2> QED
    BY <1>1, <2>1, <2>2
<1>3. CASE type[id] # "FIND_NODE"
  <2>1. CallBack(id, "FAILED", {})
    BY <1>3 DEF ReportEnd
  <2> QED
    BY <1>1, <2>1
<1> QED
  BY <1>2, <1>3

\* Given candidates, a count of the PENDING ones and the jobs that agree, the search
\* goes on waiting or is reported.
LEMMA AdvanceIInv ==
  ASSUME IInv, calling = NoCall, NEW id \in find_requests,
         NEW ct \in [Id -> CandidateType], NEW p, NEW jb,
         p = Cardinality(InState(ct, "PENDING")), p <= alpha,
         jb = JobsWith(id, ct),
         contacts' \in SUBSET (Id \ {Self}),
         attempts' \in [FindId -> [Id -> Nat]],
         Advance(id, ct, p, jb)
  PROVE  IInv'
<1> id \in FindId
  BY DEF IInv, TypeOK
<1>1. PICK ns \in Nearest(Eligible(ct, target[id]), target[id], alpha - p) :
        /\ Ask(id, ct, ns, p, jb)
        /\ IF p + Cardinality(ns) = 0 THEN ReportEnd(id, ct) ELSE UNCHANGED reporting
  BY DEF Advance
<1>2. UNCHANGED <<find_id_counter, find_requests, type, target, cached, downlists, aborted>>
  BY DEF Advance
<1>3. p \in Nat /\ alpha - p \in Nat
  BY StatesAreFinite
<1>4. /\ ns \in SUBSET (Id \ {Self})
      /\ ns \subseteq InState(ct, "UNKNOWN")
      /\ Cardinality(ns) \in Nat /\ Cardinality(ns) <= alpha - p
  BY <1>3, EligibleFacts
<1> DEFINE after == [n \in Id |-> IF n \in ns THEN "PENDING" ELSE ct[n]]
<1>5. /\ after \in [Id -> CandidateType]
      /\ InState(after, "PENDING") = InState(ct, "PENDING") \cup ns
      /\ Cardinality(InState(after, "PENDING")) = p + Cardinality(ns)
  BY <1>4, AskCounts
<1>6. /\ cand' = [cand EXCEPT ![id] = after]
      /\ pending_nodes' = [pending_nodes EXCEPT ![id] = p + Cardinality(ns)]
      /\ requests_total' = [requests_total EXCEPT ![id] = @ + Cardinality(ns)]
      /\ jobs' = jb \cup Owners(id, ns)
      /\ sent' = [sent EXCEPT ![id] = @ \cup ns]
  BY <1>1 DEF Ask
<1>7. \/ /\ p + Cardinality(ns) = 0
         /\ calling' = id
         /\ calls' = [calls EXCEPT ![id] = @ + 1]
         /\ outcome' \in [FindId -> Outcome]
      \/ /\ p + Cardinality(ns) > 0
         /\ UNCHANGED <<calling, calls, outcome>>
  BY <1>1, <1>3, <1>4, ReportEndFacts DEF IInv, reporting
<1>8. TypeOK'
  <2>1. jobs' \in SUBSET (FindId \X Id)
    BY <1>4, <1>6 DEF JobsWith, Owners
  <2>2. /\ cand' \in [FindId -> [Id -> CandidateType]]
        /\ pending_nodes' \in [FindId -> Int]
        /\ requests_total' \in [FindId -> Nat]
        /\ sent' \in [FindId -> SUBSET (Id \ {Self})]
    BY <1>3, <1>4, <1>5, <1>6 DEF IInv, TypeOK
  <2>3. /\ calling' \in find_requests' \cup {NoCall}
        /\ calls' \in [FindId -> Nat]
        /\ outcome' \in [FindId -> Outcome]
    <3>1. calls \in [FindId -> Nat] /\ outcome \in [FindId -> Outcome]
      BY DEF IInv, TypeOK
    <3> QED
      BY <1>2, <1>7, <3>1
  <2> QED
    BY <1>2, <2>1, <2>2, <2>3 DEF IInv, TypeOK
<1>9. JobsArePending'
  <2>1. ASSUME NEW j \in FindId \X Id
        PROVE  j \in jobs' <=> j[1] \in find_requests /\ cand'[j[1]][j[2]] = "PENDING"
    <3>1. CASE j[1] = id
      <4>1. cand'[j[1]] = after
        BY <1>6, <3>1 DEF IInv, TypeOK
      <4>2. j \in Owners(id, ns) <=> j[2] \in ns
        BY <3>1 DEF Owners
      <4>3. after[j[2]] = "PENDING" <=> j[2] \in ns \/ ct[j[2]] = "PENDING"
        OBVIOUS
      <4> QED
        BY <1>6, <3>1, <4>1, <4>2, <4>3 DEF JobsWith
    <3>2. CASE j[1] # id
      <4>1. cand'[j[1]] = cand[j[1]]
        BY <1>6, <3>2 DEF IInv, TypeOK
      <4>2. j \notin Owners(id, ns)
        BY <3>2 DEF Owners
      <4> QED
        BY <1>6, <3>2, <4>1, <4>2 DEF JobsWith
    <3> QED
      BY <3>1, <3>2
  <2> QED
    BY <1>2, <1>8, <2>1 DEF JobsArePending, TypeOK
<1>10. PendingIsCounted'
  BY <1>2, <1>3, <1>4, <1>5, <1>6 DEF IInv, TypeOK, PendingIsCounted
<1>11. NeverStuck'
  <2> SUFFICES ASSUME NEW i \in find_requests, i # calling'
               PROVE  pending_nodes'[i] > 0
    BY <1>2 DEF NeverStuck
  <2>1. CASE i = id
    BY <1>3, <1>4, <1>6, <1>7, <2>1 DEF IInv, TypeOK
  <2>2. CASE i # id
    <3>1. pending_nodes'[i] = pending_nodes[i]
      BY <1>6, <2>2 DEF IInv, TypeOK
    <3>2. i # NoCall
      BY DEF IInv, TypeOK, NoCall, FindId
    <3> QED
      BY <3>1, <3>2 DEF IInv, NeverStuck
  <2> QED
    BY <2>1, <2>2
<1>12. CalledBackOnce'
  <2> SUFFICES ASSUME NEW i \in FindId
               PROVE  calls'[i] = IF i < find_id_counter /\ (i \notin find_requests \/ i = calling')
                                    THEN 1 ELSE 0
    BY <1>2 DEF CalledBackOnce
  <2>1. i # NoCall
    BY DEF NoCall, FindId
  <2>2. calls[i] = IF i < find_id_counter /\ i \notin find_requests THEN 1 ELSE 0
    BY <2>1 DEF IInv, CalledBackOnce
  <2>3. id < find_id_counter
    BY DEF IInv, LiveAreStarted
  <2>4. CASE p + Cardinality(ns) > 0
    BY <1>3, <1>4, <1>7, <2>1, <2>2, <2>4
  <2>5. CASE p + Cardinality(ns) = 0
    <3>1. calling' = id /\ calls' = [calls EXCEPT ![id] = @ + 1]
      BY <1>7, <2>5
    <3>2. CASE i = id
      BY <2>2, <2>3, <3>1, <3>2 DEF IInv, TypeOK
    <3>3. CASE i # id
      BY <2>2, <3>1, <3>3 DEF IInv, TypeOK
    <3> QED
      BY <3>2, <3>3
  <2>6. p + Cardinality(ns) > 0 \/ p + Cardinality(ns) = 0
    BY <1>3, <1>4
  <2> QED
    BY <2>4, <2>5, <2>6
<1>13. LiveAreStarted'
  BY <1>2 DEF IInv, LiveAreStarted
<1> QED
  BY <1>8, <1>9, <1>10, <1>11, <1>12, <1>13 DEF IInv

\* Without the timeout of n the jobs agree with candidates among which n is no
\* longer PENDING.
LEMMA JobsWithout ==
  ASSUME TypeOK, JobsArePending, NEW id \in find_requests, NEW n \in Id,
         NEW ct \in [Id -> CandidateType],
         InState(ct, "PENDING") = InState(cand[id], "PENDING") \ {n}
  PROVE  jobs \ {<<id, n>>} = JobsWith(id, ct)
<1>1. ASSUME NEW j \in FindId \X Id
      PROVE  j \in jobs \ {<<id, n>>} <=> j \in JobsWith(id, ct)
  <2>1. j \in jobs <=> j[1] \in find_requests /\ cand[j[1]][j[2]] = "PENDING"
    BY DEF JobsArePending
  <2>2. j = <<id, n>> <=> j[1] = id /\ j[2] = n
    OBVIOUS
  <2>3. CASE j[1] = id
    <3>1. ct[j[2]] = "PENDING" <=> cand[id][j[2]] = "PENDING" /\ j[2] # n
      BY DEF InState
    <3> QED
      BY <2>1, <2>2, <2>3, <3>1 DEF JobsWith
  <2>4. CASE j[1] # id
    BY <2>1, <2>2, <2>4 DEF JobsWith
  <2> QED
    BY <2>3, <2>4
<1>2. jobs \subseteq FindId \X Id /\ JobsWith(id, ct) \subseteq FindId \X Id
  BY DEF TypeOK, JobsWith
<1> QED
  BY <1>1, <1>2

\* The candidates, their count and their jobs when n has answered.
LEMMA UpFacts ==
  ASSUME IInv, NEW id \in find_requests, NEW n \in Id
  PROVE  /\ Up(id, n) \in [Id -> CandidateType]
         /\ InState(Up(id, n), "PENDING") = InState(cand[id], "PENDING") \ {n}
         /\ PendingAfterAnswer(id, n) = Cardinality(InState(Up(id, n), "PENDING"))
         /\ PendingAfterAnswer(id, n) <= alpha
<1> id \in FindId /\ cand[id] \in [Id -> CandidateType] /\ "UP" \in CandidateType \ {"PENDING"}
  BY DEF IInv, TypeOK, CandidateType
<1>1. /\ pending_nodes[id] = Cardinality(InState(cand[id], "PENDING"))
      /\ pending_nodes[id] <= alpha
  BY DEF IInv, PendingIsCounted
<1>2. pending_nodes[id] \in Nat
  BY <1>1, StatesAreFinite
<1>3. /\ Up(id, n) \in [Id -> CandidateType]
      /\ InState(Up(id, n), "PENDING") = InState(cand[id], "PENDING") \ {n}
      /\ Cardinality(InState(Up(id, n), "PENDING")) =
              IF cand[id][n] = "PENDING" THEN Cardinality(InState(cand[id], "PENDING")) - 1
                                   ELSE Cardinality(InState(cand[id], "PENDING"))
  BY OneLessPending DEF Up
<1>4. PendingAfterAnswer(id, n) = Cardinality(InState(Up(id, n), "PENDING"))
  BY <1>1, <1>3 DEF PendingAfterAnswer
<1>5. PendingAfterAnswer(id, n) <= alpha
  BY <1>1, <1>2 DEF PendingAfterAnswer
<1> QED
  BY <1>3, <1>4, <1>5

LEMMA AnswerIInv ==
  ASSUME IInv, NEW id \in FindId, NEW n \in Id, NEW nodes, Answer(id, n, nodes)
  PROVE  IInv'
<1> DEFINE ct == Update(Up(id, n), nodes)
           p == PendingAfterAnswer(id, n)
           jb == jobs \ {<<id, n>>}
<1>1. /\ calling = NoCall
      /\ id \in find_requests
      /\ n \in Id \ {Self}
      /\ contacts' \in RT!AddContact(contacts, n)
      /\ UNCHANGED attempts
      /\ Advance(id, ct, p, jb)
  BY DEF Answer, Idle, IsKnown, IInv, TypeOK
<1>2. contacts' \in SUBSET (Id \ {Self})
  BY <1>1, AddContactType DEF IInv, TypeOK
<1>3. attempts' \in [FindId -> [Id -> Nat]]
  BY <1>1 DEF IInv, TypeOK
<1>4. ct \in [Id -> CandidateType] /\ InState(ct, "PENDING") = InState(Up(id, n), "PENDING")
  BY <1>1, UpFacts, UpdateFacts DEF CandidateType
<1>5. p = Cardinality(InState(ct, "PENDING")) /\ p <= alpha
  BY <1>1, <1>4, UpFacts
<1>6. jb = JobsWith(id, ct)
  <2>1. InState(ct, "PENDING") = InState(cand[id], "PENDING") \ {n}
    BY <1>1, <1>4, UpFacts
  <2> QED
    BY <1>1, <1>4, <2>1, JobsWithout DEF IInv
<1> HIDE DEF ct, p, jb
<1> QED
  BY <1>1, <1>2, <1>3, <1>4, <1>5, <1>6, AdvanceIInv

\* The same after a timeout.
LEMMA TimeoutFacts ==
  ASSUME IInv, NEW id \in FindId, NEW n \in Id, <<id, n>> \in jobs
  PROVE  /\ id \in find_requests
         /\ AfterTimeout(id, n) \in [Id -> CandidateType]
         /\ InState(AfterTimeout(id, n), "PENDING") = InState(cand[id], "PENDING") \ {n}
         /\ pending_nodes[id] - 1 = Cardinality(InState(AfterTimeout(id, n), "PENDING"))
         /\ pending_nodes[id] - 1 <= alpha
<1>1. id \in find_requests /\ cand[id][n] = "PENDING"
  BY DEF IInv, JobsArePending
<1>2. /\ cand[id] \in [Id -> CandidateType]
      /\ (IF attempts[id][n] < attempts_number THEN "UNKNOWN" ELSE "DOWN")
           \in CandidateType \ {"PENDING"}
  BY DEF IInv, TypeOK, CandidateType
<1>3. /\ pending_nodes[id] = Cardinality(InState(cand[id], "PENDING"))
      /\ pending_nodes[id] <= alpha
  BY <1>1 DEF IInv, PendingIsCounted
<1> QED
  BY <1>1, <1>2, <1>3, OneLessPending, StatesAreFinite DEF AfterTimeout

LEMMA FindRequestTimeoutIInv ==
  ASSUME IInv, NEW id \in FindId, NEW n \in Id, FindRequestTimeout(id, n)
  PROVE  IInv'
<1> DEFINE ct == AfterTimeout(id, n)
           p == pending_nodes[id] - 1
           jb == jobs \ {<<id, n>>}
<1>1. /\ calling = NoCall
      /\ <<id, n>> \in jobs
      /\ attempts' = [attempts EXCEPT ![id][n] = @ + 1]
      /\ UNCHANGED contacts
      /\ Advance(id, ct, p, jb)
  BY DEF FindRequestTimeout, Idle
<1>2. contacts' \in SUBSET (Id \ {Self}) /\ attempts' \in [FindId -> [Id -> Nat]]
  BY <1>1 DEF IInv, TypeOK
<1>3. /\ id \in find_requests
      /\ ct \in [Id -> CandidateType]
      /\ InState(ct, "PENDING") = InState(cand[id], "PENDING") \ {n}
      /\ p = Cardinality(InState(ct, "PENDING"))
      /\ p <= alpha
  BY <1>1, TimeoutFacts
<1>4. jb = JobsWith(id, ct)
  BY <1>3, JobsWithout DEF IInv
<1> HIDE DEF ct, p, jb
<1> QED
  BY <1>1, <1>2, <1>3, <1>4, AdvanceIInv

LEMMA AnswerWithValueIInv ==
  ASSUME IInv, NEW id \in FindId, NEW n \in Id, AnswerWithValue(id, n)
  PROVE  IInv'
<1>1. /\ calling = NoCall
      /\ id \in find_requests
      /\ n \in Id \ {Self}
      /\ contacts' \in RT!AddContact(contacts, n)
  BY DEF AnswerWithValue, Idle, IsKnown, IInv, TypeOK
<1>2. /\ cand' = [cand EXCEPT ![id] = Up(id, n)]
      /\ pending_nodes' = [pending_nodes EXCEPT ![id] = PendingAfterAnswer(id, n)]
      /\ jobs' = jobs \ {<<id, n>>}
      /\ calling' = id
      /\ calls' = [calls EXCEPT ![id] = @ + 1]
      /\ outcome' = [outcome EXCEPT ![id] = [code |-> "SUCCEED", nodes |-> {n}]]
      /\ UNCHANGED <<find_id_counter, find_requests, type, target, attempts, requests_total,
                     sent, cached, downlists, aborted>>
  BY DEF AnswerWithValue, CallBack
<1>3. /\ Up(id, n) \in [Id -> CandidateType]
      /\ InState(Up(id, n), "PENDING") = InState(cand[id], "PENDING") \ {n}
      /\ PendingAfterAnswer(id, n) = Cardinality(InState(Up(id, n), "PENDING"))
      /\ PendingAfterAnswer(id, n) <= alpha
      /\ PendingAfterAnswer(id, n) \in Nat
  BY <1>1, UpFacts, StatesAreFinite
<1>4. TypeOK'
  <2>1. contacts' \in SUBSET (Id \ {Self})
    BY <1>1, AddContactType DEF IInv, TypeOK
  <2>2. [code |-> "SUCCEED", nodes |-> {n}] \in Outcome
    BY DEF Outcome
  <2>3. outcome' \in [FindId -> Outcome]
    BY <1>2, <2>2 DEF IInv, TypeOK
  <2>4. /\ cand' \in [FindId -> [Id -> CandidateType]]
        /\ pending_nodes' \in [FindId -> Int]
        /\ calls' \in [FindId -> Nat]
        /\ jobs' \in SUBSET (FindId \X Id)
        /\ calling' \in find_requests' \cup {NoCall}
    BY <1>1, <1>2, <1>3 DEF IInv, TypeOK
  <2> QED
    BY <1>2, <2>1, <2>3, <2>4 DEF IInv, TypeOK
<1>5. JobsArePending'
  <2>1. jobs' = JobsWith(id, Up(id, n))
    BY <1>1, <1>2, <1>3, JobsWithout DEF IInv
  <2>2. \A i \in FindId : cand'[i] = IF i = id THEN Up(id, n) ELSE cand[i]
    BY <1>2 DEF IInv, TypeOK
  <2>3. JobsWith(id, Up(id, n)) =
          {j \in FindId \X Id : j[1] \in find_requests' /\ cand'[j[1]][j[2]] = "PENDING"}
    BY <1>2, <2>2 DEF JobsWith
  <2> QED
    BY <2>1, <2>3 DEF JobsArePending
<1>6. PendingIsCounted'
  BY <1>2, <1>3 DEF IInv, TypeOK, PendingIsCounted
<1>7. NeverStuck'
  BY <1>1, <1>2 DEF IInv, TypeOK, NeverStuck, NoCall, FindId
<1>8. CalledBackOnce'
  <2> SUFFICES ASSUME NEW i \in FindId
               PROVE  calls'[i] = IF i < find_id_counter /\ (i \notin find_requests \/ i = id)
                                    THEN 1 ELSE 0
    BY <1>2 DEF CalledBackOnce
  <2>1. calls[i] = IF i < find_id_counter /\ i \notin find_requests THEN 1 ELSE 0
    BY <1>1 DEF IInv, CalledBackOnce, NoCall, FindId
  <2>2. id < find_id_counter
    BY <1>1 DEF IInv, LiveAreStarted
  <2> QED
    BY <1>1, <1>2, <2>1, <2>2 DEF IInv, TypeOK
<1>9. LiveAreStarted'
  BY <1>2 DEF IInv, LiveAreStarted
<1> QED
  BY <1>4, <1>5, <1>6, <1>7, <1>8, <1>9 DEF IInv

LEMMA FinishSearchIInv ==
  ASSUME IInv, NEW id \in FindId, FinishSearch(id)
  PROVE  IInv'
<1>1. /\ calling = id
      /\ calling' = NoCall
      /\ jobs' = jobs \ TimeoutsOf(id)
      /\ find_requests' = find_requests \ {id}
      /\ cand' = [cand EXCEPT ![id] = NoCandidates]
      /\ attempts' = [attempts EXCEPT ![id] = NoAttempts]
      /\ pending_nodes' = [pending_nodes EXCEPT ![id] = 0]
      /\ contacts' = contacts \ InState(cand[id], "DOWN")
      /\ UNCHANGED <<find_id_counter, type, target, requests_total, sent, calls, outcome, aborted>>
  BY DEF FinishSearch
<1>2. id \in find_requests
  BY <1>1 DEF IInv, TypeOK, NoCall, FindId
<1>3. TypeOK'
  <2>1. cached' \in [FindId -> SUBSET Id]
    <3>1. PICK closest \in Nearest(IF type[id] = "FIND_VALUE" /\ outcome[id].code = "SUCCEED"
                                     THEN InState(cand[id], "UP") \ outcome[id].nodes ELSE {},
                                   target[id], 1) :
                 cached' = [cached EXCEPT ![id] = closest]
      BY DEF FinishSearch
    <3>2. closest \in SUBSET Id
      BY DEF Nearest, InState
    <3> QED
      BY <3>1, <3>2 DEF IInv, TypeOK
  <2>2. downlists' \in [FindId -> Downlist]
    <3>1. [down |-> InState(cand[id], "DOWN"), to |-> InState(cand[id], "UP")] \in Downlist
      BY StatesAreFinite DEF Downlist
    <3> QED
      BY <3>1 DEF FinishSearch, IInv, TypeOK
  <2>3. NoCandidates \in [Id -> CandidateType] /\ NoAttempts \in [Id -> Nat]
    BY DEF NoCandidates, NoAttempts, CandidateType
  <2>4. /\ cand' \in [FindId -> [Id -> CandidateType]]
        /\ attempts' \in [FindId -> [Id -> Nat]]
        /\ pending_nodes' \in [FindId -> Int]
        /\ jobs' \in SUBSET (FindId \X Id)
        /\ contacts' \in SUBSET (Id \ {Self})
        /\ find_requests' \in SUBSET FindId
    BY <1>1, <2>3 DEF IInv, TypeOK
  <2> QED
    BY <1>1, <2>1, <2>2, <2>4 DEF IInv, TypeOK
<1>4. JobsArePending'
  <2>1. ASSUME NEW j \in FindId \X Id
        PROVE  j \in jobs' <=> j[1] \in find_requests' /\ cand'[j[1]][j[2]] = "PENDING"
    <3>1. j \in jobs <=> j[1] \in find_requests /\ cand[j[1]][j[2]] = "PENDING"
      BY DEF IInv, JobsArePending
    <3>2. j \in TimeoutsOf(id) <=> j[1] = id /\ cand[id][j[2]] = "PENDING"
      BY DEF TimeoutsOf, Owners, InState
    <3>3. j[1] # id => cand'[j[1]] = cand[j[1]]
      BY <1>1 DEF IInv, TypeOK
    <3> QED
      BY <1>1, <3>1, <3>2, <3>3
  <2> QED
    BY <1>3, <2>1 DEF JobsArePending, TypeOK
<1>5. PendingIsCounted'
  BY <1>1 DEF IInv, TypeOK, PendingIsCounted
<1>6. NeverStuck'
  BY <1>1 DEF IInv, TypeOK, NeverStuck
<1>7. CalledBackOnce'
  BY <1>1, <1>2 DEF IInv, TypeOK, CalledBackOnce, LiveAreStarted, NoCall, FindId
<1>8. LiveAreStarted'
  BY <1>1 DEF IInv, LiveAreStarted
<1> QED
  BY <1>3, <1>4, <1>5, <1>6, <1>7, <1>8 DEF IInv

\* What asking does to the searches is the same for both types.
LEMMA StartSearchIInv ==
  ASSUME IInv, NEW ty \in FindType, NEW t \in Target, StartSearch(ty, t)
  PROVE  IInv'
<1> DEFINE id == find_id_counter
<1>1. /\ id < MaxFinds
      /\ contacts # {}
      /\ find_id_counter' = id + 1
      /\ find_requests' = find_requests \cup {id}
      /\ type' = [type EXCEPT ![id] = ty]
      /\ target' = [target EXCEPT ![id] = t]
      /\ UNCHANGED <<contacts, attempts, calling, calls, outcome, cached, downlists, aborted>>
  BY DEF StartSearch, SomeoneIsKnown, reporting
<1>2. id \in FindId /\ id \notin find_requests /\ id # NoCall /\ id \in Nat
  BY <1>1 DEF IInv, TypeOK, LiveAreStarted, NoCall, FindId
<1>3. PICK closest \in Nearest(contacts, t, K) :
        \E ns \in Nearest(Eligible([n \in Id |-> IF n \in closest THEN "UNKNOWN" ELSE "NONE"], t), t, alpha) :
          Ask(id, [n \in Id |-> IF n \in closest THEN "UNKNOWN" ELSE "NONE"], ns, 0, jobs)
  BY DEF StartSearch
<1> DEFINE ct == [n \in Id |-> IF n \in closest THEN "UNKNOWN" ELSE "NONE"]
<1>4. PICK ns \in Nearest(Eligible(ct, t), t, alpha) : Ask(id, ct, ns, 0, jobs)
  BY <1>3
<1>5. ct \in [Id -> CandidateType]
  BY DEF CandidateType
<1>6. /\ closest \in SUBSET (Id \ {Self})
      /\ closest # {}
  <2>1. contacts \in SUBSET (Id \ {Self}) /\ IsFiniteSet(contacts)
    BY FS_Subset DEF IInv, TypeOK
  <2> QED
    BY <1>1, <2>1, NearestIsSubset
<1>7. Eligible(ct, t) # {}
  <2>1. PICK n \in closest : TRUE
    BY <1>6
  <2>2. InState(ct, "UP") = {}
    BY DEF InState
  <2>3. {m \in InState(ct, "UP") : Closer(t, m, n)} = {}
    BY <2>2
  <2>4. Cardinality({m \in InState(ct, "UP") : Closer(t, m, n)}) = 0
    BY <2>3, FS_EmptySet
  <2>5. n \in InState(ct, "UNKNOWN") \ {Self}
    BY <1>6 DEF InState
  <2>6. n \in Eligible(ct, t)
    <3> HIDE DEF ct
    <3> QED
      BY <2>4, <2>5 DEF Eligible
  <2> QED
    BY <2>6
<1>8. /\ ns \in SUBSET (Id \ {Self})
      /\ ns \subseteq InState(ct, "UNKNOWN")
      /\ Cardinality(ns) \in Nat /\ Cardinality(ns) <= alpha /\ Cardinality(ns) > 0
  <2>1. /\ ns \in SUBSET (Id \ {Self})
        /\ ns \subseteq InState(ct, "UNKNOWN")
        /\ Cardinality(ns) \in Nat /\ Cardinality(ns) <= alpha
        /\ Cardinality(ns) = 0 <=> ns = {}
        /\ ns # {}
    BY <1>4, <1>5, <1>7, EligibleFacts
  <2> QED
    BY <2>1
<1> DEFINE after == [n \in Id |-> IF n \in ns THEN "PENDING" ELSE ct[n]]
<1>9. /\ after \in [Id -> CandidateType]
      /\ InState(after, "PENDING") = ns
      /\ Cardinality(InState(after, "PENDING")) = Cardinality(ns)
  <2>1. after \in [Id -> CandidateType]
    BY <1>5 DEF CandidateType
  <2>2. \A n \in Id : after[n] = "PENDING" <=> n \in ns
    OBVIOUS
  <2>3. InState(after, "PENDING") = ns
    BY <1>8, <2>2 DEF InState
  <2> QED
    BY <2>1, <2>3
<1>10. /\ cand' = [cand EXCEPT ![id] = after]
       /\ pending_nodes' = [pending_nodes EXCEPT ![id] = 0 + Cardinality(ns)]
       /\ requests_total' = [requests_total EXCEPT ![id] = @ + Cardinality(ns)]
       /\ jobs' = jobs \cup Owners(id, ns)
       /\ sent' = [sent EXCEPT ![id] = @ \cup ns]
  BY <1>4 DEF Ask
<1> HIDE DEF ct, after
<1>11. TypeOK'
  <2>1. /\ find_id_counter' \in 0 .. MaxFinds
        /\ find_requests' \in SUBSET FindId
        /\ type' \in [FindId -> FindType]
        /\ target' \in [FindId -> Id]
        /\ calling' \in find_requests' \cup {NoCall}
    BY <1>1, <1>2 DEF IInv, TypeOK
  <2>2. /\ cand' \in [FindId -> [Id -> CandidateType]]
        /\ pending_nodes' \in [FindId -> Int]
        /\ requests_total' \in [FindId -> Nat]
        /\ sent' \in [FindId -> SUBSET (Id \ {Self})]
    BY <1>2, <1>8, <1>9, <1>10 DEF IInv, TypeOK
  <2>3. jobs' \in SUBSET (FindId \X Id)
    BY <1>2, <1>8, <1>10 DEF IInv, TypeOK, Owners
  <2> QED
    BY <1>1, <2>1, <2>2, <2>3 DEF IInv, TypeOK
<1>12. JobsArePending'
  <2>1. ASSUME NEW j \in FindId \X Id
        PROVE  j \in jobs' <=> j[1] \in find_requests' /\ cand'[j[1]][j[2]] = "PENDING"
    <3>1. j \in jobs <=> j[1] \in find_requests /\ cand[j[1]][j[2]] = "PENDING"
      BY DEF IInv, JobsArePending
    <3>2. j \in Owners(id, ns) <=> j[1] = id /\ j[2] \in ns
      BY DEF Owners
    <3>3. CASE j[1] = id
      <4>1. cand'[j[1]] = after
        BY <1>2, <1>10, <3>3 DEF IInv, TypeOK
      <4>2. after[j[2]] = "PENDING" <=> j[2] \in ns
        BY <1>9 DEF InState
      <4> QED
        BY <1>1, <1>2, <1>10, <3>1, <3>2, <3>3, <4>1, <4>2
    <3>4. CASE j[1] # id
      <4>1. cand'[j[1]] = cand[j[1]]
        BY <1>10, <3>4 DEF IInv, TypeOK
      <4> QED
        BY <1>1, <1>10, <3>1, <3>2, <3>4, <4>1
    <3> QED
      BY <3>3, <3>4
  <2> QED
    BY <1>11, <2>1 DEF JobsArePending, TypeOK
<1>13. PendingIsCounted'
  BY <1>1, <1>2, <1>8, <1>9, <1>10 DEF IInv, TypeOK, PendingIsCounted
<1>14. NeverStuck'
  BY <1>1, <1>2, <1>8, <1>10 DEF IInv, TypeOK, NeverStuck
<1>15. CalledBackOnce'
  <2> SUFFICES ASSUME NEW i \in FindId
               PROVE  calls[i] = IF i < id + 1 /\ (i \notin find_requests \cup {id} \/ i = calling)
                                   THEN 1 ELSE 0
    BY <1>1 DEF CalledBackOnce
  <2>1. calls[i] = IF i < id /\ (i \notin find_requests \/ i = calling) THEN 1 ELSE 0
    BY DEF IInv, CalledBackOnce
  <2>2. id # calling
    BY <1>2 DEF IInv, TypeOK
  <2>3. i < id + 1 <=> i < id \/ i = id
    BY <1>2 DEF FindId
  <2> QED
    BY <1>2, <2>1, <2>2, <2>3
<1>16. LiveAreStarted'
  BY <1>1, <1>2 DEF IInv, TypeOK, LiveAreStarted, FindId
<1> QED
  BY <1>11, <1>12, <1>13, <1>14, <1>15, <1>16 DEF IInv

LEMMA FindValueInStoreIInv ==
  ASSUME IInv, NEW t \in Target, FindValueInStore(t)
  PROVE  IInv'
<1> DEFINE id == find_id_counter
<1>1. /\ id < MaxFinds
      /\ find_id_counter' = id + 1
      /\ type' = [type EXCEPT ![id] = "FIND_VALUE"]
      /\ target' = [target EXCEPT ![id] = t]
      /\ calls' = [calls EXCEPT ![id] = @ + 1]
      /\ outcome' = [outcome EXCEPT ![id] = [code |-> "SUCCEED", nodes |-> {}]]
      /\ UNCHANGED <<contacts, find_requests, cand, attempts, pending_nodes, requests_total,
                     jobs, sent, calling, cached, downlists, aborted>>
  BY DEF FindValueInStore, asking
<1>2. id \in FindId /\ id \notin find_requests /\ id # NoCall
  BY <1>1 DEF IInv, TypeOK, LiveAreStarted, NoCall, FindId
<1>3. TypeOK'
  <2>1. [code |-> "SUCCEED", nodes |-> {}] \in Outcome /\ "FIND_VALUE" \in FindType
    BY DEF Outcome, FindType
  <2>2. /\ find_id_counter' \in 0 .. MaxFinds
        /\ type' \in [FindId -> FindType]
        /\ target' \in [FindId -> Id]
        /\ calls' \in [FindId -> Nat]
        /\ outcome' \in [FindId -> Outcome]
    BY <1>1, <1>2, <2>1 DEF IInv, TypeOK
  <2> QED
    BY <1>1, <2>2 DEF IInv, TypeOK
<1>4. JobsArePending' /\ PendingIsCounted' /\ NeverStuck'
  BY <1>1 DEF IInv, JobsArePending, PendingIsCounted, NeverStuck
<1>5. CalledBackOnce'
  <2> SUFFICES ASSUME NEW i \in FindId
               PROVE  calls'[i] = IF i < id + 1 /\ (i \notin find_requests \/ i = calling)
                                    THEN 1 ELSE 0
    BY <1>1 DEF CalledBackOnce
  <2>1. calls[i] = IF i < id /\ (i \notin find_requests \/ i = calling) THEN 1 ELSE 0
    BY DEF IInv, CalledBackOnce
  <2>2. i < id + 1 <=> i < id \/ i = id
    BY <1>2 DEF FindId
  <2>3. CASE i = id
    BY <1>1, <1>2, <2>1, <2>2, <2>3 DEF IInv, TypeOK, FindId
  <2>4. CASE i # id
    BY <1>1, <2>1, <2>2, <2>4 DEF IInv, TypeOK
  <2> QED
    BY <2>3, <2>4
<1>6. LiveAreStarted'
  BY <1>1, <1>2 DEF IInv, TypeOK, LiveAreStarted, FindId
<1> QED
  BY <1>3, <1>4, <1>5, <1>6 DEF IInv

\* An action that leaves the searches alone.
LEMMA ContactsIInv ==
  ASSUME IInv, contacts' \in SUBSET (Id \ {Self}), aborted' \in BOOLEAN,
         UNCHANGED <<find_id_counter, search>>
  PROVE  IInv'
<1>1. TypeOK'
  BY DEF IInv, TypeOK, search, asking, reporting
<1>2. JobsArePending' /\ PendingIsCounted' /\ NeverStuck' /\ CalledBackOnce' /\ LiveAreStarted'
  BY DEF IInv, search, asking, reporting, JobsArePending, PendingIsCounted, NeverStuck,
         CalledBackOnce, LiveAreStarted
<1> QED
  BY <1>1, <1>2 DEF IInv

LEMMA StepIInv == IInv /\ [Next]_vars => IInv'
<1> SUFFICES ASSUME IInv, [Next]_vars PROVE IInv'
  OBVIOUS
<1> USE DEF Next
<1>1. ASSUME NEW t \in Target, FindCloseNodes(t) PROVE IInv'
  BY <1>1, StartSearchIInv DEF FindCloseNodes, FindType
<1>2. ASSUME NEW t \in Target, FindValue(t) PROVE IInv'
  BY <1>2, StartSearchIInv DEF FindValue, FindType
<1>3. ASSUME NEW t \in Target, FindValueInStore(t) PROVE IInv'
  BY <1>3, FindValueInStoreIInv
<1>4. CASE AssertionFails
  BY <1>4, ContactsIInv DEF AssertionFails, IInv, TypeOK
<1>5. ASSUME NEW id \in FindId, FinishSearch(id) PROVE IInv'
  BY <1>5, FinishSearchIInv
<1>6. ASSUME NEW id \in FindId, NEW n \in Id, LateAnswer(id, n) PROVE IInv'
  <2>1. n \in Id \ {Self}
    BY <1>6 DEF LateAnswer, IInv, TypeOK
  <2>2. contacts' \in SUBSET (Id \ {Self})
    BY <1>6, <2>1, AddContactType DEF LateAnswer, IInv, TypeOK
  <2> QED
    BY <1>6, <2>2, ContactsIInv DEF LateAnswer, IInv, TypeOK
<1>7. ASSUME NEW id \in FindId, NEW n \in Id, NEW nodes \in Reply, Answer(id, n, nodes) PROVE IInv'
  BY <1>7, AnswerIInv
<1>8. ASSUME NEW id \in FindId, NEW n \in Id, AnswerWithValue(id, n) PROVE IInv'
  BY <1>8, AnswerWithValueIInv
<1>9. ASSUME NEW id \in FindId, NEW n \in Id, FindRequestTimeout(id, n) PROVE IInv'
  BY <1>9, FindRequestTimeoutIInv
<1>10. CASE OtherTraffic
  <2>1. PICK p \in Id \ {Self} :
          contacts' \in RT!AddContact(contacts, p) \cup {RT!RemoveContact(contacts, p)}
    BY <1>10 DEF OtherTraffic
  <2>2. contacts' \in SUBSET (Id \ {Self})
    BY <2>1, AddContactType DEF RT!RemoveContact, IInv, TypeOK
  <2> QED
    BY <1>10, <2>2, ContactsIInv DEF OtherTraffic, IInv, TypeOK
<1>11. CASE UNCHANGED vars
  BY <1>11, ContactsIInv DEF vars, IInv, TypeOK
<1> QED
  BY <1>1, <1>2, <1>3, <1>4, <1>5, <1>6, <1>7, <1>8, <1>9, <1>10, <1>11

LEMMA SpecIInv == Spec => []IInv
<1> QED
  BY InitIInv, StepIInv, PTL DEF Spec

-----------------------------------------------------------------------------
(* The result                                                              *)

\* When the walk over the candidates finds nobody to ask and nobody is pending, the
\* K closest that are UP are what ResultIsClosest says: a candidate still UNKNOWN
\* has K that are UP before it.
LEMMA WalkIsComplete ==
  ASSUME NEW ct \in [Id -> CandidateType], NEW t \in Id,
         Eligible(ct, t) = {}, InState(ct, "PENDING") = {},
         NEW found \in Nearest(Reportable(ct), t, K),
         NEW n \in {m \in Id : ct[m] # "NONE"} \ (found \cup {Self})
  PROVE  \/ ct[n] = "DOWN"
         \/ Cardinality(found) = K /\ \A m \in found : Closer(t, m, n)
<1> DEFINE up == InState(ct, "UP")
<1>1. up \in SUBSET Id /\ IsFiniteSet(up) /\ found \in Nearest(up, t, K)
  BY StatesAreFinite DEF Reportable
<1>2. ct[n] \in {"UNKNOWN", "DOWN", "UP"}
  BY DEF InState, CandidateType
<1>3. CASE ct[n] = "UP"
  <2>1. n \in up \ found
    BY <1>3 DEF InState
  <2> HIDE DEF up
  <2> QED
    BY <1>1, <2>1, NearestLeavesOut
<1>4. CASE ct[n] = "UNKNOWN"
  <2>1. n \in InState(ct, "UNKNOWN") \ {Self} /\ n \in Id \ up
    BY <1>4 DEF InState
  <2>2. ~(Cardinality({m \in up : Closer(t, m, n)}) < K)
    BY <2>1 DEF Eligible
  <2> HIDE DEF up
  <2> QED
    BY <1>1, <2>1, <2>2, BehindNearest
<1> QED
  BY <1>2, <1>3, <1>4

\* A report by the tail of an answer or a timeout is complete.
LEMMA AdvanceResult ==
  ASSUME IInv, calling = NoCall, NEW id \in find_requests,
         NEW ct \in [Id -> CandidateType], NEW p, NEW jb,
         p = Cardinality(InState(ct, "PENDING")), p <= alpha,
         Advance(id, ct, p, jb)
  PROVE  ResultIsClosest'
<1> id \in FindId /\ id # NoCall
  BY DEF IInv, TypeOK, NoCall, FindId
<1>1. PICK ns \in Nearest(Eligible(ct, target[id]), target[id], alpha - p) :
        /\ Ask(id, ct, ns, p, jb)
        /\ IF p + Cardinality(ns) = 0 THEN ReportEnd(id, ct) ELSE UNCHANGED reporting
  BY DEF Advance
<1>2. UNCHANGED <<find_requests, type, target>>
  BY DEF Advance
<1>3. /\ p \in Nat /\ alpha - p \in Nat
      /\ Cardinality(ns) \in Nat
      /\ Cardinality(ns) = 0 <=> ns = {}
      /\ alpha - p > 0 /\ Eligible(ct, target[id]) # {} => ns # {}
  BY StatesAreFinite, EligibleFacts
<1>4. SUFFICES ASSUME calling' = id, type[id] = "FIND_NODE",
                      NEW n \in {m \in Id : cand'[id][m] # "NONE"} \ (outcome'[id].nodes \cup {Self})
               PROVE  \/ cand'[id][n] = "DOWN"
                      \/ /\ Cardinality(outcome'[id].nodes) = K
                         /\ \A m \in outcome'[id].nodes : Closer(target[id], m, n)
  <2>1. calling' = calling \/ calling' = id
    BY <1>1 DEF ReportEnd, CallBack, reporting
  <2>2. \A i \in find_requests' : calling' = i => i = id
    BY <1>2, <2>1 DEF IInv, TypeOK, NoCall, FindId
  <2> QED
    BY <1>2, <1>4, <2>2 DEF ResultIsClosest
<1>5. p = 0 /\ ns = {} /\ ReportEnd(id, ct)
  BY <1>1, <1>3, <1>4 DEF reporting
<1>6. Eligible(ct, target[id]) = {} /\ InState(ct, "PENDING") = {}
  BY <1>3, <1>5, StatesAreFinite
<1>7. cand'[id] = ct
  BY <1>1, <1>5 DEF Ask, IInv, TypeOK
<1>8. PICK found \in Nearest(Reportable(ct), target[id], K) :
             CallBack(id, IF found = {} THEN "FAILED" ELSE "SUCCEED", found)
  BY <1>4, <1>5 DEF ReportEnd
<1>9. outcome'[id].nodes = found
  BY <1>8 DEF CallBack, IInv, TypeOK
<1>10. target[id] \in Id
  BY DEF IInv, TypeOK
<1> QED
  BY <1>4, <1>6, <1>7, <1>8, <1>9, <1>10, WalkIsComplete

\* A step that does not touch the search being reported.
LEMMA UntouchedResult ==
  ASSUME IInv, ResultIsClosest,
         calling' \in {calling, NoCall},
         \A id \in find_requests :
           id = calling' => /\ type'[id] = type[id]
                           /\ target'[id] = target[id]
                           /\ outcome'[id] = outcome[id]
                           /\ cand'[id] = cand[id],
         find_requests' \in SUBSET FindId,
         calling' \in find_requests \cup {NoCall}
  PROVE  ResultIsClosest'
<1> SUFFICES ASSUME NEW id \in find_requests', calling' = id
             PROVE  /\ id \in find_requests /\ calling = id
                    /\ type'[id] = type[id]
                    /\ target'[id] = target[id]
                    /\ outcome'[id] = outcome[id]
                    /\ cand'[id] = cand[id]
  BY DEF ResultIsClosest
<1>1. id # NoCall
  BY DEF NoCall, FindId
<1> QED
  BY <1>1

LEMMA StepResult == IInv /\ ResultIsClosest /\ [Next]_vars => ResultIsClosest'
<1> SUFFICES ASSUME IInv, ResultIsClosest, [Next]_vars PROVE ResultIsClosest'
  OBVIOUS
<1> USE DEF Next
<1>1. calling \in find_requests \cup {NoCall} /\ find_requests \in SUBSET FindId
  BY DEF IInv, TypeOK
<1>2. ASSUME NEW ty \in FindType, NEW t \in Target, StartSearch(ty, t) PROVE ResultIsClosest'
  <2>1. find_id_counter \in FindId /\ find_id_counter \notin find_requests
    BY <1>2 DEF StartSearch, IInv, TypeOK, LiveAreStarted, FindId
  <2>2. /\ calling' = calling
        /\ find_requests' = find_requests \cup {find_id_counter}
        /\ outcome' = outcome
        /\ type' = [type EXCEPT ![find_id_counter] = ty]
        /\ target' = [target EXCEPT ![find_id_counter] = t]
    BY <1>2 DEF StartSearch, reporting
  <2>3. \A id \in find_requests : cand'[id] = cand[id]
    BY <1>2, <2>1 DEF StartSearch, Ask, IInv, TypeOK
  <2>4. \A id \in find_requests : type'[id] = type[id] /\ target'[id] = target[id]
    BY <1>1, <2>1, <2>2 DEF IInv, TypeOK
  <2> QED
    BY <1>1, <2>1, <2>2, <2>3, <2>4, UntouchedResult
<1>3. ASSUME NEW t \in Target, FindCloseNodes(t) \/ FindValue(t) PROVE ResultIsClosest'
  BY <1>2, <1>3 DEF FindCloseNodes, FindValue, FindType
<1>4. ASSUME NEW t \in Target, FindValueInStore(t) PROVE ResultIsClosest'
  <2>1. find_id_counter \in FindId /\ find_id_counter \notin find_requests
    BY <1>4 DEF FindValueInStore, IInv, TypeOK, LiveAreStarted, FindId
  <2>2. /\ UNCHANGED <<calling, find_requests, cand>>
        /\ type' = [type EXCEPT ![find_id_counter] = "FIND_VALUE"]
        /\ target' = [target EXCEPT ![find_id_counter] = t]
        /\ outcome' = [outcome EXCEPT ![find_id_counter] = [code |-> "SUCCEED", nodes |-> {}]]
    BY <1>4 DEF FindValueInStore, asking
  <2>3. \A id \in find_requests :
          type'[id] = type[id] /\ target'[id] = target[id] /\ outcome'[id] = outcome[id]
    BY <1>1, <2>1, <2>2 DEF IInv, TypeOK
  <2> QED
    BY <1>1, <2>2, <2>3, UntouchedResult
<1>5. ASSUME NEW id \in FindId, FinishSearch(id) PROVE ResultIsClosest'
  BY <1>1, <1>5 DEF FinishSearch, ResultIsClosest, NoCall, FindId
<1>6. ASSUME NEW id \in FindId, NEW n \in Id, NEW nodes \in Reply, Answer(id, n, nodes)
      PROVE ResultIsClosest'
  <2> DEFINE ct == Update(Up(id, n), nodes)
             p == PendingAfterAnswer(id, n)
             jb == jobs \ {<<id, n>>}
  <2>1. calling = NoCall /\ id \in find_requests /\ Advance(id, ct, p, jb)
    BY <1>6 DEF Answer, Idle, IsKnown
  <2>2. ct \in [Id -> CandidateType] /\ InState(ct, "PENDING") = InState(Up(id, n), "PENDING")
    BY <2>1, UpFacts, UpdateFacts DEF CandidateType
  <2>3. p = Cardinality(InState(ct, "PENDING")) /\ p <= alpha
    BY <2>1, <2>2, UpFacts
  <2> HIDE DEF ct, p, jb
  <2> QED
    BY <2>1, <2>2, <2>3, AdvanceResult
<1>7. ASSUME NEW id \in FindId, NEW n \in Id, AnswerWithValue(id, n) PROVE ResultIsClosest'
  BY <1>7 DEF AnswerWithValue, CallBack, ResultIsClosest
<1>8. ASSUME NEW id \in FindId, NEW n \in Id, FindRequestTimeout(id, n) PROVE ResultIsClosest'
  <2>1. calling = NoCall /\ Advance(id, AfterTimeout(id, n), pending_nodes[id] - 1, jobs \ {<<id, n>>})
    BY <1>8 DEF FindRequestTimeout, Idle
  <2>2. id \in find_requests
    BY <1>8 DEF FindRequestTimeout, IInv, JobsArePending
  <2>3. /\ AfterTimeout(id, n) \in [Id -> CandidateType]
        /\ pending_nodes[id] - 1 = Cardinality(InState(AfterTimeout(id, n), "PENDING"))
        /\ pending_nodes[id] - 1 <= alpha
    BY <1>8, TimeoutFacts DEF FindRequestTimeout
  <2> QED
    BY <2>1, <2>2, <2>3, AdvanceResult
<1>9. CASE UNCHANGED search
  BY <1>9 DEF search, asking, reporting, ResultIsClosest
<1>10. ASSUME NEW id \in FindId, NEW n \in Id, LateAnswer(id, n) PROVE UNCHANGED search
  BY <1>10 DEF LateAnswer
<1>11. AssertionFails \/ OtherTraffic \/ UNCHANGED vars => UNCHANGED search
  BY DEF AssertionFails, OtherTraffic, vars
<1> QED
  BY <1>3, <1>4, <1>5, <1>6, <1>7, <1>8, <1>9, <1>10, <1>11

-----------------------------------------------------------------------------
(* How many requests a search sends                                        *)

\* The repetitions a candidate has been asked: requests 0 .. attempts while it is
\* PENDING, all that it may be asked when it is UP.
Asks(ct, at, n) ==
  CASE ct[n] = "NONE" -> 0
    [] ct[n] = "PENDING" -> at[n] + 1
    [] ct[n] = "UP" -> attempts_number + 1
    [] OTHER -> at[n]

\* One element for each request that may have been sent, named by its candidate and
\* its repetition.
Asked(ct, at) == {q \in (Id \ {Self}) \X (0 .. attempts_number) : q[2] < Asks(ct, at, q[1])}

MayBeAsked(ct, at) ==
  \A n \in Id : ct[n] \in {"NONE", "UNKNOWN", "PENDING"} => at[n] <= attempts_number

RequestsAreAsked ==
  \A id \in find_requests : requests_total[id] <= Cardinality(Asked(cand[id], attempts[id]))

RepeatsAreLeft == \A id \in FindId : MayBeAsked(cand[id], attempts[id])

OverAreForgotten ==
  \A id \in FindId \ find_requests : cand[id] = NoCandidates /\ attempts[id] = NoAttempts

UnusedAreSilent == \A id \in FindId : id >= find_id_counter => requests_total[id] = 0

\* What bounds the requests of a search, next to IInv.
AskInv == RequestsAreAsked /\ RepeatsAreLeft /\ OverAreForgotten /\ UnusedAreSilent

LEMMA AskedIsFinite ==
  ASSUME NEW ct, NEW at
  PROVE  IsFiniteSet(Asked(ct, at)) /\ Cardinality(Asked(ct, at)) \in Nat
<1>1. IsFiniteSet((Id \ {Self}) \X (0 .. attempts_number))
  <2>1. IsFiniteSet(Id \ {Self}) /\ IsFiniteSet(0 .. attempts_number)
    BY FS_Interval, FS_Subset
  <2> QED
    BY <2>1, FS_Product
<1>2. Asked(ct, at) \subseteq (Id \ {Self}) \X (0 .. attempts_number)
  BY DEF Asked
<1> QED
  BY <1>1, <1>2, FS_Subset, FS_CardinalityType

\* Whatever is asked is asked of the candidates, attempts_number + 1 times at most.
LEMMA AskedIsBounded ==
  ASSUME NEW ct \in [Id -> CandidateType], NEW at
  PROVE  Cardinality(Asked(ct, at)) <= (attempts_number + 1) * Cardinality({n \in Id : ct[n] # "NONE"} \ {Self})
<1> DEFINE C == {n \in Id : ct[n] # "NONE"} \ {Self}
<1>1. IsFiniteSet(C) /\ Cardinality(C) \in Nat
  BY FS_Subset, FS_CardinalityType
<1>2. /\ IsFiniteSet(0 .. attempts_number)
      /\ Cardinality(0 .. attempts_number) = attempts_number + 1
  BY FS_Interval
<1>3. Asked(ct, at) \subseteq C \X (0 .. attempts_number)
  <2> SUFFICES ASSUME NEW q \in Asked(ct, at) PROVE q \in C \X (0 .. attempts_number)
    OBVIOUS
  <2>1. q \in (Id \ {Self}) \X (0 .. attempts_number) /\ q[2] < Asks(ct, at, q[1])
    BY DEF Asked
  <2>2. ct[q[1]] = "NONE" => Asks(ct, at, q[1]) = 0
    BY DEF Asks
  <2>3. ct[q[1]] # "NONE"
    BY <2>1, <2>2
  <2> QED
    BY <2>1, <2>3
<1> HIDE DEF C
<1>4. /\ IsFiniteSet(C \X (0 .. attempts_number))
      /\ Cardinality(C \X (0 .. attempts_number)) = Cardinality(C) * (attempts_number + 1)
  BY <1>1, <1>2, FS_Product
<1>5. Cardinality(Asked(ct, at)) <= Cardinality(C) * (attempts_number + 1)
  BY <1>3, <1>4, FS_Subset
<1>6. Cardinality(C) * (attempts_number + 1) = (attempts_number + 1) * Cardinality(C)
  BY <1>1
<1> QED
  BY <1>5, <1>6 DEF C

\* A change of candidates and attempts that forgets no question.
LEMMA AskedGrows ==
  ASSUME NEW ct, NEW at, NEW ct2, NEW at2,
         \A n \in Id : \A q \in 0 .. attempts_number : q < Asks(ct, at, n) => q < Asks(ct2, at2, n)
  PROVE  /\ Asked(ct, at) \subseteq Asked(ct2, at2)
         /\ Cardinality(Asked(ct, at)) <= Cardinality(Asked(ct2, at2))
<1>1. Asked(ct, at) \subseteq Asked(ct2, at2)
  BY DEF Asked
<1> QED
  BY <1>1, AskedIsFinite, FS_Subset

\* Asking ns adds one question to each: the next repetition, which was not sent yet.
LEMMA AskingCounts ==
  ASSUME NEW ct \in [Id -> CandidateType], NEW at \in [Id -> Nat],
         MayBeAsked(ct, at),
         NEW ns \in SUBSET (Id \ {Self}), ns \subseteq InState(ct, "UNKNOWN"),
         NEW after, after = [n \in Id |-> IF n \in ns THEN "PENDING" ELSE ct[n]]
  PROVE  /\ MayBeAsked(after, at)
         /\ Cardinality(Asked(ct, at)) + Cardinality(ns) <= Cardinality(Asked(after, at))
<1>1. MayBeAsked(after, at)
  BY DEF MayBeAsked, InState
<1> DEFINE N == {<<n, at[n]>> : n \in ns}
           f == [n \in ns |-> <<n, at[n]>>]
<1>2. IsFiniteSet(ns) /\ Cardinality(ns) \in Nat
  BY FS_Subset, FS_CardinalityType
<1>3. IsFiniteSet(N) /\ Cardinality(N) = Cardinality(ns)
  <2>1. f \in Bijection(ns, N)
    <3>1. f \in [ns -> N]
      OBVIOUS
    <3>2. \A a, b \in ns : f[a] = f[b] => a = b
      OBVIOUS
    <3>3. \A b \in N : \E a \in ns : f[a] = b
      OBVIOUS
    <3> QED
      BY <3>1, <3>2, <3>3, Zenon DEF Bijection, Injection, Surjection, IsInjective
  <2>2. ExistsBijection(ns, N)
    BY <2>1 DEF ExistsBijection
  <2> QED
    BY <1>2, <2>2, FS_Bijection
<1>4. N \subseteq Asked(after, at)
  <2> SUFFICES ASSUME NEW n \in ns PROVE <<n, at[n]>> \in Asked(after, at)
    OBVIOUS
  <2>1. ct[n] = "UNKNOWN" /\ at[n] <= attempts_number
    BY DEF InState, MayBeAsked
  <2>2. at[n] \in 0 .. attempts_number
    BY <2>1
  <2>3. Asks(after, at, n) = at[n] + 1
    BY DEF Asks
  <2> QED
    BY <2>2, <2>3 DEF Asked
<1>5. Asked(ct, at) \cap N = {}
  <2> SUFFICES ASSUME NEW n \in ns PROVE <<n, at[n]>> \notin Asked(ct, at)
    OBVIOUS
  <2>1. ct[n] = "UNKNOWN"
    BY DEF InState
  <2>2. Asks(ct, at, n) = at[n]
    BY <2>1 DEF Asks
  <2> QED
    BY <2>2 DEF Asked
<1>6. Asked(ct, at) \subseteq Asked(after, at)
  <2>1. ASSUME NEW n \in Id, NEW q \in 0 .. attempts_number, q < Asks(ct, at, n)
        PROVE  q < Asks(after, at, n)
    <3>1. CASE n \in ns
      <4>1. Asks(ct, at, n) = at[n] /\ Asks(after, at, n) = at[n] + 1
        BY <3>1 DEF Asks, InState
      <4> QED
        BY <2>1, <4>1
    <3>2. CASE n \notin ns
      <4>1. after[n] = ct[n]
        BY <3>2
      <4>2. Asks(after, at, n) = Asks(ct, at, n)
        BY <4>1 DEF Asks
      <4> QED
        BY <2>1, <4>2
    <3> QED
      BY <3>1, <3>2
  <2> QED
    BY <2>1, AskedGrows
<1> HIDE DEF N
<1>7. Cardinality(Asked(ct, at) \cup N) = Cardinality(Asked(ct, at)) + Cardinality(ns)
  <2>1. Cardinality(Asked(ct, at) \cup N) = Cardinality(Asked(ct, at)) + Cardinality(N) - 0
    BY <1>3, <1>5, AskedIsFinite, FS_Union, FS_EmptySet
  <2> QED
    BY <1>2, <1>3, <2>1, AskedIsFinite
<1>8. Cardinality(Asked(ct, at) \cup N) <= Cardinality(Asked(after, at))
  BY <1>4, <1>6, AskedIsFinite, FS_Subset
<1> QED
  BY <1>1, <1>7, <1>8

\* What Advance does to the search: it asks some of the UNKNOWN candidates, and
\* reports only if it asked none.
LEMMA AdvanceFacts ==
  ASSUME TypeOK, NEW id \in FindId, NEW ct \in [Id -> CandidateType],
         NEW p \in Nat, p <= alpha, NEW jb, Advance(id, ct, p, jb)
  PROVE  \E ns \in SUBSET (Id \ {Self}) :
           /\ ns \subseteq InState(ct, "UNKNOWN")
           /\ Cardinality(ns) \in Nat
           /\ cand' = [cand EXCEPT ![id] = [n \in Id |-> IF n \in ns THEN "PENDING" ELSE ct[n]]]
           /\ requests_total' = [requests_total EXCEPT ![id] = @ + Cardinality(ns)]
           /\ UNCHANGED <<find_id_counter, find_requests, type, target, cached, downlists, aborted>>
           /\ UNCHANGED reporting \/ ReportEnd(id, ct)
<1>1. PICK ns \in Nearest(Eligible(ct, target[id]), target[id], alpha - p) :
        /\ Ask(id, ct, ns, p, jb)
        /\ IF p + Cardinality(ns) = 0 THEN ReportEnd(id, ct) ELSE UNCHANGED reporting
  BY DEF Advance
<1>2. alpha - p \in Nat
  OBVIOUS
<1>3. /\ ns \in SUBSET (Id \ {Self})
      /\ ns \subseteq InState(ct, "UNKNOWN")
      /\ Cardinality(ns) \in Nat
  BY <1>2, EligibleFacts
<1>4. UNCHANGED <<find_id_counter, find_requests, type, target, cached, downlists, aborted>>
  BY DEF Advance
<1> QED
  BY <1>1, <1>3, <1>4 DEF Ask

LEMMA AdvanceAskInv ==
  ASSUME IInv, AskInv, NEW id \in find_requests, NEW ct \in [Id -> CandidateType],
         NEW p \in Nat, p <= alpha, NEW jb, Advance(id, ct, p, jb),
         NEW at \in [Id -> Nat], attempts' = [attempts EXCEPT ![id] = at],
         MayBeAsked(ct, at),
         \A n \in Id : \A q \in 0 .. attempts_number :
           q < Asks(cand[id], attempts[id], n) => q < Asks(ct, at, n)
  PROVE  AskInv'
<1>1. id \in FindId /\ TypeOK
  BY DEF IInv, TypeOK
<1>2. PICK ns \in SUBSET (Id \ {Self}) :
        /\ ns \subseteq InState(ct, "UNKNOWN")
        /\ Cardinality(ns) \in Nat
        /\ cand' = [cand EXCEPT ![id] = [n \in Id |-> IF n \in ns THEN "PENDING" ELSE ct[n]]]
        /\ requests_total' = [requests_total EXCEPT ![id] = @ + Cardinality(ns)]
        /\ UNCHANGED <<find_id_counter, find_requests>>
  BY <1>1, AdvanceFacts
<1> DEFINE after == [n \in Id |-> IF n \in ns THEN "PENDING" ELSE ct[n]]
<1>3. /\ cand'[id] = after
      /\ attempts'[id] = at
      /\ requests_total'[id] = requests_total[id] + Cardinality(ns)
      /\ requests_total[id] \in Nat
  BY <1>1, <1>2 DEF TypeOK
<1>4. ASSUME NEW i \in FindId, i # id
      PROVE  /\ cand'[i] = cand[i]
             /\ attempts'[i] = attempts[i]
             /\ requests_total'[i] = requests_total[i]
  BY <1>1, <1>2, <1>4 DEF TypeOK
<1>5. /\ MayBeAsked(after, at)
      /\ Cardinality(Asked(ct, at)) + Cardinality(ns) <= Cardinality(Asked(after, at))
  BY <1>2, AskingCounts
<1> HIDE DEF after
<1>6. RequestsAreAsked'
  <2> SUFFICES ASSUME NEW i \in find_requests
               PROVE  requests_total'[i] <= Cardinality(Asked(cand'[i], attempts'[i]))
    BY <1>2 DEF RequestsAreAsked
  <2>1. i \in FindId /\ requests_total[i] <= Cardinality(Asked(cand[i], attempts[i]))
    BY <1>1 DEF TypeOK, AskInv, RequestsAreAsked
  <2>2. CASE i = id
    <3>1. Cardinality(Asked(cand[id], attempts[id])) <= Cardinality(Asked(ct, at))
      BY AskedGrows
    <3> QED
      BY <1>2, <1>3, <1>5, <2>1, <2>2, <3>1, AskedIsFinite
  <2>3. CASE i # id
    BY <1>4, <2>1, <2>3
  <2> QED
    BY <2>2, <2>3
<1>7. RepeatsAreLeft'
  <2> SUFFICES ASSUME NEW i \in FindId PROVE MayBeAsked(cand'[i], attempts'[i])
    BY DEF RepeatsAreLeft, MayBeAsked
  <2> QED
    BY <1>3, <1>4, <1>5 DEF AskInv, RepeatsAreLeft
<1>8. OverAreForgotten'
  BY <1>2, <1>4 DEF AskInv, OverAreForgotten
<1>9. UnusedAreSilent'
  <2>1. id < find_id_counter /\ find_id_counter \in Int
    BY DEF IInv, LiveAreStarted, TypeOK
  <2> SUFFICES ASSUME NEW i \in FindId, i >= find_id_counter PROVE requests_total'[i] = 0
    BY <1>2 DEF UnusedAreSilent
  <2>2. i # id
    BY <2>1 DEF FindId
  <2> QED
    BY <1>4, <2>2 DEF AskInv, UnusedAreSilent
<1> QED
  BY <1>6, <1>7, <1>8, <1>9 DEF AskInv

\* An answer makes a candidate UP and adds others: it takes back no request.
LEMMA AnswerAskInv ==
  ASSUME IInv, AskInv, NEW id \in FindId, NEW n \in Id, NEW nodes, Answer(id, n, nodes)
  PROVE  AskInv'
<1> DEFINE ct == Update(Up(id, n), nodes)
           p == PendingAfterAnswer(id, n)
           jb == jobs \ {<<id, n>>}
<1>1. id \in find_requests /\ UNCHANGED attempts /\ Advance(id, ct, p, jb)
  BY DEF Answer, IsKnown
<1>2. /\ Up(id, n) \in [Id -> CandidateType]
      /\ ct \in [Id -> CandidateType]
      /\ cand[id] \in [Id -> CandidateType]
      /\ attempts[id] \in [Id -> Nat]
  BY <1>1, UpFacts, UpdateFacts DEF IInv, TypeOK
<1>3. p \in Nat /\ p <= alpha
  BY <1>1, UpFacts, StatesAreFinite
<1>4. attempts' = [attempts EXCEPT ![id] = attempts[id]]
  BY <1>1 DEF IInv, TypeOK
<1>5. \A m \in Id : \/ ct[m] = cand[id][m]
                    \/ ct[m] = "UP"
                    \/ cand[id][m] = "NONE" /\ ct[m] = "UNKNOWN"
  BY <1>2 DEF Update, Up
<1> HIDE DEF ct, p, jb
<1>6. MayBeAsked(ct, attempts[id])
  BY <1>2, <1>5 DEF MayBeAsked, AskInv, RepeatsAreLeft
<1>7. ASSUME NEW m \in Id, NEW q \in 0 .. attempts_number, q < Asks(cand[id], attempts[id], m)
      PROVE  q < Asks(ct, attempts[id], m)
  <2>1. CASE ct[m] = cand[id][m]
    BY <1>7, <2>1 DEF Asks
  <2>2. CASE ct[m] = "UP"
    BY <2>2 DEF Asks
  <2>3. CASE cand[id][m] = "NONE"
    BY <1>7, <2>3 DEF Asks
  <2> QED
    BY <1>5, <2>1, <2>2, <2>3
<1> QED
  BY <1>1, <1>2, <1>3, <1>4, <1>6, <1>7, AdvanceAskInv

\* A timeout uses up the repetition it ends.
LEMMA TimeoutAskInv ==
  ASSUME IInv, AskInv, NEW id \in FindId, NEW n \in Id, FindRequestTimeout(id, n)
  PROVE  AskInv'
<1> DEFINE ct == AfterTimeout(id, n)
           p == pending_nodes[id] - 1
           jb == jobs \ {<<id, n>>}
           at == [attempts[id] EXCEPT ![n] = @ + 1]
<1>1. /\ <<id, n>> \in jobs
      /\ attempts' = [attempts EXCEPT ![id][n] = @ + 1]
      /\ Advance(id, ct, p, jb)
  BY DEF FindRequestTimeout
<1>2. /\ id \in find_requests
      /\ cand[id][n] = "PENDING"
      /\ ct \in [Id -> CandidateType]
      /\ p \in Nat /\ p <= alpha
  BY <1>1, TimeoutFacts, StatesAreFinite DEF IInv, JobsArePending
<1>3. /\ cand[id] \in [Id -> CandidateType]
      /\ attempts[id] \in [Id -> Nat]
      /\ at \in [Id -> Nat]
      /\ at[n] = attempts[id][n] + 1
      /\ \A m \in Id \ {n} : at[m] = attempts[id][m]
      /\ attempts' = [attempts EXCEPT ![id] = at]
  BY <1>1 DEF IInv, TypeOK
<1>4. /\ \A m \in Id \ {n} : ct[m] = cand[id][m]
      /\ ct[n] = IF attempts[id][n] < attempts_number THEN "UNKNOWN" ELSE "DOWN"
  BY <1>3 DEF AfterTimeout
<1> HIDE DEF ct, p, jb, at
<1>5. MayBeAsked(ct, at)
  BY <1>3, <1>4 DEF MayBeAsked, AskInv, RepeatsAreLeft
<1>6. ASSUME NEW m \in Id, NEW q \in 0 .. attempts_number, q < Asks(cand[id], attempts[id], m)
      PROVE  q < Asks(ct, at, m)
  <2>1. CASE m = n
    <3>1. Asks(cand[id], attempts[id], n) = attempts[id][n] + 1
      BY <1>2 DEF Asks
    <3>2. Asks(ct, at, n) = at[n]
      BY <1>4 DEF Asks
    <3> QED
      BY <1>3, <1>6, <2>1, <3>1, <3>2
  <2>2. CASE m # n
    BY <1>3, <1>4, <1>6, <2>2 DEF Asks
  <2> QED
    BY <2>1, <2>2
<1> QED
  BY <1>1, <1>2, <1>3, <1>5, <1>6, AdvanceAskInv

LEMMA AnswerWithValueAskInv ==
  ASSUME IInv, AskInv, NEW id \in FindId, NEW n \in Id, AnswerWithValue(id, n)
  PROVE  AskInv'
<1>1. /\ id \in find_requests
      /\ cand' = [cand EXCEPT ![id] = Up(id, n)]
      /\ UNCHANGED <<find_id_counter, find_requests, attempts, requests_total>>
  BY DEF AnswerWithValue, IsKnown
<1>2. /\ cand[id] \in [Id -> CandidateType] /\ attempts[id] \in [Id -> Nat]
      /\ cand'[id] = [cand[id] EXCEPT ![n] = "UP"]
      /\ \A i \in FindId \ {id} : cand'[i] = cand[i]
  BY <1>1 DEF IInv, TypeOK, Up
<1>3. ASSUME NEW m \in Id, NEW q \in 0 .. attempts_number, q < Asks(cand[id], attempts[id], m)
      PROVE  q < Asks(cand'[id], attempts[id], m)
  <2>1. CASE m = n
    BY <1>2, <2>1 DEF Asks
  <2>2. CASE m # n
    BY <1>2, <1>3, <2>2 DEF Asks
  <2> QED
    BY <2>1, <2>2
<1>4. Cardinality(Asked(cand[id], attempts[id])) <= Cardinality(Asked(cand'[id], attempts[id]))
  BY <1>3, AskedGrows
<1>5. RequestsAreAsked'
  <2> SUFFICES ASSUME NEW i \in find_requests
               PROVE  requests_total[i] <= Cardinality(Asked(cand'[i], attempts[i]))
    BY <1>1 DEF RequestsAreAsked
  <2>1. /\ i \in FindId /\ requests_total[i] \in Nat
        /\ requests_total[i] <= Cardinality(Asked(cand[i], attempts[i]))
    BY DEF IInv, TypeOK, AskInv, RequestsAreAsked
  <2>2. CASE i = id
    BY <1>4, <2>1, <2>2, AskedIsFinite
  <2>3. CASE i # id
    BY <1>2, <2>1, <2>3
  <2> QED
    BY <2>2, <2>3
<1>6. RepeatsAreLeft'
  <2> SUFFICES ASSUME NEW i \in FindId PROVE MayBeAsked(cand'[i], attempts[i])
    BY <1>1 DEF RepeatsAreLeft, MayBeAsked
  <2>1. MayBeAsked(cand[i], attempts[i])
    BY DEF AskInv, RepeatsAreLeft
  <2>2. CASE i = id
    BY <1>2, <2>1, <2>2 DEF MayBeAsked
  <2>3. CASE i # id
    BY <1>2, <2>1, <2>3
  <2> QED
    BY <2>2, <2>3
<1>7. OverAreForgotten' /\ UnusedAreSilent'
  BY <1>1, <1>2 DEF AskInv, OverAreForgotten, UnusedAreSilent
<1> QED
  BY <1>5, <1>6, <1>7 DEF AskInv

LEMMA FinishSearchAskInv ==
  ASSUME IInv, AskInv, NEW id \in FindId, FinishSearch(id)
  PROVE  AskInv'
<1>1. /\ find_requests' = find_requests \ {id}
      /\ cand' = [cand EXCEPT ![id] = NoCandidates]
      /\ attempts' = [attempts EXCEPT ![id] = NoAttempts]
      /\ UNCHANGED <<find_id_counter, requests_total>>
  BY DEF FinishSearch
<1>2. /\ cand'[id] = NoCandidates /\ attempts'[id] = NoAttempts
      /\ \A i \in FindId \ {id} : cand'[i] = cand[i] /\ attempts'[i] = attempts[i]
  BY <1>1 DEF IInv, TypeOK
<1>3. MayBeAsked(NoCandidates, NoAttempts)
  BY DEF MayBeAsked, NoCandidates, NoAttempts
<1>4. RequestsAreAsked'
  <2> SUFFICES ASSUME NEW i \in find_requests \ {id}
               PROVE  requests_total[i] <= Cardinality(Asked(cand'[i], attempts'[i]))
    BY <1>1 DEF RequestsAreAsked
  <2> QED
    BY <1>2 DEF IInv, TypeOK, AskInv, RequestsAreAsked
<1>5. RepeatsAreLeft'
  <2> SUFFICES ASSUME NEW i \in FindId PROVE MayBeAsked(cand'[i], attempts'[i])
    BY DEF RepeatsAreLeft, MayBeAsked
  <2> QED
    BY <1>2, <1>3 DEF AskInv, RepeatsAreLeft
<1>6. OverAreForgotten' /\ UnusedAreSilent'
  BY <1>1, <1>2 DEF AskInv, OverAreForgotten, UnusedAreSilent
<1> QED
  BY <1>4, <1>5, <1>6 DEF AskInv

\* A new search asks each of its first candidates once.
LEMMA StartSearchAskInv ==
  ASSUME IInv, AskInv, NEW ty, NEW t \in Target, StartSearch(ty, t)
  PROVE  AskInv'
<1> DEFINE id == find_id_counter
<1>1. /\ id < MaxFinds
      /\ find_id_counter' = id + 1
      /\ find_requests' = find_requests \cup {id}
      /\ UNCHANGED attempts
  BY DEF StartSearch
<1>2. id \in FindId /\ id \notin find_requests /\ id \in Nat
  BY <1>1 DEF IInv, TypeOK, LiveAreStarted, FindId
<1>3. PICK closest \in Nearest(contacts, t, K) :
        \E ns \in Nearest(Eligible([n \in Id |-> IF n \in closest THEN "UNKNOWN" ELSE "NONE"], t), t, alpha) :
          Ask(id, [n \in Id |-> IF n \in closest THEN "UNKNOWN" ELSE "NONE"], ns, 0, jobs)
  BY DEF StartSearch
<1> DEFINE ct == [n \in Id |-> IF n \in closest THEN "UNKNOWN" ELSE "NONE"]
<1>4. PICK ns \in Nearest(Eligible(ct, t), t, alpha) : Ask(id, ct, ns, 0, jobs)
  BY <1>3
<1>5. ct \in [Id -> CandidateType]
  BY DEF CandidateType
<1>6. /\ ns \in SUBSET (Id \ {Self})
      /\ ns \subseteq InState(ct, "UNKNOWN")
      /\ Cardinality(ns) \in Nat
  BY <1>4, <1>5, EligibleFacts
<1> DEFINE after == [n \in Id |-> IF n \in ns THEN "PENDING" ELSE ct[n]]
<1> HIDE DEF ct
<1>7. /\ cand' = [cand EXCEPT ![id] = after]
      /\ requests_total' = [requests_total EXCEPT ![id] = @ + Cardinality(ns)]
  BY <1>4 DEF Ask
<1>8. attempts[id] = NoAttempts /\ requests_total[id] = 0 /\ NoAttempts \in [Id -> Nat]
  BY <1>2 DEF AskInv, OverAreForgotten, UnusedAreSilent, NoAttempts
<1>9. MayBeAsked(ct, NoAttempts)
  BY DEF MayBeAsked, NoAttempts
<1>10. /\ MayBeAsked(after, NoAttempts)
       /\ Cardinality(Asked(ct, NoAttempts)) + Cardinality(ns) <= Cardinality(Asked(after, NoAttempts))
  BY <1>5, <1>6, <1>8, <1>9, AskingCounts
<1> HIDE DEF after
<1>11. /\ cand'[id] = after /\ requests_total'[id] = Cardinality(ns)
       /\ \A i \in FindId \ {id} : cand'[i] = cand[i] /\ requests_total'[i] = requests_total[i]
  BY <1>2, <1>6, <1>7, <1>8 DEF IInv, TypeOK
<1>12. RequestsAreAsked'
  <2> SUFFICES ASSUME NEW i \in find_requests \cup {id}
               PROVE  requests_total'[i] <= Cardinality(Asked(cand'[i], attempts[i]))
    BY <1>1 DEF RequestsAreAsked
  <2>1. CASE i = id
    BY <1>6, <1>8, <1>10, <1>11, <2>1, AskedIsFinite
  <2>2. CASE i # id
    BY <1>11, <2>2 DEF IInv, TypeOK, AskInv, RequestsAreAsked
  <2> QED
    BY <2>1, <2>2
<1>13. RepeatsAreLeft'
  <2> SUFFICES ASSUME NEW i \in FindId PROVE MayBeAsked(cand'[i], attempts[i])
    BY <1>1 DEF RepeatsAreLeft, MayBeAsked
  <2> QED
    BY <1>8, <1>10, <1>11 DEF AskInv, RepeatsAreLeft
<1>14. OverAreForgotten'
  BY <1>1, <1>2, <1>11 DEF AskInv, OverAreForgotten
<1>15. UnusedAreSilent'
  BY <1>1, <1>2, <1>11 DEF AskInv, UnusedAreSilent, FindId
<1> QED
  BY <1>12, <1>13, <1>14, <1>15 DEF AskInv

LEMMA StepAskInv == IInv /\ AskInv /\ [Next]_vars => AskInv'
<1> SUFFICES ASSUME IInv, AskInv, [Next]_vars PROVE AskInv'
  OBVIOUS
<1> USE DEF Next
<1>1. ASSUME NEW t \in Target, FindCloseNodes(t) \/ FindValue(t) PROVE AskInv'
  BY <1>1, StartSearchAskInv DEF FindCloseNodes, FindValue
<1>2. ASSUME NEW t \in Target, FindValueInStore(t) PROVE AskInv'
  <2>1. /\ find_id_counter' = find_id_counter + 1
        /\ UNCHANGED <<find_requests, cand, attempts, requests_total>>
    BY <1>2 DEF FindValueInStore, asking
  <2> QED
    BY <2>1 DEF AskInv, RequestsAreAsked, RepeatsAreLeft, MayBeAsked, OverAreForgotten,
                UnusedAreSilent, IInv, TypeOK, FindId
<1>3. ASSUME NEW id \in FindId, FinishSearch(id) PROVE AskInv'
  BY <1>3, FinishSearchAskInv
<1>4. ASSUME NEW id \in FindId, NEW n \in Id, NEW nodes \in Reply, Answer(id, n, nodes) PROVE AskInv'
  BY <1>4, AnswerAskInv
<1>5. ASSUME NEW id \in FindId, NEW n \in Id, AnswerWithValue(id, n) PROVE AskInv'
  BY <1>5, AnswerWithValueAskInv
<1>6. ASSUME NEW id \in FindId, NEW n \in Id, FindRequestTimeout(id, n) PROVE AskInv'
  BY <1>6, TimeoutAskInv
<1>7. CASE UNCHANGED <<find_id_counter, search>>
  BY <1>7 DEF search, asking, AskInv, RequestsAreAsked, RepeatsAreLeft, MayBeAsked,
              OverAreForgotten, UnusedAreSilent
<1>8. ASSUME NEW id \in FindId, NEW n \in Id, LateAnswer(id, n)
      PROVE  UNCHANGED <<find_id_counter, search>>
  BY <1>8 DEF LateAnswer
<1>9. AssertionFails \/ OtherTraffic \/ UNCHANGED vars => UNCHANGED <<find_id_counter, search>>
  BY DEF AssertionFails, OtherTraffic, vars
<1> QED
  BY <1>1, <1>2, <1>3, <1>4, <1>5, <1>6, <1>7, <1>8, <1>9

LEMMA SpecAskInv == Spec => [](IInv /\ AskInv)
<1>1. Init => AskInv
  BY DEF Init, AskInv, RequestsAreAsked, RepeatsAreLeft, MayBeAsked, OverAreForgotten,
         UnusedAreSilent, NoCandidates, NoAttempts
<1> QED
  BY <1>1, SpecIInv, StepAskInv, PTL DEF Spec

-----------------------------------------------------------------------------
(* Answers are kept                                                        *)

\* Only FinishSearch forgets a candidate that is UP: a timeout hits PENDING ones, and
\* asking takes UNKNOWN ones.
LEMMA StepStaysUp ==
  ASSUME IInv, [Next]_vars, NEW i \in find_requests, NEW m \in Id,
         cand[i][m] = "UP", i \in find_requests'
  PROVE  cand'[i][m] = "UP"
<1> USE DEF Next
<1>0. i \in FindId /\ cand \in [FindId -> [Id -> CandidateType]]
  BY DEF IInv, TypeOK
<1>1. ASSUME NEW ty, NEW t, StartSearch(ty, t) PROVE cand'[i] = cand[i]
  <2>1. i # find_id_counter
    BY DEF IInv, LiveAreStarted, TypeOK, FindId
  <2> QED
    BY <1>0, <1>1, <2>1 DEF StartSearch, Ask
<1>2. ASSUME NEW t \in Target, FindCloseNodes(t) \/ FindValue(t) PROVE cand'[i] = cand[i]
  BY <1>1, <1>2 DEF FindCloseNodes, FindValue
<1>3. ASSUME NEW id \in FindId, FinishSearch(id) PROVE cand'[i] = cand[i]
  BY <1>0, <1>3 DEF FinishSearch
<1>4. ASSUME NEW id \in FindId, NEW ct \in [Id -> CandidateType], NEW p \in Nat, p <= alpha, NEW jb,
             Advance(id, ct, p, jb), cand[id][m] = "UP" => ct[m] = "UP"
      PROVE  cand'[i][m] = "UP"
  <2>1. PICK ns \in SUBSET (Id \ {Self}) :
          /\ ns \subseteq InState(ct, "UNKNOWN")
          /\ cand' = [cand EXCEPT ![id] = [n \in Id |-> IF n \in ns THEN "PENDING" ELSE ct[n]]]
    <3>1. TypeOK /\ p <= alpha /\ Advance(id, ct, p, jb)
      BY <1>4 DEF IInv
    <3> QED
      BY <3>1, AdvanceFacts
  <2>2. ct[m] = "UP" => m \notin ns
    BY <2>1 DEF InState
  <2> QED
    BY <1>0, <1>4, <2>1, <2>2
<1>5. ASSUME NEW id \in FindId, NEW n \in Id, NEW nodes \in Reply, Answer(id, n, nodes)
      PROVE  cand'[i][m] = "UP"
  <2> DEFINE ct == Update(Up(id, n), nodes)
             p == PendingAfterAnswer(id, n)
             jb == jobs \ {<<id, n>>}
  <2>1. id \in find_requests /\ Advance(id, ct, p, jb)
    BY <1>5 DEF Answer, IsKnown
  <2>2. /\ Up(id, n) \in [Id -> CandidateType]
        /\ ct \in [Id -> CandidateType]
        /\ p \in Nat /\ p <= alpha
    BY <2>1, UpFacts, UpdateFacts, StatesAreFinite
  <2>3. cand[id][m] = "UP" => ct[m] = "UP"
    BY <1>0, <2>2 DEF Update, Up
  <2> HIDE DEF ct, p, jb
  <2> QED
    BY <1>4, <2>1, <2>2, <2>3
<1>6. ASSUME NEW id \in FindId, NEW n \in Id, AnswerWithValue(id, n) PROVE cand'[i][m] = "UP"
  BY <1>0, <1>6 DEF AnswerWithValue, Up
<1>7. ASSUME NEW id \in FindId, NEW n \in Id, FindRequestTimeout(id, n) PROVE cand'[i][m] = "UP"
  <2> DEFINE ct == AfterTimeout(id, n)
             p == pending_nodes[id] - 1
             jb == jobs \ {<<id, n>>}
  <2>1. <<id, n>> \in jobs /\ Advance(id, ct, p, jb)
    BY <1>7 DEF FindRequestTimeout
  <2>2. /\ cand[id][n] = "PENDING"
        /\ ct \in [Id -> CandidateType]
        /\ p \in Nat /\ p <= alpha
    BY <2>1, TimeoutFacts, StatesAreFinite DEF IInv, JobsArePending
  <2>3. cand[id][m] = "UP" => ct[m] = "UP"
    BY <1>0, <2>2 DEF AfterTimeout
  <2> HIDE DEF ct, p, jb
  <2> QED
    BY <1>4, <2>1, <2>2, <2>3
<1>8. ASSUME NEW t \in Target, FindValueInStore(t) PROVE cand' = cand
  BY <1>8 DEF FindValueInStore, asking
<1>9. ASSUME NEW id \in FindId, NEW n \in Id, LateAnswer(id, n) PROVE cand' = cand
  BY <1>9 DEF LateAnswer, search, asking
<1>10. AssertionFails \/ OtherTraffic \/ UNCHANGED vars => cand' = cand
  BY DEF AssertionFails, OtherTraffic, vars, search, asking
<1> QED
  BY <1>2, <1>3, <1>5, <1>6, <1>7, <1>8, <1>9, <1>10

-----------------------------------------------------------------------------
(* Lookup implements SearchService                                         *)

\* The variables of SearchService, as Lookup gives them.
Phases == [id \in FindId |-> Phase(id)]
Heard == [id \in FindId |-> InState(cand[id], "UP")]

LEMMA AbsNearest ==
  ASSUME NEW S, NEW t, NEW k
  PROVE  Abs!Nearest(S, t, k) = Nearest(S, t, k)
<1>1. Abs!Cardinality(S) = Cardinality(S)
  BY Zenon DEF Abs!Cardinality, Cardinality
<1>2. ASSUME NEW T \in SUBSET S PROVE Abs!Cardinality(T) = Cardinality(T)
  BY Zenon DEF Abs!Cardinality, Cardinality
<1> QED
  BY <1>1, <1>2 DEF Abs!Nearest, Nearest, Abs!Closer, Closer

\* Where each search is.
LEMMA PhaseFacts ==
  ASSUME IInv, NEW i \in FindId
  PROVE  /\ i >= find_id_counter => Phase(i) = "unused"
         /\ i \in find_requests /\ i # calling => Phase(i) = "running"
         /\ i \in find_requests /\ i = calling => Phase(i) = "reporting"
         /\ i < find_id_counter /\ i \notin find_requests => Phase(i) = "over"
<1>1. /\ find_id_counter \in Int /\ i \in Int /\ i # NoCall
      /\ calling \in find_requests \cup {NoCall}
      /\ i \in find_requests => i < find_id_counter
  BY DEF IInv, TypeOK, LiveAreStarted, NoCall, FindId
<1> QED
  BY <1>1 DEF Phase

\* A step that moves no other search changes no other phase.
LEMMA OtherPhases ==
  ASSUME IInv, IInv', NEW i \in FindId, 
         i \in find_requests' <=> i \in find_requests,
         i = calling' <=> i = calling,
         i < find_id_counter' <=> i < find_id_counter
  PROVE  Phase(i)' = Phase(i)
<1>1. /\ find_id_counter \in Int /\ find_id_counter' \in Int /\ i \in Int
      /\ i \in find_requests => i < find_id_counter
      /\ i \in find_requests' => i < find_id_counter'
  BY DEF IInv, TypeOK, LiveAreStarted, FindId
<1>2. i >= find_id_counter' <=> i >= find_id_counter
  BY <1>1
<1> QED
  BY <1>2 DEF Phase

\* The search to be started next.
LEMMA NextIsUnused ==
  ASSUME IInv, find_id_counter < MaxFinds
  PROVE  /\ find_id_counter \in FindId
         /\ find_id_counter \in Nat
         /\ find_id_counter \notin find_requests
         /\ find_id_counter # calling
<1>1. /\ find_id_counter \in 0 .. MaxFinds
      /\ find_requests \in SUBSET FindId
      /\ calling \in find_requests \cup {NoCall}
  BY DEF IInv, TypeOK
<1>2. find_id_counter \notin find_requests
  BY <1>1 DEF IInv, LiveAreStarted
<1> QED
  BY <1>1, <1>2 DEF FindId, NoCall

LEMMA InitRefines == Init => Abs!Init
<1> SUFFICES ASSUME Init PROVE Abs!Init
  OBVIOUS
<1>1. Phases = [i \in FindId |-> "unused"]
  BY DEF Init, Phases, Phase, FindId
<1>2. Heard = [i \in FindId |-> {}]
  BY DEF Init, Heard, InState, NoCandidates
<1>3. target \in [FindId -> Id]
  BY DEF Init
<1> QED
  BY <1>1, <1>2, <1>3 DEF Init, Abs!Init, Phases, Heard

LEMMA StartSearchRefines ==
  ASSUME IInv, IInv', AskInv, NEW ty \in FindType, NEW t \in Target, StartSearch(ty, t)
  PROVE  Abs!Begin(find_id_counter, ty, t)
<1>0. PICK id : id = find_id_counter
  OBVIOUS
<1>1. /\ find_id_counter' = id + 1
      /\ find_requests' = find_requests \cup {id}
      /\ type' = [type EXCEPT ![id] = ty]
      /\ target' = [target EXCEPT ![id] = t]
      /\ UNCHANGED <<calling, outcome, cached>>
  BY <1>0 DEF StartSearch, reporting
<1>2. id \in FindId /\ id \notin find_requests /\ id # calling /\ id \in Nat
  BY <1>0, NextIsUnused DEF StartSearch
<1>3. PICK closest \in Nearest(contacts, t, K) :
        \E ns : Ask(find_id_counter, [n \in Id |-> IF n \in closest THEN "UNKNOWN" ELSE "NONE"], ns, 0, jobs)
  BY DEF StartSearch
<1>4. PICK ns : cand' = [cand EXCEPT ![id] = [n \in Id |-> IF n \in ns THEN "PENDING" ELSE
                               [m \in Id |-> IF m \in closest THEN "UNKNOWN" ELSE "NONE"][n]]]
  BY <1>0, <1>3 DEF Ask
<1>5. Phases[id] = "unused"
  BY <1>0, <1>2, PhaseFacts DEF Phases
<1>6. Phases' = [Phases EXCEPT ![id] = "running"]
  <2>1. Phase(id)' = "running"
    <3>1. id \in find_requests' /\ id # calling' /\ id < find_id_counter'
      BY <1>1, <1>2
    <3> QED
      BY <1>1, <1>2, <3>1 DEF Phase
  <2>2. ASSUME NEW i \in FindId, i # id PROVE Phase(i)' = Phase(i)
    <3>1. i < id + 1 <=> i < id
      BY <1>2, <2>2 DEF FindId
    <3> QED
      BY <1>0, <1>1, <2>2, <3>1, OtherPhases
  <2> QED
    BY <2>1, <2>2 DEF Phases
<1>7. Heard' = Heard
  <2> SUFFICES ASSUME NEW i \in FindId PROVE InState(cand'[i], "UP") = InState(cand[i], "UP")
    BY DEF Heard, InState
  <2>1. CASE i = id
    <3>1. cand[id] = NoCandidates
      BY <1>2 DEF AskInv, OverAreForgotten
    <3>2. \A m \in Id : cand'[id][m] # "UP"
      BY <1>2, <1>4 DEF IInv, TypeOK
    <3> QED
      BY <2>1, <3>1, <3>2 DEF InState, NoCandidates
  <2>2. CASE i # id
    BY <1>4, <2>2 DEF IInv, TypeOK
  <2> QED
    BY <2>1, <2>2
<1> QED
  BY <1>0, <1>1, <1>5, <1>6, <1>7 DEF Abs!Begin, Abs!Start, Phases, Heard

LEMMA FindValueInStoreRefines ==
  ASSUME IInv, IInv', NEW t \in Target, FindValueInStore(t)
  PROVE  Abs!FoundAtOnce(find_id_counter, t)
<1>0. PICK id : id = find_id_counter
  OBVIOUS
<1>1. /\ find_id_counter' = id + 1
      /\ type' = [type EXCEPT ![id] = "FIND_VALUE"]
      /\ target' = [target EXCEPT ![id] = t]
      /\ outcome' = [outcome EXCEPT ![id] = [code |-> "SUCCEED", nodes |-> {}]]
      /\ UNCHANGED <<find_requests, cand, calling, cached>>
  BY <1>0 DEF FindValueInStore, asking
<1>2. id \in FindId /\ id \notin find_requests /\ id # calling /\ id \in Nat
  BY <1>0, NextIsUnused DEF FindValueInStore
<1>3. Phases[id] = "unused"
  BY <1>0, <1>2, PhaseFacts DEF Phases
<1>4. Phases' = [Phases EXCEPT ![id] = "over"]
  <2>1. Phase(id)' = "over"
    BY <1>1, <1>2 DEF Phase
  <2>2. ASSUME NEW i \in FindId, i # id PROVE Phase(i)' = Phase(i)
    <3>1. i < id + 1 <=> i < id
      BY <1>2, <2>2 DEF FindId
    <3> QED
      BY <1>0, <1>1, <2>2, <3>1, OtherPhases
  <2> QED
    BY <2>1, <2>2 DEF Phases
<1>5. Heard' = Heard
  BY <1>1 DEF Heard
<1> QED
  BY <1>0, <1>1, <1>3, <1>4, <1>5 DEF Abs!FoundAtOnce, Abs!Start, Phases, Heard

LEMMA FinishSearchRefines ==
  ASSUME IInv, IInv', NEW id \in FindId, FinishSearch(id)
  PROVE  Abs!Close(id)
<1>1. /\ calling = id
      /\ calling' = NoCall
      /\ find_requests' = find_requests \ {id}
      /\ cand' = [cand EXCEPT ![id] = NoCandidates]
      /\ UNCHANGED <<find_id_counter, type, target, outcome>>
  BY DEF FinishSearch
<1>2. id \in find_requests /\ id # NoCall /\ id < find_id_counter
  BY <1>1 DEF IInv, TypeOK, LiveAreStarted, NoCall, FindId
<1>3. Phases[id] = "reporting"
  BY <1>1, <1>2, PhaseFacts DEF Phases
<1>4. Phases' = [Phases EXCEPT ![id] = "over"]
  <2>1. Phase(id)' = "over"
    BY <1>1, <1>2 DEF Phase, IInv, TypeOK, FindId
  <2>2. ASSUME NEW i \in FindId, i # id PROVE Phase(i)' = Phase(i)
    <3>1. i # NoCall
      BY DEF FindId, NoCall
    <3> QED
      BY <1>1, <2>2, <3>1, OtherPhases
  <2> QED
    BY <2>1, <2>2 DEF Phases
<1>5. Heard' = [Heard EXCEPT ![id] = {}]
  <2>1. InState(cand'[id], "UP") = {}
    BY <1>1 DEF IInv, TypeOK, InState, NoCandidates
  <2>2. \A i \in FindId \ {id} : cand'[i] = cand[i]
    BY <1>1 DEF IInv, TypeOK
  <2> QED
    BY <2>1, <2>2 DEF Heard
<1> DEFINE found == type[id] = "FIND_VALUE" /\ outcome[id].code = "SUCCEED"
           others == InState(cand[id], "UP") \ outcome[id].nodes
<1>6. PICK closest \in Nearest(IF found THEN others ELSE {}, target[id], 1) :
             cached' = [cached EXCEPT ![id] = closest]
  BY DEF FinishSearch
<1>7. closest \in Abs!Caches(id)
  <2>0. Heard[id] = InState(cand[id], "UP")
    BY DEF Heard
  <2>1. CASE found
    <3>1. Abs!Caches(id) = Abs!Nearest(others, target[id], 1)
      BY <2>0, <2>1 DEF Abs!Caches, Heard
    <3>2. closest \in Nearest(others, target[id], 1)
      BY <1>6, <2>1
    <3> HIDE DEF others
    <3> QED
      BY <3>1, <3>2, AbsNearest
  <2>2. CASE ~found
    <3>1. Abs!Caches(id) = {{}}
      BY <2>2 DEF Abs!Caches
    <3>2. closest = {}
      BY <1>6, <2>2 DEF Nearest
    <3> QED
      BY <3>1, <3>2
  <2> QED
    BY <2>1, <2>2
<1> QED
  BY <1>1, <1>3, <1>4, <1>5, <1>6, <1>7 DEF Abs!Close, Phases, Heard

\* A search that reports what it has heard, from n too.
LEMMA ReportRefines ==
  ASSUME IInv, IInv', calling = NoCall, NEW id \in find_requests, NEW h,
         h = Heard[id] \/ \E n \in Id : h = Heard[id] \cup {n},
         Heard' = [Heard EXCEPT ![id] = h],
         calling' = id,
         NEW r \in Abs!Results(id, h), outcome' = [outcome EXCEPT ![id] = r],
         UNCHANGED <<find_id_counter, find_requests, type, target, cached>>
  PROVE  Abs!Report(id)
<1>1. id \in FindId /\ id # NoCall
  BY DEF IInv, TypeOK, FindId, NoCall
<1>2. Phases[id] = "running"
  BY <1>1, PhaseFacts DEF Phases
<1>3. Phases' = [Phases EXCEPT ![id] = "reporting"]
  <2>1. Phase(id)' = "reporting"
    BY <1>1 DEF Phase, IInv, TypeOK, LiveAreStarted, FindId
  <2>2. ASSUME NEW i \in FindId, i # id PROVE Phase(i)' = Phase(i)
    <3>1. i # NoCall
      BY DEF FindId, NoCall
    <3> QED
      BY <2>2, <3>1, OtherPhases
  <2> QED
    BY <1>1, <2>1, <2>2 DEF Phases
<1>4. h \in {Heard[id]} \cup {Heard[id] \cup {n} : n \in Id}
  OBVIOUS
<1> QED
  BY <1>2, <1>3, <1>4 DEF Abs!Report, Phases, Heard

\* The tail of an answer or a timeout: the search has heard h and goes on, or reports.
LEMMA AdvanceRefines ==
  ASSUME IInv, IInv', calling = NoCall, NEW id \in find_requests,
         NEW ct \in [Id -> CandidateType], NEW p \in Nat, p <= alpha, NEW jb,
         Advance(id, ct, p, jb),
         NEW h, InState(ct, "UP") = h,
         h = Heard[id] \/ \E n \in Id : h = Heard[id] \cup {n}
  PROVE  \/ Abs!Report(id)
         \/ /\ Heard' = [Heard EXCEPT ![id] = h]
            /\ Phases' = Phases
            /\ UNCHANGED <<type, target, outcome, cached>>
<1>1. id \in FindId /\ TypeOK
  BY DEF IInv, TypeOK
<1>2. PICK ns \in SUBSET (Id \ {Self}) :
        /\ ns \subseteq InState(ct, "UNKNOWN")
        /\ cand' = [cand EXCEPT ![id] = [n \in Id |-> IF n \in ns THEN "PENDING" ELSE ct[n]]]
        /\ UNCHANGED <<find_id_counter, find_requests, type, target, cached>>
        /\ UNCHANGED reporting \/ ReportEnd(id, ct)
  BY <1>1, AdvanceFacts
<1>3. Heard' = [Heard EXCEPT ![id] = h]
  <2>1. InState(cand'[id], "UP") = h
    <3>1. \A n \in Id : cand'[id][n] = "UP" <=> ct[n] = "UP"
      BY <1>1, <1>2 DEF TypeOK, InState
    <3> QED
      BY <3>1 DEF InState
  <2>2. \A i \in FindId \ {id} : cand'[i] = cand[i]
    BY <1>1, <1>2 DEF TypeOK
  <2> QED
    BY <1>1, <2>1, <2>2 DEF Heard
<1>4. CASE UNCHANGED reporting
  <2>1. UNCHANGED <<calling, outcome>>
    BY <1>4 DEF reporting
  <2>2. Phases' = Phases
    BY <1>2, <2>1 DEF Phases, Phase
  <2> QED
    BY <1>2, <1>3, <2>1, <2>2
<1>5. CASE ReportEnd(id, ct)
  <2>1. PICK r \in Abs!Results(id, h) : calling' = id /\ outcome' = [outcome EXCEPT ![id] = r]
    <3>1. CASE type[id] = "FIND_NODE"
      <4>1. PICK nodes \in Nearest(h, target[id], K) :
                   CallBack(id, IF nodes = {} THEN "FAILED" ELSE "SUCCEED", nodes)
        BY <1>5, <3>1 DEF ReportEnd, Reportable
      <4>2. nodes \in Abs!Nearest(h, target[id], K)
        BY <4>1, AbsNearest
      <4> DEFINE r == [code |-> IF nodes = {} THEN "FAILED" ELSE "SUCCEED", nodes |-> nodes]
      <4>3. r \in Abs!Results(id, h)
        BY <3>1, <4>2 DEF Abs!Results
      <4>4. calling' = id /\ outcome' = [outcome EXCEPT ![id] = r]
        BY <4>1 DEF CallBack
      <4> QED
        BY <4>3, <4>4
    <3>2. CASE type[id] # "FIND_NODE"
      <4> DEFINE r == [code |-> "FAILED", nodes |-> {}]
      <4>1. r \in Abs!Results(id, h)
        BY <3>2 DEF Abs!Results
      <4>2. calling' = id /\ outcome' = [outcome EXCEPT ![id] = r]
        BY <1>5, <3>2 DEF ReportEnd, CallBack
      <4> QED
        BY <4>1, <4>2
    <3> QED
      BY <3>1, <3>2
  <2> QED
    BY <1>2, <1>3, <2>1, ReportRefines
<1> QED
  BY <1>2, <1>4, <1>5

LEMMA AnswerRefines ==
  ASSUME IInv, IInv', NEW id \in FindId, NEW n \in Id, NEW nodes, Answer(id, n, nodes)
  PROVE  Abs!Hear(id, n) \/ Abs!Report(id)
<1> DEFINE ct == Update(Up(id, n), nodes)
           p == PendingAfterAnswer(id, n)
           jb == jobs \ {<<id, n>>}
           h == Heard[id] \cup {n}
<1>1. id \in find_requests /\ calling = NoCall /\ Advance(id, ct, p, jb)
  BY DEF Answer, IsKnown, Idle
<1>2. /\ Up(id, n) \in [Id -> CandidateType]
      /\ ct \in [Id -> CandidateType]
      /\ p \in Nat /\ p <= alpha
  BY <1>1, UpFacts, UpdateFacts, StatesAreFinite
<1>3. InState(ct, "UP") = h
  <2>1. InState(ct, "UP") = InState(Up(id, n), "UP")
    BY <1>2, UpdateFacts DEF CandidateType
  <2>2. cand[id] \in [Id -> CandidateType]
    BY DEF IInv, TypeOK
  <2>3. InState(Up(id, n), "UP") = InState(cand[id], "UP") \cup {n}
    BY <2>2 DEF Up, InState
  <2> QED
    BY <2>1, <2>3 DEF Heard
<1>4. Phases[id] = "running"
  BY <1>1, PhaseFacts DEF Phases, NoCall, FindId
<1>5. h = Heard[id] \/ \E m \in Id : h = Heard[id] \cup {m}
  OBVIOUS
<1> HIDE DEF ct, p, jb, h
<1>6. \/ Abs!Report(id)
      \/ /\ Heard' = [Heard EXCEPT ![id] = h]
         /\ Phases' = Phases
         /\ UNCHANGED <<type, target, outcome, cached>>
  BY <1>1, <1>2, <1>3, <1>5, AdvanceRefines
<1> QED
  BY <1>4, <1>6 DEF Abs!Hear, Phases, Heard, h

LEMMA TimeoutRefines ==
  ASSUME IInv, IInv', NEW id \in FindId, NEW n \in Id, FindRequestTimeout(id, n)
  PROVE  UNCHANGED Abs!vars \/ Abs!Report(id)
<1> DEFINE ct == AfterTimeout(id, n)
           p == pending_nodes[id] - 1
           jb == jobs \ {<<id, n>>}
           h == Heard[id]
<1>1. <<id, n>> \in jobs /\ calling = NoCall /\ Advance(id, ct, p, jb)
  BY DEF FindRequestTimeout, Idle
<1>2. /\ id \in find_requests
      /\ cand[id][n] = "PENDING"
      /\ cand[id] \in [Id -> CandidateType]
      /\ ct \in [Id -> CandidateType]
      /\ p \in Nat /\ p <= alpha
  BY <1>1, TimeoutFacts, StatesAreFinite DEF IInv, TypeOK, JobsArePending
<1>3. InState(ct, "UP") = h
  BY <1>2 DEF AfterTimeout, InState, Heard
<1>4. h = Heard[id] \/ \E m \in Id : h = Heard[id] \cup {m}
  OBVIOUS
<1>5. Heard = [Heard EXCEPT ![id] = h]
  BY DEF Heard
<1> HIDE DEF ct, p, jb, h
<1>6. \/ Abs!Report(id)
      \/ /\ Heard' = [Heard EXCEPT ![id] = h]
         /\ Phases' = Phases
         /\ UNCHANGED <<type, target, outcome, cached>>
  BY <1>1, <1>2, <1>3, <1>4, AdvanceRefines
<1> QED
  BY <1>5, <1>6 DEF Abs!vars, Phases, Heard

LEMMA AnswerWithValueRefines ==
  ASSUME IInv, IInv', NEW id \in FindId, NEW n \in Id, AnswerWithValue(id, n)
  PROVE  Abs!Report(id)
<1> DEFINE h == Heard[id] \cup {n}
           r == [code |-> "SUCCEED", nodes |-> {n}]
<1>1. /\ id \in find_requests /\ calling = NoCall
      /\ type[id] = "FIND_VALUE"
      /\ cand' = [cand EXCEPT ![id] = Up(id, n)]
      /\ calling' = id
      /\ outcome' = [outcome EXCEPT ![id] = r]
      /\ UNCHANGED <<find_id_counter, find_requests, type, target, cached>>
  BY DEF AnswerWithValue, CallBack, IsKnown, Idle
<1>2. Heard' = [Heard EXCEPT ![id] = h]
  <2>1. cand \in [FindId -> [Id -> CandidateType]]
    BY DEF IInv, TypeOK
  <2>2. InState(cand'[id], "UP") = InState(cand[id], "UP") \cup {n}
    BY <1>1, <2>1 DEF Up, InState
  <2>3. \A i \in FindId \ {id} : cand'[i] = cand[i]
    BY <1>1, <2>1
  <2> QED
    BY <2>2, <2>3 DEF Heard
<1>3. r \in Abs!Results(id, h)
  BY <1>1 DEF Abs!Results
<1> HIDE DEF r
<1> QED
  BY <1>1, <1>2, <1>3, ReportRefines

LEMMA StepRefines == IInv /\ IInv' /\ AskInv /\ [Next]_vars => [Abs!Next]_Abs!vars
<1> SUFFICES ASSUME IInv, IInv', AskInv, [Next]_vars PROVE [Abs!Next]_Abs!vars
  OBVIOUS
<1> USE DEF Next
<1>0. Target \subseteq Id /\ (find_id_counter < MaxFinds => find_id_counter \in FindId)
  BY NextIsUnused
<1>1. ASSUME NEW t \in Target, NEW ty \in FindType, StartSearch(ty, t) PROVE Abs!Next
  <2>1. Abs!Begin(find_id_counter, ty, t)
    BY <1>1, StartSearchRefines
  <2>2. find_id_counter \in FindId /\ t \in Id /\ ty \in {"FIND_NODE", "FIND_VALUE"}
    BY <1>0, <1>1 DEF StartSearch, FindType
  <2> QED
    BY <2>1, <2>2, Zenon DEF Abs!Next
<1>2. ASSUME NEW t \in Target, FindCloseNodes(t) \/ FindValue(t) PROVE Abs!Next
  BY <1>1, <1>2 DEF FindCloseNodes, FindValue, FindType
<1>3. ASSUME NEW t \in Target, FindValueInStore(t) PROVE Abs!Next
  <2>1. Abs!FoundAtOnce(find_id_counter, t)
    BY <1>3, FindValueInStoreRefines
  <2>2. find_id_counter \in FindId /\ t \in Id
    BY <1>0, <1>3 DEF FindValueInStore
  <2> QED
    BY <2>1, <2>2, Zenon DEF Abs!Next
<1>4. ASSUME NEW id \in FindId, FinishSearch(id) PROVE Abs!Next
  <2>1. Abs!Close(id)
    BY <1>4, FinishSearchRefines
  <2> QED
    BY <2>1, Zenon DEF Abs!Next
<1>5. ASSUME NEW id \in FindId, NEW n \in Id, NEW nodes \in Reply, Answer(id, n, nodes) PROVE Abs!Next
  <2>1. Abs!Hear(id, n) \/ Abs!Report(id)
    BY <1>5, AnswerRefines
  <2> QED
    BY <2>1, Zenon DEF Abs!Next
<1>6. ASSUME NEW id \in FindId, NEW n \in Id, AnswerWithValue(id, n) PROVE Abs!Next
  <2>1. Abs!Report(id)
    BY <1>6, AnswerWithValueRefines
  <2> QED
    BY <2>1, Zenon DEF Abs!Next
<1>7. ASSUME NEW id \in FindId, NEW n \in Id, FindRequestTimeout(id, n)
      PROVE  UNCHANGED Abs!vars \/ Abs!Next
  <2>1. UNCHANGED Abs!vars \/ Abs!Report(id)
    BY <1>7, TimeoutRefines
  <2> QED
    BY <2>1, Zenon DEF Abs!Next
<1>8. CASE UNCHANGED <<find_id_counter, search>>
  BY <1>8 DEF search, asking, reporting, Abs!vars, Phase
<1>9. ASSUME NEW id \in FindId, NEW n \in Id, LateAnswer(id, n)
      PROVE  UNCHANGED <<find_id_counter, search>>
  BY <1>9 DEF LateAnswer
<1>10. AssertionFails \/ OtherTraffic \/ UNCHANGED vars => UNCHANGED <<find_id_counter, search>>
  BY DEF AssertionFails, OtherTraffic, vars
<1> QED
  BY <1>2, <1>3, <1>4, <1>5, <1>6, <1>7, <1>8, <1>9, <1>10

-----------------------------------------------------------------------------
(* Theorems                                                                *)

\* Every variable keeps its type.
THEOREM TypeCorrect == Spec => []TypeOK
<1>1. IInv => TypeOK
  BY DEF IInv
<1> QED
  BY <1>1, SpecIInv, PTL

\* The timeouts scheduled, which hold raw pointers, are exactly those of the PENDING
\* candidates of the searches in progress, for any number of nodes and searches.
THEOREM TimeoutsNeverDangle == Spec => []JobsArePending
<1>1. IInv => JobsArePending
  BY DEF IInv
<1> QED
  BY <1>1, SpecIInv, PTL

\* pending_nodes counts the PENDING candidates and never exceeds alpha.
THEOREM PendingIsRight == Spec => []PendingIsCounted
<1>1. IInv => PendingIsCounted
  BY DEF IInv
<1> QED
  BY <1>1, SpecIInv, PTL

\* A search that is not being reported has a question outstanding, and so a timeout
\* that will resume it.
THEOREM SearchesGoOn == Spec => []NeverStuck
<1>1. IInv => NeverStuck
  BY DEF IInv
<1> QED
  BY <1>1, SpecIInv, PTL

\* The callback of a search is called once, when it is over.
THEOREM OneCallback == Spec => []CalledBackOnce
<1>1. IInv => CalledBackOnce
  BY DEF IInv
<1> QED
  BY <1>1, SpecIInv, PTL

\* Whatever the peers answer, and whichever of them answer late, twice or never: every
\* candidate that is not in the result of FindCloseNodes was given up or is farther
\* than all the K nodes of the result.
THEOREM ResultIsComplete == Spec => []ResultIsClosest
<1>1. Init => ResultIsClosest
  BY DEF Init, ResultIsClosest
<1> QED
  BY <1>1, SpecIInv, StepResult, PTL DEF Spec

\* However many answers come late or twice, a search never sends more requests than
\* attempts_number + 1 to each of the peers it has heard of.
THEOREM RequestsStayBounded == Spec => []RequestsAreBounded
<1>1. IInv /\ AskInv => RequestsAreBounded
  <2> SUFFICES ASSUME IInv, AskInv, NEW id \in find_requests
               PROVE  requests_total[id] <=
                 (attempts_number + 1) * Cardinality({n \in Id : cand[id][n] # "NONE"} \ {Self})
    BY DEF RequestsAreBounded
  <2> DEFINE C == {n \in Id : cand[id][n] # "NONE"} \ {Self}
  <2>1. cand[id] \in [Id -> CandidateType] /\ requests_total[id] \in Nat
    BY DEF IInv, TypeOK
  <2>2. requests_total[id] <= Cardinality(Asked(cand[id], attempts[id]))
    BY DEF AskInv, RequestsAreAsked
  <2>3. Cardinality(Asked(cand[id], attempts[id])) <= (attempts_number + 1) * Cardinality(C)
    BY <2>1, AskedIsBounded
  <2>4. Cardinality(C) \in Nat
    BY FS_Subset, FS_CardinalityType
  <2> HIDE DEF C
  <2>5. (attempts_number + 1) * Cardinality(C) \in Nat
    BY <2>4
  <2>6. requests_total[id] <= (attempts_number + 1) * Cardinality(C)
    BY <2>1, <2>2, <2>3, <2>5, AskedIsFinite
  <2> QED
    BY <2>6 DEF C
<1> QED
  BY <1>1, SpecAskInv, PTL

\* No timeout and no repeated answer takes back that a candidate has answered.
THEOREM AnswersAreKept == Spec => AnsweredStaysUp
<1>1. IInv /\ [Next]_vars =>
        [\A id \in find_requests, n \in Id :
           cand[id][n] = "UP" /\ id \in find_requests' => cand'[id][n] = "UP"]_vars
  BY StepStaysUp
<1> QED
  BY <1>1, SpecIInv, PTL DEF Spec, AnsweredStaysUp

\* Lookup implements SearchService: each search reports once, the closest of the nodes
\* that answered it, whatever candidates, repetitions and timeouts it took.
THEOREM Refinement == Spec => ImplementsService
<1> QED
  BY InitRefines, StepRefines, SpecAskInv, PTL DEF Spec, ImplementsService, Abs!Spec
=============================================================================
