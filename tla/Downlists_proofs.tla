-------------------------- MODULE Downlists_proofs --------------------------
(***************************************************************************)
(* The timeouts of downlist procedures never outlive what they point to,   *)
(* for any number of peers, repetitions and procedures, although a         *)
(* procedure may be erased for another one.                                *)
(*                                                                         *)
(* The invariant adds that only ids below the counter have been used, that *)
(* the procedures that can be found are allocated, and that a deleted node *)
(* has none of them left.                                                  *)
(***************************************************************************)
EXTENDS Downlists, TLAPS

\* No procedure has an id that was not given out.
NewIdsAreFree == \A id \in DownlistId : id >= downlist_id_counter => data[id] = NoData

FoundAreLive ==
  /\ \A id \in downlist_requests : data[id] # NoData
  /\ alive \/ downlist_requests = {}

IInv == TypeOK /\ JobsArePending /\ NewIdsAreFree /\ FoundAreLive

USE DownlistsAssumption

LEMMA InitIInv == Init => IInv
  BY DEF Init, IInv, TypeOK, JobsArePending, NewIdsAreFree, FoundAreLive, DownlistId, NoData, Live

\* What FoundAreLive and JobsArePending say of one procedure.
LEMMA FoundOne ==
  ASSUME IInv, NEW id \in DownlistId, data[id].req_nodes # {}
  PROVE  data[id] \in Datum
  BY DEF IInv, TypeOK, NoData

-----------------------------------------------------------------------------
\* The step lemmas: one for each way a procedure changes.
LEMMA ForgetIInv ==
  ASSUME IInv, Forget, alive' = alive, contacts' \in SUBSET Peer
  PROVE  IInv'
<1>1. /\ downlist_requests' \subseteq downlist_requests
      /\ UNCHANGED <<data, downlist_id_counter, jobs, answered, silent, alive>>
  BY DEF Forget
<1>2. TypeOK' /\ NewIdsAreFree' /\ FoundAreLive'
  BY <1>1 DEF IInv, TypeOK, NewIdsAreFree, FoundAreLive
<1>3. JobsArePending'
  BY <1>1 DEF IInv, JobsArePending, Live
<1> QED
  BY <1>2, <1>3 DEF IInv

LEMMA BeginIInv ==
  ASSUME IInv, NEW down \in SUBSET Peer, NEW up \in SUBSET Peer, up # {}, alive,
         Begin(down, up), alive' = alive, contacts' \in SUBSET Peer
  PROVE  IInv'
<1> DEFINE id == downlist_id_counter
<1>1. id \in DownlistId /\ id + 1 \in 0 .. MaxDownlists
  BY DEF Begin, IInv, TypeOK, DownlistId
<1>2. Call(down, up) \in Datum /\ Call(down, up).req_nodes = up
  BY DEF Call, Datum
<1>3. /\ data' = [data EXCEPT ![id] = Call(down, up)]
      /\ downlist_id_counter' = id + 1
      /\ downlist_requests' = downlist_requests \cup {id}
      /\ jobs' = jobs \cup ({id} \X up)
      /\ UNCHANGED <<answered, silent>>
  BY DEF Begin
<1>4. data \in [DownlistId -> Datum \cup {NoData}]
  BY DEF IInv, TypeOK
<1>5. TypeOK'
  BY <1>1, <1>2, <1>3, <1>4 DEF IInv, TypeOK
<1>6. NewIdsAreFree'
  BY <1>1, <1>3, <1>4 DEF IInv, NewIdsAreFree, DownlistId, TypeOK
<1>7. Call(down, up) # NoData
  BY <1>2 DEF NoData
<1>8. FoundAreLive'
  BY <1>1, <1>3, <1>4, <1>7 DEF IInv, TypeOK, FoundAreLive
<1>9. JobsArePending'
  <2>1. data[id].req_nodes = {}
    BY <1>1 DEF IInv, NewIdsAreFree, NoData, DownlistId
  <2>2. \A i \in DownlistId : data'[i].req_nodes = IF i = id THEN up ELSE data[i].req_nodes
    BY <1>1, <1>2, <1>3, <1>4
  <2>3. jobs = {j \in DownlistId \X Peer : j[2] \in data[j[1]].req_nodes}
    BY DEF IInv, JobsArePending
  <2>4. jobs' = {j \in DownlistId \X Peer : j[2] \in data'[j[1]].req_nodes}
    BY <1>1, <1>3, <2>1, <2>2, <2>3
  <2>5. ASSUME NEW i \in DownlistId, data'[i] # NoData PROVE data'[i].req_nodes # {}
    BY <1>1, <1>3, <1>4, <2>2, <2>5 DEF IInv, JobsArePending, Live
  <2> QED
    BY <2>4, <2>5 DEF JobsArePending, Live
<1> QED
  BY <1>5, <1>6, <1>8, <1>9 DEF IInv

\* The node n is struck out of the procedure id, which ends with its last node.
LEMMA SettleIInv ==
  ASSUME IInv, NEW id \in DownlistId, NEW n \in Peer, n \in data[id].req_nodes,
         Settle(id, [data[id] EXCEPT !.req_nodes = @ \ {n}]),
         jobs' = jobs \ {<<id, n>>}, alive' = alive, contacts' \in SUBSET Peer,
         answered' \in [DownlistId -> SUBSET Peer], silent' \in [DownlistId -> SUBSET Peer]
  PROVE  IInv'
<1> DEFINE d == [data[id] EXCEPT !.req_nodes = @ \ {n}]
<1>1. data \in [DownlistId -> Datum \cup {NoData}] /\ data[id] \in Datum
  BY FoundOne DEF IInv, TypeOK
<1>2. d \in Datum /\ d.req_nodes = data[id].req_nodes \ {n}
  BY <1>1 DEF Datum
<1>3. /\ data' = [data EXCEPT ![id] = IF d.req_nodes = {} THEN NoData ELSE d]
      /\ downlist_requests' = IF d.req_nodes = {} THEN downlist_requests \ {id} ELSE downlist_requests
      /\ downlist_id_counter' = downlist_id_counter
  BY DEF Settle
<1> HIDE DEF d
<1>4. TypeOK'
  BY <1>1, <1>2, <1>3 DEF IInv, TypeOK
<1>5. id < downlist_id_counter
  BY DEF IInv, NewIdsAreFree, NoData, TypeOK, DownlistId
<1>6. NewIdsAreFree'
  BY <1>1, <1>3, <1>5 DEF IInv, TypeOK, NewIdsAreFree, DownlistId
<1>7. d.req_nodes # {} => d # NoData
  BY DEF NoData
<1>8. FoundAreLive'
  BY <1>1, <1>3, <1>7 DEF IInv, TypeOK, FoundAreLive
<1>9. JobsArePending'
  <2>1. \A i \in DownlistId :
          data'[i].req_nodes = IF i = id THEN data[i].req_nodes \ {n} ELSE data[i].req_nodes
    BY <1>1, <1>2, <1>3 DEF NoData
  <2>2. jobs = {j \in DownlistId \X Peer : j[2] \in data[j[1]].req_nodes}
    BY DEF IInv, JobsArePending
  <2>3. jobs' = {j \in DownlistId \X Peer : j[2] \in data'[j[1]].req_nodes}
    <3>1. ASSUME NEW i \in DownlistId, NEW m \in Peer
          PROVE  <<i, m>> \in jobs' <=> m \in data'[i].req_nodes
      BY <2>1, <2>2
    <3>2. jobs' \subseteq DownlistId \X Peer
      BY <2>2
    <3> QED
      BY <3>1, <3>2
  <2>4. ASSUME NEW i \in DownlistId, data'[i] # NoData PROVE data'[i].req_nodes # {}
    BY <1>1, <1>3, <2>1, <2>4 DEF IInv, JobsArePending, Live
  <2> QED
    BY <2>3, <2>4 DEF JobsArePending, Live
<1> QED
  BY <1>4, <1>6, <1>8, <1>9 DEF IInv

LEMMA ResponseIInv ==
  ASSUME IInv, NEW id \in DownlistId, NEW n \in Peer, OnDownlistResponse(id, n), alive' = alive
  PROVE  IInv'
<1>1. contacts' \in SUBSET Peer
  BY DEF OnDownlistResponse, IInv, TypeOK
<1>2. CASE Heard(id, n)
  <2>1. /\ jobs' = jobs \ {<<id, n>>}
        /\ answered' = [answered EXCEPT ![id] = @ \cup {n}]
        /\ Settle(id, [data[id] EXCEPT !.req_nodes = @ \ {n}])
        /\ UNCHANGED silent
        /\ n \in data[id].req_nodes
    BY <1>2 DEF OnDownlistResponse, Heard, Cancelled
  <2>2. answered' \in [DownlistId -> SUBSET Peer] /\ silent' \in [DownlistId -> SUBSET Peer]
    BY <2>1 DEF IInv, TypeOK
  <2> QED
    BY <1>1, <2>1, <2>2, SettleIInv
<1>3. CASE ~Heard(id, n)
  BY <1>1, <1>3 DEF OnDownlistResponse, procedures, IInv, TypeOK, JobsArePending, NewIdsAreFree,
                    FoundAreLive, Live
<1> QED
  BY <1>2, <1>3

LEMMA TimeoutIInv ==
  ASSUME IInv, NEW id \in DownlistId, NEW n \in Peer, DownlistRequestTimeout(id, n)
  PROVE  IInv'
<1>1. n \in data[id].req_nodes
  BY DEF DownlistRequestTimeout, IInv, JobsArePending
<1>2. data \in [DownlistId -> Datum \cup {NoData}] /\ data[id] \in Datum
  BY <1>1, FoundOne DEF IInv, TypeOK
<1>3. alive' = alive /\ contacts' = contacts /\ contacts' \in SUBSET Peer
  BY DEF DownlistRequestTimeout, IInv, TypeOK
<1>4. CASE MayRepeat(id, n)
  <2> DEFINE d == [data[id] EXCEPT !.attempts[n] = @ + 1]
  <2>1. /\ data' = [data EXCEPT ![id] = d]
        /\ UNCHANGED <<downlist_requests, downlist_id_counter, jobs, answered, silent>>
    BY <1>2, <1>4 DEF DownlistRequestTimeout, Repeat
  <2>2. data[id].attempts[n] \in 0 .. attempts_number /\ data[id].attempts[n] < attempts_number
    BY <1>2, <1>4 DEF MayRepeat, Datum
  <2>3. d \in Datum /\ d.req_nodes = data[id].req_nodes
    BY <1>2, <2>2 DEF Datum
  <2> HIDE DEF d
  <2>4. TypeOK'
    BY <1>2, <1>3, <2>1, <2>3 DEF IInv, TypeOK
  <2>5. id < downlist_id_counter
    BY <1>1 DEF IInv, NewIdsAreFree, NoData, TypeOK, DownlistId
  <2>6. NewIdsAreFree'
    BY <1>2, <2>1, <2>5 DEF IInv, TypeOK, NewIdsAreFree, DownlistId
  <2>7. d # NoData
    BY <1>1, <2>3 DEF NoData
  <2>8. FoundAreLive'
    BY <1>2, <1>3, <2>1, <2>7 DEF IInv, TypeOK, FoundAreLive
  <2>9. \A i \in DownlistId : data'[i].req_nodes = data[i].req_nodes
    BY <1>2, <2>1, <2>3
  <2>10. JobsArePending'
    BY <1>1, <1>2, <2>1, <2>9 DEF IInv, JobsArePending, Live
  <2> QED
    BY <2>4, <2>6, <2>8, <2>10 DEF IInv
<1>5. CASE ~MayRepeat(id, n)
  <2>1. /\ jobs' = jobs \ {<<id, n>>}
        /\ silent' = [silent EXCEPT ![id] = @ \cup {n}]
        /\ Settle(id, [data[id] EXCEPT !.req_nodes = @ \ {n}])
        /\ UNCHANGED answered
    BY <1>5 DEF DownlistRequestTimeout, GiveUp
  <2>2. answered' \in [DownlistId -> SUBSET Peer] /\ silent' \in [DownlistId -> SUBSET Peer]
    BY <2>1 DEF IInv, TypeOK
  <2> QED
    BY <1>1, <1>3, <2>1, <2>2, SettleIInv
<1> QED
  BY <1>4, <1>5

LEMMA TerminateIInv ==
  ASSUME IInv, Terminate
  PROVE  IInv'
<1>1. /\ alive' = FALSE
      /\ data' = [id \in DownlistId |-> IF id \in downlist_requests THEN NoData ELSE data[id]]
      /\ downlist_requests' = {}
      /\ jobs' = {j \in jobs : j[1] \notin downlist_requests}
      /\ UNCHANGED <<contacts, downlist_id_counter, answered, silent>>
  BY DEF Terminate, Terminated
<1>2. TypeOK' /\ NewIdsAreFree' /\ FoundAreLive'
  BY <1>1 DEF IInv, TypeOK, NewIdsAreFree, FoundAreLive
<1>3. JobsArePending'
  <2>1. \A i \in DownlistId :
          data'[i].req_nodes = IF i \in downlist_requests THEN {} ELSE data[i].req_nodes
    BY <1>1 DEF NoData
  <2>2. jobs' = {j \in DownlistId \X Peer : j[2] \in data'[j[1]].req_nodes}
    BY <1>1, <2>1 DEF IInv, JobsArePending
  <2>3. \A i \in DownlistId : data'[i] # NoData => data'[i].req_nodes # {}
    BY <1>1, <2>1 DEF IInv, JobsArePending, Live
  <2> QED
    BY <2>2, <2>3 DEF JobsArePending, Live
<1> QED
  BY <1>2, <1>3 DEF IInv

LEMMA NextIInv == IInv /\ [Next]_vars => IInv'
<1> SUFFICES ASSUME IInv, [Next]_vars PROVE IInv'
  OBVIOUS
<1>1. ASSUME NEW down \in SUBSET Peer, NEW up \in SUBSET Peer, alive, alive' = alive,
             DoDownlistRequests(down, up)
      PROVE  IInv'
  <2>1. contacts' \in SUBSET Peer
    BY <1>1 DEF DoDownlistRequests, IInv, TypeOK
  <2> QED
    BY <1>1, <2>1, ForgetIInv, BeginIInv DEF DoDownlistRequests, NothingToTell
<1>2. CASE UNCHANGED vars
  BY <1>2 DEF vars, procedures, IInv, TypeOK, JobsArePending, NewIdsAreFree, FoundAreLive, Live
<1> QED
  BY <1>1, <1>2, ResponseIInv, TimeoutIInv, TerminateIInv DEF Next

LEMMA IInvAlways == Spec => []IInv
  BY InitIInv, NextIInv, PTL DEF Spec

-----------------------------------------------------------------------------
(* Each step is one of AskAll, or none                                     *)

Phase == [id \in DownlistId |-> IF id >= downlist_id_counter THEN "unused"
                                ELSE IF id \in Live THEN "asking" ELSE "over"]
Waiting == [id \in DownlistId |-> data[id].req_nodes]

AbsStep == [Abs!Next]_(Abs!vars)

\* The procedure of an id is under way if it waits for somebody.
LEMMA PhaseIs ==
  ASSUME IInv
  PROVE  /\ \A id \in DownlistId : data[id] # NoData <=> data[id].req_nodes # {}
         /\ downlist_id_counter \in Nat
         /\ \A id \in DownlistId : id \in Nat
         /\ \A id \in DownlistId :
              Phase[id] = IF id >= downlist_id_counter THEN "unused"
                          ELSE IF data[id].req_nodes # {} THEN "asking" ELSE "over"
  BY DEF IInv, TypeOK, JobsArePending, Live, NoData, DownlistId, Phase

LEMMA BeginAbs ==
  ASSUME IInv, IInv', NEW down \in SUBSET Peer, NEW up \in SUBSET Peer, up # {}, Begin(down, up)
  PROVE  AbsStep
<1>0. PICK id : id = downlist_id_counter
  OBVIOUS
<1> DEFINE asked == [p \in {id} |-> up]
<1>1. /\ id \in DownlistId
      /\ data' = [data EXCEPT ![id] = Call(down, up)]
      /\ downlist_id_counter' = id + 1
      /\ UNCHANGED <<answered, silent>>
  BY <1>0 DEF Begin, IInv, TypeOK, DownlistId
<1>2. \A i \in DownlistId : data'[i].req_nodes = IF i = id THEN up ELSE data[i].req_nodes
  BY <1>1 DEF Call, IInv, TypeOK
<1>3. Phase[id] = "unused"
  BY <1>0, <1>1, PhaseIs
<1>4. \A i \in DownlistId : Phase'[i] = IF i = id THEN "asking" ELSE Phase[i]
  <2>1. \A i \in DownlistId :
          Phase'[i] = IF i >= downlist_id_counter' THEN "unused"
                      ELSE IF data'[i].req_nodes # {} THEN "asking" ELSE "over"
    BY DEF Phase, Live, IInv, JobsArePending, NoData
  <2>2. \A i \in DownlistId : i >= id + 1 <=> i >= id /\ i # id
    BY <1>0, PhaseIs
  <2> QED
    BY <1>0, <1>1, <1>2, <2>1, <2>2, PhaseIs
<1>5. Phase' = [i \in DownlistId |-> IF i \in {id} THEN "asking" ELSE Phase[i]]
  BY <1>4 DEF Phase
<1>6. asked \in [{id} -> (SUBSET Peer) \ {{}}]
  OBVIOUS
<1>7. Waiting' = [i \in DownlistId |-> IF i \in {id} THEN asked[i] ELSE Waiting[i]]
  BY <1>2 DEF Waiting
<1>8. Abs!Begin({id})
  <2> HIDE DEF asked
  <2> QED
    BY <1>1, <1>3, <1>5, <1>6, <1>7 DEF Abs!Begin, Phase, Waiting
<1>9. {id} \in SUBSET DownlistId
  BY <1>1
<1> QED
  BY <1>8, <1>9 DEF AbsStep, Abs!Next

\* A node is struck out, and the procedure is over if it was the last one.
LEMMA SettleAbs ==
  ASSUME IInv, IInv', NEW id \in DownlistId, NEW n \in Peer, n \in data[id].req_nodes,
         Settle(id, [data[id] EXCEPT !.req_nodes = @ \ {n}])
  PROVE  Abs!Settle(id, n)
<1> DEFINE d == [data[id] EXCEPT !.req_nodes = @ \ {n}]
<1>1. data \in [DownlistId -> Datum \cup {NoData}] /\ data[id] \in Datum
  BY FoundOne DEF IInv, TypeOK
<1>2. d.req_nodes = data[id].req_nodes \ {n}
  BY <1>1 DEF Datum
<1>3. /\ data' = [data EXCEPT ![id] = IF d.req_nodes = {} THEN NoData ELSE d]
      /\ downlist_id_counter' = downlist_id_counter
  BY DEF Settle
<1> HIDE DEF d
<1>4. \A i \in DownlistId :
        data'[i].req_nodes = IF i = id THEN data[id].req_nodes \ {n} ELSE data[i].req_nodes
  BY <1>1, <1>2, <1>3 DEF NoData
<1>5. id < downlist_id_counter
  BY DEF IInv, NewIdsAreFree, NoData, TypeOK, DownlistId
<1>6. \A i \in DownlistId :
        Phase'[i] = IF i = id /\ data[id].req_nodes = {n} THEN "over" ELSE Phase[i]
  <2>1. \A i \in DownlistId :
          Phase'[i] = IF i >= downlist_id_counter THEN "unused"
                      ELSE IF data'[i].req_nodes # {} THEN "asking" ELSE "over"
    BY <1>3 DEF Phase, Live, IInv, JobsArePending, NoData
  <2> QED
    BY <1>4, <1>5, <2>1, PhaseIs
<1>7. /\ Phase' = [Phase EXCEPT ![id] = IF Waiting[id] = {n} THEN "over" ELSE @]
      /\ Waiting' = [Waiting EXCEPT ![id] = @ \ {n}]
      /\ n \in Waiting[id]
  BY <1>4, <1>6 DEF Phase, Waiting
<1> QED
  BY <1>7 DEF Abs!Settle, Phase, Waiting

LEMMA ResponseAbs ==
  ASSUME IInv, IInv', NEW id \in DownlistId, NEW n \in Peer, OnDownlistResponse(id, n)
  PROVE  AbsStep
<1>1. CASE Heard(id, n)
  <2>1. /\ answered' = [answered EXCEPT ![id] = @ \cup {n}]
        /\ Settle(id, [data[id] EXCEPT !.req_nodes = @ \ {n}])
        /\ UNCHANGED silent
        /\ n \in data[id].req_nodes
    BY <1>1 DEF OnDownlistResponse, Heard
  <2>2. Abs!Answer(id, n)
    BY <2>1, SettleAbs DEF Abs!Answer
  <2> QED
    BY <2>2 DEF AbsStep, Abs!Next
<1>2. CASE ~Heard(id, n)
  BY <1>2 DEF OnDownlistResponse, procedures, AbsStep, Abs!vars, Live
<1> QED
  BY <1>1, <1>2

LEMMA TimeoutAbs ==
  ASSUME IInv, IInv', NEW id \in DownlistId, NEW n \in Peer, DownlistRequestTimeout(id, n)
  PROVE  AbsStep
<1>1. n \in data[id].req_nodes
  BY DEF DownlistRequestTimeout, IInv, JobsArePending
<1>2. data \in [DownlistId -> Datum \cup {NoData}] /\ data[id] \in Datum
  BY <1>1, FoundOne DEF IInv, TypeOK
<1>3. CASE MayRepeat(id, n)
  <2>1. /\ data' = [data EXCEPT ![id] = [data[id] EXCEPT !.attempts[n] = @ + 1]]
        /\ UNCHANGED <<downlist_id_counter, answered, silent>>
    BY <1>2, <1>3 DEF DownlistRequestTimeout, Repeat
  <2>2. [data[id] EXCEPT !.attempts[n] = @ + 1].req_nodes = data[id].req_nodes
    BY <1>2 DEF Datum
  <2>3. \A i \in DownlistId : data'[i].req_nodes = data[i].req_nodes
    BY <1>2, <2>1, <2>2
  <2>4. \A i \in DownlistId : i \in Live' <=> i \in Live
    BY <2>3 DEF IInv, JobsArePending, Live, NoData
  <2>5. Phase' = Phase /\ Waiting' = Waiting
    BY <2>1, <2>3, <2>4 DEF Phase, Waiting
  <2> QED
    BY <2>1, <2>5 DEF AbsStep, Abs!vars, Phase, Waiting
<1>4. CASE ~MayRepeat(id, n)
  <2>1. /\ silent' = [silent EXCEPT ![id] = @ \cup {n}]
        /\ Settle(id, [data[id] EXCEPT !.req_nodes = @ \ {n}])
        /\ UNCHANGED answered
    BY <1>4 DEF DownlistRequestTimeout, GiveUp
  <2>2. Abs!GiveUp(id, n)
    BY <1>1, <2>1, SettleAbs DEF Abs!GiveUp
  <2> QED
    BY <2>2 DEF AbsStep, Abs!Next
<1> QED
  BY <1>3, <1>4

LEMMA TerminateAbs ==
  ASSUME IInv, IInv', Terminate
  PROVE  AbsStep
<1>0. PICK ps : ps = downlist_requests
  OBVIOUS
<1>1. /\ data' = [id \in DownlistId |-> IF id \in ps THEN NoData ELSE data[id]]
      /\ UNCHANGED <<downlist_id_counter, answered, silent>>
      /\ ps \in SUBSET DownlistId
  BY <1>0 DEF Terminate, Terminated, IInv, TypeOK
<1>2. \A i \in DownlistId : data'[i].req_nodes = IF i \in ps THEN {} ELSE data[i].req_nodes
  BY <1>1 DEF NoData
<1>3. \A i \in ps : i < downlist_id_counter
  BY <1>0 DEF IInv, FoundAreLive, NewIdsAreFree, TypeOK, DownlistId
<1>4. \A i \in DownlistId : Phase'[i] = IF i \in ps THEN "over" ELSE Phase[i]
  <2>1. \A i \in DownlistId :
          Phase'[i] = IF i >= downlist_id_counter THEN "unused"
                      ELSE IF data'[i].req_nodes # {} THEN "asking" ELSE "over"
    BY <1>1 DEF Phase, Live, IInv, JobsArePending, NoData
  <2> QED
    BY <1>1, <1>2, <1>3, <2>1, PhaseIs
<1>5. /\ Phase' = [i \in DownlistId |-> IF i \in ps THEN "over" ELSE Phase[i]]
      /\ Waiting' = [i \in DownlistId |-> IF i \in ps THEN {} ELSE Waiting[i]]
  BY <1>2, <1>4 DEF Phase, Waiting
<1>6. Abs!Stop(ps)
  BY <1>1, <1>5 DEF Abs!Stop, Phase, Waiting
<1> QED
  BY <1>1, <1>6 DEF AbsStep, Abs!Next

LEMMA NextAbs == IInv /\ IInv' /\ [Next]_vars => AbsStep
<1> SUFFICES ASSUME IInv, IInv', [Next]_vars PROVE AbsStep
  OBVIOUS
<1>1. ASSUME NEW down \in SUBSET Peer, NEW up \in SUBSET Peer, DoDownlistRequests(down, up)
      PROVE  AbsStep
  <2>1. CASE Forget
    BY <2>1 DEF Forget, AbsStep, Abs!vars, Live
  <2>2. CASE ~NothingToTell(down, up)
    BY <1>1, <2>2, BeginAbs DEF DoDownlistRequests, NothingToTell
  <2> QED
    BY <1>1, <2>1, <2>2 DEF DoDownlistRequests
<1>2. CASE UNCHANGED vars
  BY <1>2 DEF vars, procedures, AbsStep, Abs!vars, Live
<1> QED
  BY <1>1, <1>2, ResponseAbs, TimeoutAbs, TerminateAbs DEF Next

LEMMA InitAbs == Init => Abs!Init
  BY DEF Init, Abs!Init, DownlistId, NoData

-----------------------------------------------------------------------------
\* Every variable always holds a value of its type; attempts never pass their bound.
THEOREM TypeCorrect == Spec => []TypeOK
  BY IInvAlways, PTL DEF IInv

\* Timeouts and procedures always agree: DownlistRequestTimeout never runs with a
\* pointer to a freed procedure, not even once the node is deleted, and
\* FinishDownlistRequests never leaves a procedure with nobody to wait for.
THEOREM TimeoutsAreSafe == Spec => []JobsArePending
  BY IInvAlways, PTL DEF IInv

\* What TerminateDownlistRequests misses are the procedures erased for another one,
\* no more; and OnDownlistResponse finds no such procedure.
THEOREM AstrayOnly == Spec => OnlyAstrayIsLeft
<1> DEFINE A == /\ ~alive' => {j[1] : j \in jobs'} = Astray
                /\ downlist_requests' \subseteq {id \in DownlistId : data'[id] # NoData}
                /\ \A id \in Astray : answered'[id] = answered[id]
<1>1. IInv /\ IInv' /\ [Next]_vars => [A]_vars
  <2> SUFFICES ASSUME IInv, IInv', Next PROVE A
    OBVIOUS
  <2>1. downlist_requests' \subseteq {id \in DownlistId : data'[id] # NoData}
    BY DEF IInv, FoundAreLive, TypeOK
  <2>2. \A id \in Astray : answered'[id] = answered[id]
    <3>1. CASE \E down \in SUBSET Peer, up \in SUBSET Peer : DoDownlistRequests(down, up)
      BY <3>1 DEF DoDownlistRequests, Forget, Begin
    <3>2. ASSUME NEW id \in DownlistId, NEW n \in Peer, OnDownlistResponse(id, n)
          PROVE  \A i \in Astray : answered'[i] = answered[i]
      <4>1. CASE Heard(id, n)
        BY <3>2, <4>1 DEF OnDownlistResponse, Heard, Astray, Live, IInv, TypeOK
      <4> QED
        BY <3>2, <4>1 DEF OnDownlistResponse, procedures
    <3>3. ASSUME NEW id \in DownlistId, NEW n \in Peer, DownlistRequestTimeout(id, n)
          PROVE  \A i \in Astray : answered'[i] = answered[i]
      BY <3>3 DEF DownlistRequestTimeout, Repeat, GiveUp
    <3>4. CASE Terminate
      BY <3>4 DEF Terminate
    <3> QED
      BY <3>1, <3>2, <3>3, <3>4 DEF Next
  <2>3. ASSUME ~alive' PROVE {j[1] : j \in jobs'} = Astray
    <3>1. {j[1] : j \in jobs'} = {id \in DownlistId : data'[id].req_nodes # {}}
      <4>1. jobs' = {j \in DownlistId \X Peer : j[2] \in data'[j[1]].req_nodes}
        BY DEF IInv, JobsArePending
      <4>2. \A id \in DownlistId : data'[id].req_nodes \subseteq Peer
        BY DEF IInv, TypeOK, Datum, NoData
      <4>3. ASSUME NEW id \in DownlistId, NEW n \in data'[id].req_nodes
            PROVE  id \in {j[1] : j \in jobs'}
        <5>1. <<id, n>> \in jobs'
          BY <4>1, <4>2
        <5> QED
          BY <5>1
      <4> QED
        BY <4>1, <4>3
    <3>2. Terminate
      <4>1. ASSUME NEW id \in DownlistId, NEW n \in Peer, DownlistRequestTimeout(id, n)
            PROVE  alive'
        BY <4>1 DEF DownlistRequestTimeout
      <4>2. CASE alive /\ UNCHANGED alive
        BY <2>3, <4>2
      <4> QED
        BY <2>3, <4>1, <4>2 DEF Next
    <3>3. data' = [id \in DownlistId |-> IF id \in downlist_requests THEN NoData ELSE data[id]]
      BY <3>2 DEF Terminate, Terminated
    <3>4. \A id \in DownlistId : data[id].req_nodes # {} <=> data[id] # NoData
      BY DEF IInv, JobsArePending, Live, NoData
    <3> QED
      BY <3>1, <3>3, <3>4 DEF Astray, Live, NoData
  <2> QED
    BY <2>1, <2>2, <2>3
<1> QED
  BY IInvAlways, <1>1, PTL DEF Spec, OnlyAstrayIsLeft

\* A downlist procedure asks each of its nodes, hears it or gives it up, once, and
\* is over with the last one: also one erased from downlist_requests for another.
THEOREM Refinement == Spec => ImplementsAskAll
<1>1. IInv /\ IInv' /\ [Next]_vars => [Abs!Next]_(Abs!vars)
  BY NextAbs DEF AbsStep
<1> QED
  BY IInvAlways, InitAbs, <1>1, PTL DEF Spec, ImplementsAskAll, Abs!Spec
=============================================================================
