----------------------------- MODULE Downlists -----------------------------
(***************************************************************************)
(* The downlist procedures of one CKadNode (kad_node.cpp).                 *)
(*                                                                         *)
(* When a search ends, the nodes it found DOWN are removed from the        *)
(* routing table, and those that are UP are told of them: each is sent a   *)
(* DownlistRequest and asked again until it answers or has left            *)
(* attempts_number + 1 requests unanswered.                                *)
(*                                                                         *)
(* A search that found nobody DOWN, or nobody UP, has nothing to tell.     *)
(* Its procedure is freed before it was given an id, and the code erases   *)
(* it from downlist_requests by the id: the field is uninitialised, so     *)
(* that any other procedure may be erased instead.  Such a procedure is    *)
(* astray: its timeouts go on, but it is not found any more.               *)
(***************************************************************************)
EXTENDS Integers, FiniteSets

CONSTANTS
  Peer,             \* the other nodes
  attempts_number,  \* how often a silent node is told again
  MaxDownlists      \* bound: procedures of a history

ASSUME DownlistsAssumption ==
  /\ IsFiniteSet(Peer)
  /\ attempts_number \in Nat
  /\ MaxDownlists \in Nat

DownlistId == 0 .. MaxDownlists - 1

\* DownlistRequestData.  The nodes told are those it waits for at first.
Call(down, up) ==
  [down_nodes |-> down, req_nodes |-> up, attempts |-> [n \in Peer |-> 0]]
NoData == [req_nodes |-> {}]

VARIABLES
  alive,               \* FALSE once the node is deleted
  contacts,            \* of the routing table
  data,                \* of each procedure, NoData if it is not allocated
  downlist_requests,
  downlist_id_counter,
  jobs,                \* the pairs of a procedure and a node with a timeout
  answered, silent     \* the nodes of each procedure that answered, or were given up

procedures == <<data, downlist_requests, downlist_id_counter, jobs, answered, silent>>
vars == <<alive, contacts, procedures>>

Live == {id \in DownlistId : data[id] # NoData}
Astray == Live \ downlist_requests

Init ==
  /\ alive = TRUE
  /\ contacts = {}
  /\ data = [id \in DownlistId |-> NoData]
  /\ downlist_requests = {}
  /\ downlist_id_counter = 0
  /\ jobs = {}
  /\ answered = [id \in DownlistId |-> {}]
  /\ silent = [id \in DownlistId |-> {}]

-----------------------------------------------------------------------------

\* Nothing to tell: FinishDownlistRequests erases whatever has the same id.
Forget ==
  /\ \E any \in SUBSET downlist_requests :
       /\ Cardinality(any) <= 1
       /\ downlist_requests' = downlist_requests \ any
  /\ UNCHANGED <<data, downlist_id_counter, jobs, answered, silent>>

Begin(down, up) ==
  LET id == downlist_id_counter
  IN  /\ id < MaxDownlists
      /\ downlist_id_counter' = id + 1
      /\ data' = [data EXCEPT ![id] = Call(down, up)]
      /\ downlist_requests' = downlist_requests \cup {id}
      /\ jobs' = jobs \cup ({id} \X up)
      /\ UNCHANGED <<answered, silent>>

\* Mutant of NothingToTell: it does not matter that nobody is UP.
NothingIfNobodyDown(down, up) == down = {}

NothingToTell(down, up) == down = {} \/ up = {}

\* FinishSearch, of a search that has found down DOWN and up UP.
DoDownlistRequests(down, up) ==
  /\ contacts' = contacts \ down
  /\ IF NothingToTell(down, up) THEN Forget ELSE Begin(down, up)

\* FinishDownlistRequests when the last node has answered or is given up.
Settle(id, d) ==
  /\ data' = [data EXCEPT ![id] = IF d.req_nodes = {} THEN NoData ELSE d]
  /\ downlist_requests' = IF d.req_nodes = {} THEN downlist_requests \ {id} ELSE downlist_requests
  /\ UNCHANGED downlist_id_counter

\* Mutant of Cancelled: the procedure, not the node, owns the timeouts.
CancelledOfAll(id, n) == {id} \X Peer

\* The timeouts cancelled when n answers.
Cancelled(id, n) == {<<id, n>>}

\* Mutant of Heard: the procedure is not looked for in downlist_requests.
HeardAnyway(id, n) == n \in data[id].req_nodes

\* The procedure is found, and it waits for n.
Heard(id, n) == id \in downlist_requests /\ n \in data[id].req_nodes

\* An answer of n, perhaps one that comes again or late, or to a request that a
\* former instance of this node gave the same id.  n may be a new contact.
OnDownlistResponse(id, n) ==
  /\ contacts' \in {contacts, contacts \cup {n}}
  /\ IF Heard(id, n)
       THEN /\ jobs' = jobs \ Cancelled(id, n)
            /\ answered' = [answered EXCEPT ![id] = @ \cup {n}]
            /\ Settle(id, [data[id] EXCEPT !.req_nodes = @ \ {n}])
            /\ UNCHANGED silent
       ELSE UNCHANGED procedures

MayRepeat(id, n) == data[id].attempts[n] < attempts_number

Repeat(id, n) ==
  /\ data' = [data EXCEPT ![id].attempts[n] = @ + 1]
  /\ UNCHANGED <<downlist_requests, downlist_id_counter, jobs, answered, silent>>

GiveUp(id, n) ==
  /\ jobs' = jobs \ {<<id, n>>}
  /\ silent' = [silent EXCEPT ![id] = @ \cup {n}]
  /\ Settle(id, [data[id] EXCEPT !.req_nodes = @ \ {n}])
  /\ UNCHANGED answered

\* The timeout finds its procedure by the pointer it holds, astray or not.
DownlistRequestTimeout(id, n) ==
  /\ alive
  /\ <<id, n>> \in jobs
  /\ IF MayRepeat(id, n) THEN Repeat(id, n) ELSE GiveUp(id, n)
  /\ UNCHANGED <<alive, contacts>>

\* Mutant of Terminated: the first procedure only.
FirstTerminated == {id \in downlist_requests : \A o \in downlist_requests : id <= o}

\* The procedures that TerminateDownlistRequests finishes.
Terminated == downlist_requests

Terminate ==
  /\ alive' = FALSE
  /\ data' = [id \in DownlistId |-> IF id \in Terminated THEN NoData ELSE data[id]]
  /\ downlist_requests' = {}
  /\ jobs' = {j \in jobs : j[1] \notin Terminated}
  /\ UNCHANGED <<contacts, downlist_id_counter, answered, silent>>

Next ==
  \/ /\ alive /\ UNCHANGED alive
     /\ \/ \E down \in SUBSET Peer, up \in SUBSET Peer :
             down \cap up = {} /\ DoDownlistRequests(down, up)
        \/ \E id \in DownlistId, n \in Peer : OnDownlistResponse(id, n)
  \/ \E id \in DownlistId, n \in Peer : DownlistRequestTimeout(id, n)
  \/ alive /\ Terminate

Spec == Init /\ [][Next]_vars

\* The scheduler runs every timeout that is not cancelled.
FairSpec ==
  Spec /\ \A id \in DownlistId, n \in Peer : WF_vars(DownlistRequestTimeout(id, n))

-----------------------------------------------------------------------------
(* Type correctness                                                        *)

Datum ==
  [down_nodes : SUBSET Peer, req_nodes : SUBSET Peer, attempts : [Peer -> 0 .. attempts_number]]

\* Every variable holds a value of the type its C++ counterpart is declared with,
\* and no node is told more often than attempts_number allows.
TypeOK ==
  /\ alive \in BOOLEAN
  /\ contacts \in SUBSET Peer
  /\ data \in [DownlistId -> Datum \cup {NoData}]
  /\ downlist_requests \in SUBSET DownlistId
  /\ downlist_id_counter \in 0 .. MaxDownlists
  /\ jobs \in SUBSET (DownlistId \X Peer)
  /\ answered \in [DownlistId -> SUBSET Peer]
  /\ silent \in [DownlistId -> SUBSET Peer]

(* Safety                                                                  *)

\* A timeout is scheduled exactly for the nodes that the allocated procedures wait
\* for, of which each has one at least, also for a procedure that is astray: it
\* never finds its procedure or its node freed.
JobsArePending ==
  /\ jobs = {j \in DownlistId \X Peer : j[2] \in data[j[1]].req_nodes}
  /\ \A id \in Live : data[id].req_nodes # {}

\* What a deleted node leaves in the scheduler is astray, not what it could find:
\* no answered or finished procedure goes astray, and an answer does not reach one.
OnlyAstrayIsLeft ==
  [][/\ ~alive' => {j[1] : j \in jobs'} = Astray
     /\ downlist_requests' \subseteq {id \in DownlistId : data'[id] # NoData}
     /\ \A id \in Astray : answered'[id] = answered[id]]_vars

(* What a procedure promises                                               *)

Abs == INSTANCE AskAll WITH
  Procedure <- DownlistId,
  phase <- [id \in DownlistId |-> IF id >= downlist_id_counter THEN "unused"
                                  ELSE IF id \in Live THEN "asking" ELSE "over"],
  waiting <- [id \in DownlistId |-> data[id].req_nodes]

\* A downlist procedure, even one that is astray, has somebody to tell, hears from
\* each node or gives it up, once, and is over with the last one.
ImplementsAskAll == Abs!Spec

(* Liveness                                                                *)

\* Every downlist procedure ends while the node is alive, even if nobody ever
\* answers or another one has erased it from downlist_requests.
EveryDownlistEnds ==
  \A id \in DownlistId : id \in Live ~> id \notin Live \/ ~alive
=============================================================================
