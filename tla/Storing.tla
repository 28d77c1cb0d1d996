------------------------------ MODULE Storing ------------------------------
(***************************************************************************)
(* The item store and the store procedures of one CKadNode (store.cpp,     *)
(* kad_node.cpp).                                                          *)
(*                                                                         *)
(* The node keeps the items others ask it to store.  It republishes each   *)
(* of them from time to time until it expires, earlier if close contacts   *)
(* are lost, and hands them to new contacts that should have them.  A      *)
(* store procedure sends the item to the nodes a search has found, or to   *)
(* a single node, repeats the request to those that are silent, and        *)
(* reports once whether any of them has it.                                *)
(***************************************************************************)
EXTENDS Distance

CONSTANTS
  Item,                  \* the keys; one value each
  Peer,                  \* the other nodes
  MaxNodeID,             \* more than any distance
  K,                     \* nodes a search finds
  attempts_number,       \* how often a silent node is asked again
  republish_time,
  republish_time_delta,
  republish_treshhold,   \* lost contacts that make the node republish
  Width,                 \* values of an unsigned time: 2^64 in the code
  Ttl,                   \* the times to live that requests carry
  MaxStores,             \* bound: store procedures of a history
  MaxTime                \* bound: the last time stamp

ASSUME StoringAssumption ==
  /\ Item \subseteq Id /\ IsFiniteSet(Item)
  /\ Peer \subseteq Id /\ IsFiniteSet(Peer)
  /\ Item \subseteq Nat
  /\ MaxNodeID \in Nat
  /\ K \in Nat \ {0}
  /\ attempts_number \in Nat
  /\ republish_time_delta \in Nat
  /\ republish_time \in Nat /\ republish_time > republish_time_delta
  /\ republish_treshhold \in Nat
  /\ Width \in Nat \ {0}
  /\ Ttl \subseteq 0 .. Width - 1
  /\ MaxStores \in Nat
  /\ MaxTime \in Nat

StoreId == 0 .. MaxStores - 1
Code == {"NONE", "SUCCEED", "FAILED", "TERMINATED"}
NotStored == -1
NotSet == -1

\* A request to store item i: the key and the value.
StoreRequest(i, ttl) == [item |-> i, time_to_live |-> ttl]
NoRequest == [item |-> "none"]

NoData == [caller |-> "none", nodes |-> {}]

VARIABLES
  alive,             \* FALSE once the node is deleted
  now,               \* GetCurrentTime
  expiration_time,   \* of each item, NotStored if the store has no such item
  max_distance,      \* of each item, NotSet if max_distance_setted is false
  republish,         \* when the RepublishItem jobs of each item are due
  removed_contacts,
  data,              \* what each store procedure keeps, NoData if there is none
  store_requests,
  store_id_counter,
  jobs,              \* the pairs of a procedure and a node with a timeout
  answered, silent,  \* the nodes of each procedure that have it, or were given up
  calls, outcome,    \* of the callback of each procedure
  repeated           \* the request that is just repeated

items == <<expiration_time, max_distance, republish, removed_contacts>>
procedures == <<data, store_requests, store_id_counter, jobs, answered, silent, calls, outcome>>
vars == <<alive, now, items, procedures, repeated>>

Stored == {i \in Item : expiration_time[i] # NotStored}
Live == {id \in StoreId : data[id] # NoData}

\* The procedures whose search is under way.
Searching == Live \ store_requests

Init ==
  /\ alive = TRUE
  /\ now = 0
  /\ expiration_time = [i \in Item |-> NotStored]
  /\ max_distance = [i \in Item |-> NotSet]
  /\ republish = [i \in Item |-> {}]
  /\ removed_contacts = 0
  /\ data = [id \in StoreId |-> NoData]
  /\ store_requests = {}
  /\ store_id_counter = 0
  /\ jobs = {}
  /\ answered = [id \in StoreId |-> {}]
  /\ silent = [id \in StoreId |-> {}]
  /\ calls = [id \in StoreId |-> 0]
  /\ outcome = [id \in StoreId |-> "NONE"]
  /\ repeated = NoRequest

\* What is not a timeout, nor the passing of time, nor the end of the node.
Runs == alive /\ repeated' = NoRequest /\ UNCHANGED <<alive, now>>

-----------------------------------------------------------------------------
(* Store procedures                                                        *)

\* StoreRequestData.  caller is "item" if the callback is CStore::StoreCallback;
\* the callbacks of the simulator and of FinishSearch only count.  begun is not in
\* the code: when Store or StoreToNode was called.
Call(i, ttl, caller) ==
  [item |-> i, time_to_live |-> ttl, caller |-> caller, begun |-> now, nodes |-> {},
   attempts |-> [n \in Peer |-> 0], succeded |-> 0, max_distance |-> 0]

\* The distance of the farthest node of ns: the last one of the response.
Radius(i, ns) == CHOOSE d \in {Dist[i][n] : n \in ns} : \A n \in ns : Dist[i][n] <= d

\* DoStore: the nodes of d that are asked, with the time to live of the call however
\* long the search took.  Fewer than K nodes are all there are.
Asking(d, ns, single) ==
  [d EXCEPT !.nodes = ns,
            !.max_distance = IF ~single /\ Cardinality(ns) < K THEN MaxNodeID
                                                             ELSE Radius(d.item, ns)]

\* Store: the search for the nodes to ask begins.
Store(i, ttl, caller) ==
  /\ store_id_counter < MaxStores
  /\ store_id_counter' = store_id_counter + 1
  /\ data' = [data EXCEPT ![store_id_counter] = Call(i, ttl, caller)]
  /\ UNCHANGED <<store_requests, jobs, answered, silent, calls, outcome>>

\* StoreToNode(n) for each item of S, by their keys, with the times to live ttl.
StoreToNode(n, S, ttl, caller) ==
  LET id(i) == store_id_counter + Cardinality({j \in S : j < i})
      new == {id(i) : i \in S}
  IN  /\ store_id_counter + Cardinality(S) <= MaxStores
      /\ store_id_counter' = store_id_counter + Cardinality(S)
      /\ data' = [p \in StoreId |->
                    IF p \in new
                      THEN LET i == CHOOSE j \in S : id(j) = p
                           IN  Asking(Call(i, ttl[i], caller), {n}, TRUE)
                      ELSE data[p]]
      /\ store_requests' = store_requests \cup new
      /\ jobs' = jobs \cup (new \X {n})
      /\ UNCHANGED <<answered, silent, calls, outcome>>

\* The callback is called with code, and the procedures ps are gone.
Report(ps, code) ==
  /\ calls' = [p \in StoreId |-> IF p \in ps THEN calls[p] + 1 ELSE calls[p]]
  /\ outcome' = [p \in StoreId |-> IF p \in ps THEN code ELSE outcome[p]]
  /\ data' = [p \in StoreId |-> IF p \in ps THEN NoData ELSE data[p]]
  /\ store_requests' = store_requests \ ps
  /\ UNCHANGED store_id_counter

\* CSimulator::StartNodeLoop stores a value.
StoreValue(i, ttl) == Runs /\ Store(i, ttl, "other") /\ UNCHANGED items

\* OnFindValueResponse stores a value it was given at the closest node without it.
StoreToFirstNode(n, i, ttl) ==
  Runs /\ StoreToNode(n, {i}, [j \in {i} |-> ttl], "other") /\ UNCHANGED items

\* DoStore, called back by the search.  No search finds the node itself.
SearchFound(id, ns) ==
  /\ Runs
  /\ id \in Searching
  /\ data' = [data EXCEPT ![id] = Asking(@, ns, FALSE)]
  /\ store_requests' = store_requests \cup {id}
  /\ jobs' = jobs \cup ({id} \X ns)
  /\ UNCHANGED <<items, store_id_counter, answered, silent, calls, outcome>>

SearchFailed(id) ==
  /\ Runs
  /\ id \in Searching
  /\ Report({id}, "FAILED")
  /\ UNCHANGED <<items, jobs, answered, silent>>

\* CStore::StoreCallback.
StoreCallback(d, code) ==
  /\ max_distance' = IF d.caller = "item" /\ code = "SUCCEED"
                       THEN [max_distance EXCEPT ![d.item] = d.max_distance]
                       ELSE max_distance
  /\ UNCHANGED <<expiration_time, republish, removed_contacts>>

\* Mutant of Result: every node has to have it.
ResultOfAll(d, id) == IF silent'[id] = {} THEN "SUCCEED" ELSE "FAILED"

Result(d, id) == IF d.succeded > 0 THEN "SUCCEED" ELSE "FAILED"

\* A node of the procedure has answered or is given up; d is what is left of it.
\* FinishStore when it was the last one.
Settle(id, d) ==
  IF d.nodes = {}
    THEN /\ StoreCallback(d, Result(d, id))
         /\ Report({id}, Result(d, id))
    ELSE /\ data' = [data EXCEPT ![id] = d]
         /\ UNCHANGED <<items, store_requests, store_id_counter, calls, outcome>>

\* Mutant of Cancelled: the procedure, not the node, owns the timeouts.
CancelledOfAll(id, n) == {id} \X Peer

\* The timeouts cancelled when n answers.
Cancelled(id, n) == {<<id, n>>}

\* Mutant of Heard: any answer counts.
HeardAnyone(id, n) == id \in store_requests

\* OnStoreResponse finds the procedure, and n is one of those it waits for.
Heard(id, n) == id \in store_requests /\ n \in data[id].nodes

\* The answer may be repeated or come after n was given up.
OnStoreResponse(id, n) ==
  /\ Runs
  /\ n \in data[id].nodes \cup answered[id] \cup silent[id]
  /\ Heard(id, n)
  /\ jobs' = jobs \ Cancelled(id, n)
  /\ answered' = [answered EXCEPT ![id] = @ \cup {n}]
  /\ UNCHANGED silent
  /\ Settle(id, [data[id] EXCEPT !.nodes = @ \ {n}, !.succeded = @ + 1])

MayRepeat(id, n) == data[id].attempts[n] < attempts_number

\* The request is repeated with a new StoreRequest whose time_to_live is not set.
Repeat(id, n) ==
  /\ data' = [data EXCEPT ![id].attempts[n] = @ + 1]
  /\ repeated' \in {StoreRequest(data[id].item, ttl) : ttl \in Ttl}
  /\ UNCHANGED <<items, store_requests, store_id_counter, jobs, answered, silent, calls, outcome>>

GiveUp(id, n) ==
  /\ jobs' = jobs \ {<<id, n>>}
  /\ silent' = [silent EXCEPT ![id] = @ \cup {n}]
  /\ repeated' = NoRequest
  /\ UNCHANGED answered
  /\ Settle(id, [data[id] EXCEPT !.nodes = @ \ {n}])

StoreRequestTimeout(id, n) ==
  /\ alive
  /\ <<id, n>> \in jobs
  /\ IF MayRepeat(id, n) THEN Repeat(id, n) ELSE GiveUp(id, n)
  /\ UNCHANGED <<alive, now>>

-----------------------------------------------------------------------------
(* The item store                                                          *)

\* GetRandomRepublishTime and GetRandomRepublishTimeDelta draw from these.
RepublishTimes == republish_time - republish_time_delta .. republish_time + republish_time_delta
RepublishDeltas == 0 .. 2 * republish_time_delta

\* Mutant of Replan: the job there is is not cancelled.
ReplanOnly(i, t) == republish[i] \cup {t}

\* CancelJobsByOwner, AddJob_.
Replan(i, t) == {t}

\* Mutant of Remaining: an item that has expired has no time left.
RemainingIfAny(exp) == IF exp < now THEN 0 ELSE exp - now

\* expiration_time - cur_time, an unsigned difference.
Remaining(exp) == (exp - now) % Width

\* The items that exp and dist describe are handed to the new contact n, those
\* that it is closer to than a node that has them, and those of ours: the keys in
\* the range of the holder, which follows the closest contacts, if we have joined
\* and n is close to us, or else none.
OnNewContact(exp, dist, n, ours) ==
  LET due == {i \in Item : /\ exp[i] # NotStored
                           /\ \/ dist[i] # NotSet /\ Dist[i][n] < dist[i]
                              \/ i \in ours}
  IN  StoreToNode(n, due, [i \in due |-> Remaining(exp[i])], "item")

NewContact(n, ours) ==
  /\ Runs
  /\ OnNewContact(expiration_time, max_distance, n, ours)
  /\ UNCHANGED items

\* Mutant of Later: the last request counts.
LastOf(s, t) == t

Later(s, t) == IF s < t THEN t ELSE s

\* StoreItem, and the sender n may be a new contact.
OnStoreRequest(n, i, ttl) ==
  LET exp == [expiration_time EXCEPT ![i] = Later(@, (now + ttl) % Width)]
      dist == [max_distance EXCEPT ![i] = NotSet]
  IN  /\ Runs
      /\ expiration_time' = exp
      /\ max_distance' = dist
      /\ \E t \in RepublishTimes : republish' = [republish EXCEPT ![i] = Replan(i, now + t)]
      /\ UNCHANGED removed_contacts
      /\ \/ UNCHANGED procedures
         \/ \E ours \in SUBSET Item : OnNewContact(exp, dist, n, ours)

\* Enough close contacts are lost: the items in our own range are republished soon.
OnRemoveContact(ours) ==
  LET enough == removed_contacts + 1 >= republish_treshhold
      soon == IF enough THEN Stored \cap ours ELSE {}
  IN  /\ Runs
      /\ removed_contacts' = IF enough THEN 0 ELSE removed_contacts + 1
      /\ \E t \in [soon -> RepublishDeltas] :
           republish' = [i \in Item |-> IF i \in soon THEN Replan(i, now + t[i]) ELSE republish[i]]
      /\ UNCHANGED <<expiration_time, max_distance, procedures>>

\* Mutant of NextTime: an item is republished only once.
NoNextTime(i, t) == republish[i] \ {now}

NextTime(i, t) == (republish[i] \ {now}) \cup {now + t}

\* An item that has expired is neither republished nor deleted.
RepublishItem(i) ==
  /\ Runs
  /\ now \in republish[i]
  /\ IF now >= expiration_time[i]
       THEN /\ republish' = [republish EXCEPT ![i] = @ \ {now}]
            /\ UNCHANGED procedures
       ELSE /\ Store(i, Remaining(expiration_time[i]), "item")
            /\ \E t \in RepublishTimes : republish' = [republish EXCEPT ![i] = NextTime(i, t)]
  /\ UNCHANGED <<expiration_time, max_distance, removed_contacts>>

-----------------------------------------------------------------------------
(* The node                                                                *)

\* Mutant of TimeoutsOf: the timeouts of the first procedure only.
TimeoutsOfFirst(ps) == {j \in jobs : j[1] = 0}

TimeoutsOf(ps) == {j \in jobs : j[1] \in ps}

\* ~CStore: the items are gone with their jobs.
DeleteStore ==
  /\ expiration_time' = [i \in Item |-> NotStored]
  /\ republish' = [i \in Item |-> {}]

\* TerminateFindRequests, TerminateStoreRequests, and then ~CStore.
Terminate ==
  /\ alive /\ alive' = FALSE /\ repeated' = NoRequest
  /\ Report(Live, "TERMINATED")
  /\ jobs' = jobs \ TimeoutsOf(store_requests)
  /\ DeleteStore
  /\ UNCHANGED <<now, max_distance, removed_contacts, answered, silent>>

\* The scheduler sets the clock forward when no job is due.
Tick ==
  /\ alive /\ repeated' = NoRequest
  /\ now < MaxTime
  /\ \A i \in Item : now \notin republish[i]
  /\ now' = now + 1
  /\ UNCHANGED <<alive, items, procedures>>

\* A search finds K nodes at most.
Found == {ns \in (SUBSET Peer) \ {{}} : Cardinality(ns) <= K}

Next ==
  \/ \E i \in Item, ttl \in Ttl :
       \/ StoreValue(i, ttl)
       \/ \E n \in Peer : StoreToFirstNode(n, i, ttl) \/ OnStoreRequest(n, i, ttl)
  \/ \E id \in StoreId :
       \/ \E ns \in Found : SearchFound(id, ns)
       \/ SearchFailed(id)
       \/ \E n \in Peer : OnStoreResponse(id, n) \/ StoreRequestTimeout(id, n)
  \/ \E ours \in SUBSET Item :
       \/ \E n \in Peer : NewContact(n, ours)
       \/ OnRemoveContact(ours)
  \/ \E i \in Item : RepublishItem(i)
  \/ Tick
  \/ Terminate

Spec == Init /\ [][Next]_vars

\* Searches end (Lookup.tla), and the scheduler runs every timeout not cancelled.
SearchEnds(id) == SearchFailed(id) \/ \E ns \in Found : SearchFound(id, ns)

FairSpec ==
  /\ Spec
  /\ \A id \in StoreId :
       /\ WF_vars(SearchEnds(id))
       /\ \A n \in Peer : WF_vars(StoreRequestTimeout(id, n))

-----------------------------------------------------------------------------
(* Type correctness                                                        *)

Datum ==
  [item : Item, time_to_live : 0 .. Width - 1, caller : {"item", "other"},
   begun : 0 .. MaxTime, nodes : SUBSET Peer, attempts : [Peer -> 0 .. attempts_number],
   succeded : Nat, max_distance : Nat]

\* Every variable holds a value of the type its C++ counterpart is declared with,
\* and no node is asked more often than attempts_number allows.
TypeOK ==
  /\ alive \in BOOLEAN
  /\ now \in 0 .. MaxTime
  /\ expiration_time \in [Item -> {NotStored} \cup 0 .. Width - 1]
  /\ max_distance \in [Item -> {NotSet} \cup Nat]
  /\ republish \in [Item -> SUBSET Nat]
  /\ removed_contacts \in 0 .. republish_treshhold
  /\ data \in [StoreId -> Datum \cup {NoData}]
  /\ store_requests \in SUBSET StoreId
  /\ store_id_counter \in 0 .. MaxStores
  /\ jobs \in SUBSET (StoreId \X Peer)
  /\ answered \in [StoreId -> SUBSET Peer]
  /\ silent \in [StoreId -> SUBSET Peer]
  /\ calls \in [StoreId -> Nat]
  /\ outcome \in [StoreId -> Code]
  /\ repeated \in {NoRequest} \cup {StoreRequest(i, ttl) : i \in Item, ttl \in Ttl}

(* Safety                                                                  *)

\* A timeout is scheduled exactly for the nodes the procedures wait for, also once
\* the node is deleted; it holds raw pointers to both.  And every procedure waits
\* for somebody: one whose set of nodes is empty is never finished.
JobsArePending ==
  /\ jobs = {j \in store_requests \X Peer : j[2] \in data[j[1]].nodes}
  /\ \A id \in store_requests : data[id].nodes # {}

\* The callback of a procedure is called once, when it is over.  It is told
\* SUCCEED if, and only if, a node has answered that was asked and not given up,
\* however often the answers come, unless the node is deleted meanwhile.
ReportsAreHonest ==
  \A id \in StoreId :
    /\ calls[id] = IF id < store_id_counter /\ data[id] = NoData THEN 1 ELSE 0
    /\ outcome[id] \in {"SUCCEED", "FAILED"} => (outcome[id] = "SUCCEED") = (answered[id] # {})
    /\ answered[id] \cap silent[id] = {}
    /\ outcome[id] = "TERMINATED" => ~alive

\* StoreItem, OnRemoveContact and RepublishItem each leave an item one job: a
\* stored item that has not expired will be republished, once, within the longest
\* time between two republications; one of which the store knows nothing will not.
RepublishIsScheduled ==
  \A i \in Item :
    /\ \A t1, t2 \in republish[i] : t1 = t2
    /\ \A t \in republish[i] : t \in now .. now + republish_time + republish_time_delta
    /\ expiration_time[i] = NotStored => republish[i] = {}
    /\ expiration_time[i] > now => republish[i] # {}

\* The receiver of a request counts the time to live from when it gets it: sent
\* now, the copy expires at CopyExpires.
CopyExpires(d) == (now + d.time_to_live) % Width

\* A copy is sent once the search is over, with the time to live of the call.  It
\* never outlives the item by more than the search took, whatever is stored for the
\* item meanwhile, and although the time an expired item has left has wrapped.
CopyOutlivesBySearch ==
  [][\A id \in store_requests' \ store_requests :
       data'[id].caller = "item" =>
         (CopyExpires(data'[id]) - (now - data'[id].begun)) % Width
           <= expiration_time'[data'[id].item]]_vars

\* "Repeat request" (kad_node.cpp:560): the request sent after a timeout is the one
\* that had no answer.
RepeatsAreSame ==
  [][\A id \in StoreId, n \in Peer :
       StoreRequestTimeout(id, n) /\ repeated' # NoRequest =>
         repeated' = StoreRequest(data[id].item, data[id].time_to_live)]_vars

(* What a procedure promises                                               *)

\* The search for the nodes to ask is not part of the promise.
Abs == INSTANCE AskAll WITH
  Procedure <- StoreId,
  phase <- [id \in StoreId |-> IF id \in store_requests THEN "asking"
                               ELSE IF calls[id] > 0 THEN "over" ELSE "unused"],
  waiting <- [id \in StoreId |-> data[id].nodes]

\* A store procedure asks a set of nodes, hears from each or gives it up, once,
\* and is over with the last one, whatever happens to the other procedures.
ImplementsAskAll == Abs!Spec

(* Liveness                                                                *)

\* Every store procedure calls back, even if no node ever answers.
EveryStoreEnds == \A id \in StoreId : id < store_id_counter ~> calls[id] > 0
=============================================================================
