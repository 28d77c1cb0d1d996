----------------------------- MODULE Simulator -----------------------------
(***************************************************************************)
(* CSimulator and CTransport (simulator.cpp), with the join procedures of  *)
(* the nodes (Joining.tla).                                                *)
(*                                                                         *)
(* The nodes come and go.  ActivateNode makes a new one that joins by the  *)
(* contacts its predecessor of the same address had saved; when it has     *)
(* joined, it stores its share of the values and, from then on, looks up   *)
(* one of them from time to time; DeactivateNode saves its contacts,       *)
(* cancels its jobs and deletes it.  The supernode is always there.        *)
(*                                                                         *)
(* The transport delivers a message to whatever node has the address when  *)
(* it arrives, after any delay, or loses it.  Of the messages, those of    *)
(* the join procedures are modelled: pings, and what a search changes.     *)
(***************************************************************************)
EXTENDS Joining

CONSTANTS
  Addr,             \* the addresses of the nodes that come and go
  supernode,        \* the address of the supernode
  values_per_node,
  values_total,
  NoNode,           \* for an address that no node has
  MaxActivations    \* bound: activations of each node in a history

Everyone == Addr \cup {supernode}

ASSUME SimulatorAssumption ==
  /\ IsFiniteSet(Addr)
  /\ supernode \notin Addr
  /\ values_per_node \in Nat
  /\ values_total = values_per_node * Cardinality(Addr)
  /\ MaxActivations \in [Addr -> Nat]
  /\ NoNode \notin Node(Everyone)

\* The jobs in the scheduler that the simulator adds for a node.
ActivateJob(a, bootstrap_contacts) ==
  [do |-> "ActivateNode", node |-> a, bootstrap_contacts |-> bootstrap_contacts]
DeactivateJob(a) == [do |-> "DeactivateNode", node |-> a]
CheckJob(a) == [do |-> "CheckRandomValue", node |-> a]

Message(type, from, to, id) == [type |-> type, from |-> from, to |-> to, id |-> id]

VARIABLES
  nodes,           \* of the transport, without the supernode
  contacts,        \* of the routing table of each node
  jobs,            \* those of the simulator
  network,         \* the messages under way, a bag: a request that is sent again may
                   \* be there more than once, and its answer too
  values_counter,
  stored,          \* the pairs of a node and a value it was told to store
  looked_up,       \* the value looked up last
  left,            \* the nodes that were deleted with a search left
  aborted,         \* an assertion has stopped the program
  activations      \* of each node so far

values == <<values_counter, stored, looked_up>>
vars == <<nodes, contacts, jobs, network, values, left, aborted, activations>>

\* No value was looked up.
NoValue == -1

Active == {a \in Addr : nodes[a] # NoNode}

Init ==
  /\ nodes = [a \in Addr |-> NoNode]
  /\ contacts = [a \in Addr |-> {}]
  /\ jobs = {ActivateJob(a, <<supernode>>) : a \in Addr}
  /\ network = EmptyBag
  /\ values_counter = values_total
  /\ stored = {}
  /\ looked_up = NoValue
  /\ left = {}
  /\ aborted = FALSE
  /\ activations = [a \in Addr |-> 0]

\* The messages ms are under way.  Nothing depends on a message but its arrival: one
\* that is lost is one that stays under way for ever.
Send(ms) == network' = network (+) SetToBag(ms)

PingRequests(a, pings) == {Message("PingRequest", a, p[2], p[1]) : p \in pings}

-----------------------------------------------------------------------------
(* The nodes come and go                                                   *)

\* A second node of an address is not added; JobsFitNodes says that there is none.
AddNode(a, nd) == IF a \in Active THEN nodes ELSE [nodes EXCEPT ![a] = nd]
RemoveNode(a) == [nodes EXCEPT ![a] = NoNode]

ActivateNode(a) ==
  \E job \in jobs :
    /\ ~aborted
    /\ job.do = "ActivateNode" /\ job.node = a
    /\ activations[a] < MaxActivations[a]
    /\ activations' = [activations EXCEPT ![a] = @ + 1]
    /\ LET nd == JoinNetwork(IF job.bootstrap_contacts = <<>> THEN <<supernode>>
                                                             ELSE job.bootstrap_contacts)
       IN  /\ nodes' = AddNode(a, nd)
           /\ Send(PingRequests(a, nd.pings))
    /\ jobs' = (jobs \ {job}) \cup {DeactivateJob(a)}
    /\ UNCHANGED <<contacts, values, left, aborted>>

\* Mutant of OwnedBy: the look-ups go on.
OwnedByButLookUps(a) == {DeactivateJob(a)}

\* The jobs that CancelJobsByOwner(node) cancels, and the one that is running.
OwnedBy(a) == {DeactivateJob(a), CheckJob(a)}

\* The contacts are saved in the order of the table, which may be any.
SaveBootstrapContacts(a) == SetToSeqs(contacts[a])

\* A node starts its first search, or tries it again if it ends without success.
StartsSearch(nd, new) == nd.search = "none" /\ new.search # "none"
TriesAgain(nd) == nd.search = "again"

\* If a starts a search: CreateFindData asserts that its table is not empty.
Aborts(a, starts) == starts /\ contacts[a] = {}

DeactivateNode(a) ==
  /\ ~aborted
  /\ DeactivateJob(a) \in jobs
  /\ \E bootstrap_contacts \in SaveBootstrapContacts(a) :
       jobs' = (jobs \ OwnedBy(a)) \cup {ActivateJob(a, bootstrap_contacts)}
  /\ \E followed \in BOOLEAN :
       LET pinged == TerminatePingRequests(nodes[a])
           end == Terminate(nodes[a], followed)
       IN  /\ left' = IF end.search # "none" THEN left \cup {a} ELSE left
           /\ aborted' = Aborts(a, StartsSearch(nodes[a], pinged) \/ TriesAgain(pinged))
  /\ Send(PingRequests(a, Range(Further(nodes[a]))))
  /\ nodes' = RemoveNode(a)
  /\ contacts' = [contacts EXCEPT ![a] = {}]
  /\ UNCHANGED <<values, activations>>

-----------------------------------------------------------------------------
(* The join procedure, and what the simulator does when it calls back      *)

\* The values a node stores: the next ones from values_counter down.
Share ==
  LET n == IF values_counter < values_per_node THEN values_counter ELSE values_per_node
  IN  values_counter - n + 1 .. values_counter

\* Mutant of StartNodeLoop: the values are not counted.
LoopNotCounted(a, code) ==
  IF code = "FAILED" THEN UNCHANGED <<stored, values_counter, jobs>>
  ELSE /\ stored' = stored \cup ({a} \X Share)
       /\ jobs' = jobs \cup {CheckJob(a)}
       /\ UNCHANGED values_counter

StartNodeLoop(a, code) ==
  IF code = "FAILED" THEN UNCHANGED <<stored, values_counter, jobs>>
  ELSE /\ stored' = stored \cup ({a} \X Share)
       /\ values_counter' = values_counter - Cardinality(Share)
       /\ jobs' = jobs \cup {CheckJob(a)}

\* The node a becomes nd; StartNodeLoop if join_callback_ was called.
Becomes(a, nd) ==
  /\ nodes' = [nodes EXCEPT ![a] = nd]
  /\ IF nd.calls # nodes[a].calls THEN StartNodeLoop(a, Last(nd.calls))
                                  ELSE UNCHANGED <<stored, values_counter, jobs>>
  /\ UNCHANGED <<looked_up, left, activations>>

\* The request is sent again, or the ping is given up.
PingRequestTimeout(a, p) ==
  /\ ~aborted /\ a \in Active /\ p \in nodes[a].pings
  /\ LET nd == Join_PingCallback(nodes[a], p, "FAILED")
     IN  \/ /\ Attempts(nodes[a], p) < attempts_number
            /\ Becomes(a, PingRepeated(nodes[a], p))
            /\ Send(PingRequests(a, {p}))
            /\ UNCHANGED aborted
         \/ /\ Attempts(nodes[a], p) >= attempts_number
            /\ Becomes(a, nd)
            /\ Send(PingRequests(a, nd.pings \ nodes[a].pings))
            /\ aborted' = Aborts(a, StartsSearch(nodes[a], nd))
  /\ UNCHANGED contacts

\* The search for the own id has found nodes, which are contacts then; or it has
\* found all the nodes it asked silent, which it removes from the table after it
\* has called back, and perhaps was tried again with them.
SearchEnds(a) ==
  /\ ~aborted /\ a \in Active /\ nodes[a].search # "none"
  /\ \/ /\ Becomes(a, Join_FindNodeCallback(nodes[a], "SUCCEED"))
        /\ \E found \in SUBSET (Everyone \ {a}) \ {{}} :
             contacts' = [contacts EXCEPT ![a] = @ \cup found]
        /\ UNCHANGED aborted
     \/ /\ Becomes(a, Join_FindNodeCallback(nodes[a], "FAILED"))
        /\ aborted' = Aborts(a, TriesAgain(nodes[a]))
        /\ \E silent \in SUBSET contacts[a] : contacts' = [contacts EXCEPT ![a] = @ \ silent]
  /\ UNCHANGED network

-----------------------------------------------------------------------------
(* Messages                                                                *)

\* UpdateRoutingTable: the sender is a contact then.
Heard(m) ==
  IF m.to = supernode THEN contacts ELSE [contacts EXCEPT ![m.to] = @ \cup {m.from}]

\* The message m arrives, and answers are sent.
Arrives(m, answers) == network' = (network (-) SetToBag({m})) (+) SetToBag(answers)

\* DoPingRequest.  The node answers before it looks who has asked.
DoPingRequest(m) ==
  /\ ~aborted /\ m.type = "PingRequest"
  /\ IF m.to \in Active \cup {supernode}
       THEN /\ Arrives(m, {Message("PingResponse", m.to, m.from, m.id)})
            /\ contacts' = Heard(m)
       ELSE Arrives(m, {}) /\ UNCHANGED contacts
  /\ UNCHANGED <<nodes, jobs, values, left, aborted, activations>>

\* OnPingResponse: m answers the ping p, by its id, and comes from where p went to;
\* it may be an answer to a former node of the same address.
IsAnswerTo(m, p) == p = <<m.id, m.from>>

DoPingResponse(m) ==
  /\ ~aborted /\ m.type = "PingResponse"
  /\ IF m.to \in Active
       THEN /\ contacts' = Heard(m)
            /\ IF \E p \in nodes[m.to].pings : IsAnswerTo(m, p)
                 THEN LET p == CHOOSE p \in nodes[m.to].pings : IsAnswerTo(m, p)
                          nd == Join_PingCallback(nodes[m.to], p, "SUCCEED")
                      IN  /\ Becomes(m.to, nd)
                          /\ Arrives(m, PingRequests(m.to, nd.pings \ nodes[m.to].pings))
                 ELSE Arrives(m, {}) /\ UNCHANGED <<nodes, jobs, values, left, activations>>
       ELSE Arrives(m, {}) /\ UNCHANGED <<nodes, contacts, jobs, values, left, activations>>
  /\ UNCHANGED aborted

-----------------------------------------------------------------------------

\* What CheckRandomValue may look up: nothing until all values are stored.
\* They are counted from values_total down to 1, but drawn from 0 up.
LookedUp == IF values_counter > 0 THEN {looked_up} ELSE 0 .. values_total - 1

\* The job adds itself again.
CheckRandomValue(a) ==
  /\ ~aborted /\ CheckJob(a) \in jobs
  /\ looked_up' \in LookedUp
  /\ UNCHANGED <<nodes, contacts, jobs, network, values_counter, stored, left, aborted, activations>>

\* A list of bootstrap contacts names none twice: these are the rpc ids of its pings.
PingId == 0 .. Cardinality(Everyone) - 1

Next ==
  \/ \E a \in Addr :
       \/ ActivateNode(a)
       \/ DeactivateNode(a)
       \/ SearchEnds(a)
       \/ CheckRandomValue(a)
       \/ \E p \in PingId \X Everyone : PingRequestTimeout(a, p)
  \/ \E m \in BagToSet(network) : DoPingRequest(m)
  \/ \E m \in BagToSet(network) : DoPingResponse(m)

Spec == Init /\ [][Next]_vars

-----------------------------------------------------------------------------
(* Type correctness                                                        *)

\* Every variable holds a value of the type its C++ counterpart is declared with.
TypeOK ==
  /\ nodes \in [Addr -> Node(Everyone) \cup {NoNode}]
  /\ contacts \in [Addr -> SUBSET Everyone]
  /\ jobs \subseteq [do : {"ActivateNode"}, node : Addr, bootstrap_contacts : Seq(Everyone)]
                  \cup [do : {"DeactivateNode", "CheckRandomValue"}, node : Addr]
  /\ BagToSet(network) \subseteq
       [type : {"PingRequest", "PingResponse"}, from : Everyone, to : Everyone, id : Nat]
  /\ values_counter \in 0 .. values_total
  /\ stored \subseteq Addr \X (1 .. values_total)
  /\ looked_up \in {NoValue} \cup 0 .. values_total - 1
  /\ left \subseteq Addr
  /\ aborted \in BOOLEAN
  /\ activations \in [Addr -> Nat]

(* Safety                                                                  *)

\* Each address has one node or one job that will make one, so that AddNode never
\* finds another; the node has one job that ends it, and looks up values exactly if
\* it has joined.  No job holds a pointer to a deleted node.
JobsFitNodes ==
  /\ \A a \in Addr :
       Cardinality({j \in jobs : j.do = "ActivateNode" /\ j.node = a}) =
         IF a \in Active THEN 0 ELSE 1
  /\ {j \in jobs : j.do # "ActivateNode"} =
       {DeactivateJob(a) : a \in Active}
         \cup {CheckJob(a) : a \in {b \in Active : nodes[b].join_state = "JOINED"}}

\* join_pinging_nodesN counts the pings under way, in whatever way they end, also once
\* the list is empty and the search has begun; there are never more than alpha, and
\* while there are contacts left never fewer: none is forgotten.
PingingIsCounted ==
  \A a \in Active :
    /\ nodes[a].join_pinging_nodesN = Cardinality(nodes[a].pings)
    /\ nodes[a].join_pinging_nodesN <= alpha
    /\ nodes[a].join_bootstrap_contacts # <<>> => nodes[a].join_pinging_nodesN = alpha

\* A node joins once, whatever was called back before, and hears no more of it then.
SucceedIsLast ==
  \A a \in Active :
    LET calls == nodes[a].calls
    IN  \A n \in 1 .. Len(calls) :
          calls[n] = "SUCCEED" <=> n = Len(calls) /\ nodes[a].join_state = "JOINED"

\* Every value is stored by one node, and none is looked up before all are.
ValuesAreStoredOnce ==
  /\ \A v \in 1 .. values_total :
       Cardinality({a \in Addr : <<a, v>> \in stored}) = IF v > values_counter THEN 1 ELSE 0
  /\ looked_up # NoValue => values_counter = 0

\* A deleted node leaves a search, with its timeouts, only if the search of its join
\* procedure was to be tried again; in every other state it leaves none.
OnlyTheJoinSearchIsLeft ==
  [][\A a \in left' \ left : nodes[a].search = "again"]_vars

\* The join procedure of a node is never stuck: a node that has not joined pings, or
\* searches, or the last thing it has called back is that it has failed.
JoinGoesOn ==
  \A a \in Active :
    LET nd == nodes[a]
    IN  \/ nd.join_state = "JOINED"
        \/ nd.pings # {} \/ nd.search # "none"
        \/ nd.calls # <<>> /\ Last(nd.calls) = "FAILED"
=============================================================================
