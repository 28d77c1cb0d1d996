------------------------------- MODULE Pings -------------------------------
(***************************************************************************)
(* The contact check of one CKadNode (kad_node.cpp): every message makes   *)
(* its sender a contact.  If the sender's bucket is full, the contact of   *)
(* that bucket that was seen least recently is pinged, and replaced by the *)
(* sender if it is silent.  A node that others report as down is pinged    *)
(* too, and removed if it is silent.                                       *)
(*                                                                         *)
(* The peers here are those of one bucket of the routing table that is     *)
(* never split and is no brother bucket of the holder (RoutingTable has    *)
(* the others).  The node may be deactivated and activated again           *)
(* (simulator.cpp): it forgets everything and counts its rpc ids from 0,   *)
(* while answers to its former pings are still under way.                  *)
(***************************************************************************)
EXTENDS Integers, FiniteSets, Sequences

CONSTANTS
  Peer,             \* the nodes of one bucket
  NoOne,            \* no node
  K,                \* capacity of a bucket
  attempts_number,  \* how often a silent node is pinged again
  min_rt_check_time_interval,
  MaxDown,          \* bound: nodes reported by one downlist request
  MaxPings,         \* bound: pings of one instance of the node
  MaxRestarts,      \* bound: how often the node is activated again
  MaxTime           \* bound: the last time stamp

ASSUME PingsAssumption ==
  /\ IsFiniteSet(Peer)
  /\ NoOne \notin Peer
  /\ K \in Nat \ {0}
  /\ attempts_number \in Nat
  /\ min_rt_check_time_interval \in Nat
  /\ MaxDown \in Nat
  /\ MaxPings \in Nat
  /\ MaxRestarts \in Nat
  /\ MaxTime \in Nat

PingId == 0 .. MaxPings - 1

\* PingRequestData: new is the contact that DoAddContact will add, NoOne if
\* the callback is DoRemoveContact.
Ping == [to : Peer, new : Peer \cup {NoOne}, attempts : 0 .. attempts_number]
NoPing == [to |-> NoOne, new |-> NoOne, attempts |-> 0]

\* The nodes a downlist request may report.
DownNodes == {d \in SUBSET Peer : Cardinality(d) <= MaxDown}

VARIABLES
  contacts,            \* the contacts of the bucket
  last_seen,           \* Contact::last_seen, 0 for a node that is no contact
  now,                 \* GetCurrentTime
  ping_requests,       \* the ping with each id, NoPing if none is under way
  ping_id_counter,
  jobs,                \* the pings with a timeout in the scheduler
  last_seen_contacts,  \* the contacts being checked
  told,                \* calls of OnNewContact less those of OnRemoveContact
  asked,               \* <<id, p>> if p was ever sent a ping request with that id
  heard,               \* who sent the ping response being handled, or NoOne
  restarts

table == <<contacts, last_seen, told>>
pinging == <<ping_requests, ping_id_counter, jobs, last_seen_contacts, asked>>
vars == <<table, pinging, now, heard, restarts>>

Init ==
  /\ contacts = {}
  /\ last_seen = [p \in Peer |-> 0]
  /\ now = 0
  /\ ping_requests = [id \in PingId |-> NoPing]
  /\ ping_id_counter = 0
  /\ jobs = {}
  /\ last_seen_contacts = {}
  /\ told = [p \in Peer |-> 0]
  /\ asked = {}
  /\ heard = NoOne
  /\ restarts = 0

Pending == {id \in PingId : ping_requests[id] # NoPing}

\* The pings that check a contact, those that wait for DoAddContact.
Checks == {id \in Pending : ping_requests[id].new # NoOne}

-----------------------------------------------------------------------------
(* Pings                                                                   *)

To(q, n) == [to |-> q, new |-> n, attempts |-> 0]

\* The ids of the next pings, those of the list begun.
NewIds(begun) == ping_id_counter .. ping_id_counter + Len(begun) - 1

\* ping_requests once they are begun.
With(begun) ==
  [id \in PingId |-> IF id \in NewIds(begun) THEN begun[id - ping_id_counter + 1]
                     ELSE ping_requests[id]]

\* Mutant of Checked: the check is never taken from last_seen_contacts.
NoneChecked(pings, ended) == {}

\* The contacts whose check ends with the pings ended.
Checked(pings, ended) == {pings[id].to : id \in {i \in ended : pings[i].new # NoOne}}

\* What a handler does to the pings: it begins some, in the order given, and then ends
\* some, whose callback takes them from last_seen_contacts.
Pinging(begun, ended) ==
  /\ ping_id_counter + Len(begun) <= MaxPings
  /\ ping_id_counter' = ping_id_counter + Len(begun)
  /\ ping_requests' = [id \in PingId |-> IF id \in ended THEN NoPing ELSE With(begun)[id]]
  /\ jobs' = (jobs \cup NewIds(begun)) \ ended
  /\ last_seen_contacts' =
       (last_seen_contacts \cup {begun[i].to : i \in {j \in DOMAIN begun : begun[j].new # NoOne}})
         \ Checked(With(begun), ended)
  /\ asked' = asked \cup {<<id, With(begun)[id].to>> : id \in NewIds(begun)}

-----------------------------------------------------------------------------
(* The routing table                                                       *)

IsFull(c) == Cardinality(c) >= K

\* CKbucket::AddContact refuses even a contact it holds if it is full.
AddContact(c, p) == IF IsFull(c) THEN c ELSE c \cup {p}

\* The time stamps once the bucket holds c and has been offered p: it was
\* stamped unless it was refused.
Stamps(c, p, refused) ==
  [q \in Peer |-> IF q = p /\ ~refused THEN now ELSE IF q \in c THEN last_seen[q] ELSE 0]

\* Mutant of Notices: the store is not told of the contact that was removed.
NoticesOfNew(before, after, p) ==
  [q \in Peer |-> IF q = p /\ p \in after \ before THEN 1 ELSE 0]

\* The calls of OnNewContact(p) and OnRemoveContact that go with a change of the
\* contacts: between the two, p may have been added and something else removed.
Notices(before, after, p) ==
  [q \in Peer |-> IF q = p /\ p \in after \ before THEN 1
                  ELSE IF q \in before \ after THEN -1 ELSE 0]

Tell(notice) == told' = [q \in Peer |-> told[q] + notice[q]]

LastSeen == {q \in contacts : \A r \in contacts : last_seen[q] <= last_seen[r]}

\* Mutant of IsDue: a contact that is being checked is checked again.
IsStale(q) == last_seen[q] + min_rt_check_time_interval < now

IsDue(q) == last_seen[q] + min_rt_check_time_interval < now /\ q \notin last_seen_contacts

\* UpdateRoutingTable(p): p is offered to the bucket...
OfferContact(p) ==
  /\ contacts' = AddContact(contacts, p)
  /\ last_seen' = Stamps(contacts, p, IsFull(contacts))
  /\ Tell(Notices(contacts, AddContact(contacts, p), p))
  /\ UNCHANGED <<now, restarts>>

\* ... and if the bucket is full, its last seen contact is checked on behalf of p.
Check(p) ==
  IF IsFull(contacts)
    THEN {IF IsDue(q) THEN <<To(q, p)>> ELSE <<>> : q \in LastSeen}
    ELSE {<<>>}

-----------------------------------------------------------------------------
(* Handlers                                                                *)

\* Any request of p but a downlist request, and any answer but one to a ping.
Hear(p) ==
  /\ heard' = NoOne
  /\ OfferContact(p)
  /\ \E check \in Check(p) : Pinging(check, {})

\* The orders in which the nodes of d may be listed.
Lists(d) ==
  {l \in [1 .. Cardinality(d) -> d] : \A i, j \in DOMAIN l : i # j => l[i] # l[j]}

\* The nodes reported that are contacts are pinged one after the other.
OnDownlistRequest(p, down_nodes) ==
  /\ heard' = NoOne
  /\ OfferContact(p)
  /\ \E known \in Lists(down_nodes \cap contacts), check \in Check(p) :
       Pinging([i \in DOMAIN known |-> To(known[i], NoOne)] \o check, {})

\* Mutant of Answers: the address is not compared.
AnswersAny(pings, id, p) == IF pings[id] = NoPing THEN {} ELSE {id}

\* The pings that a response of p to the ping id ends.
Answers(pings, id, p) == IF pings[id].to = p THEN {id} ELSE {}

\* The response may be late, repeated, or to a ping of a former instance.  The last may
\* end the very check that it begins: the ping is looked up after UpdateRoutingTable.
OnPingResponse(id, p) ==
  /\ <<id, p>> \in asked
  /\ heard' = p
  /\ OfferContact(p)
  /\ \E check \in Check(p) : Pinging(check, Answers(With(check), id, p))

\* Mutant of Replaced: the new contact is added before the silent one is removed.
ReplacedTooEarly(q, n) == IF n = NoOne THEN contacts \ {q} ELSE AddContact(contacts, n) \ {q}

\* DoAddContact and DoRemoveContact when q has been silent.
Replaced(q, n) == IF n = NoOne THEN contacts \ {q} ELSE AddContact(contacts \ {q}, n)

\* The last timeout of a ping to q, on behalf of n.
GiveUp(id, q, n) ==
  LET before == contacts \ {q} IN
  /\ contacts' = Replaced(q, n)
  /\ last_seen' = Stamps(before, n, IsFull(before))
  /\ Tell(Notices(contacts, Replaced(q, n), n))
  /\ Pinging(<<>>, {id})

Repeat(id) ==
  /\ ping_requests' = [ping_requests EXCEPT ![id].attempts = @ + 1]
  /\ UNCHANGED <<table, ping_id_counter, jobs, last_seen_contacts, asked>>

MayRepeat(id) == ping_requests[id].attempts < attempts_number

PingRequestTimeout(id) ==
  /\ id \in jobs
  /\ heard' = NoOne
  /\ IF MayRepeat(id)
       THEN Repeat(id)
       ELSE GiveUp(id, ping_requests[id].to, ping_requests[id].new)
  /\ UNCHANGED <<now, restarts>>

\* Mutant of Terminated: the timeouts are left in the scheduler.
NoneTerminated == {}

\* TerminatePingRequests cancels the timeouts of the pings under way.
Terminated == Pending

\* CSimulator::DeactivateNode, and later ActivateNode.
Restart ==
  /\ restarts < MaxRestarts
  /\ restarts' = restarts + 1
  /\ contacts' = {}
  /\ last_seen' = [p \in Peer |-> 0]
  /\ told' = [p \in Peer |-> 0]
  /\ ping_requests' = [id \in PingId |-> NoPing]
  /\ ping_id_counter' = 0
  /\ jobs' = jobs \ Terminated
  /\ last_seen_contacts' = {}
  /\ heard' = NoOne
  /\ UNCHANGED <<now, asked>>

Tick ==
  /\ now < MaxTime
  /\ now' = now + 1
  /\ heard' = NoOne
  /\ UNCHANGED <<table, pinging, restarts>>

Next ==
  \/ \E p \in Peer :
       \/ Hear(p)
       \/ \E d \in DownNodes : OnDownlistRequest(p, d)
       \/ \E id \in PingId : OnPingResponse(id, p)
  \/ \E id \in PingId : PingRequestTimeout(id)
  \/ Restart
  \/ Tick

Spec == Init /\ [][Next]_vars

\* The scheduler runs every timeout that is not cancelled.
FairSpec == Spec /\ \A id \in PingId : WF_vars(PingRequestTimeout(id))

-----------------------------------------------------------------------------
(* Type correctness                                                        *)

\* Every variable holds a value of the type its C++ counterpart is declared with,
\* and the bucket never holds more than K contacts.
TypeOK ==
  /\ contacts \in SUBSET Peer
  /\ Cardinality(contacts) <= K
  /\ last_seen \in [Peer -> 0 .. MaxTime]
  /\ now \in 0 .. MaxTime
  /\ ping_requests \in [PingId -> Ping \cup {NoPing}]
  /\ ping_id_counter \in 0 .. MaxPings
  /\ jobs \in SUBSET PingId
  /\ last_seen_contacts \in SUBSET Peer
  /\ told \in [Peer -> Int]
  /\ asked \in SUBSET (PingId \X Peer)
  /\ heard \in Peer \cup {NoOne}
  /\ restarts \in 0 .. MaxRestarts

(* Safety                                                                  *)

\* A timeout is scheduled exactly for the pings under way, also after the node was
\* deactivated: none is left that holds a pointer to a node that is gone, and no
\* ping waits without one.
JobsArePending == jobs = Pending

\* The contacts in last_seen_contacts are those whose check is under way, and each
\* is checked once: none stays there when its check ends, however it ends, which
\* would keep it from ever being checked again.
ChecksArePending ==
  \A q \in Peer :
    Cardinality({id \in Checks : ping_requests[id].to = q}) =
      IF q \in last_seen_contacts THEN 1 ELSE 0

\* The item store has been told of every contact that came or went, once: what it
\* was told adds up to the contacts of the bucket.
NoticesAddUp == \A p \in Peer : told[p] = IF p \in contacts THEN 1 ELSE 0

Ended(id) == id \in Pending /\ ping_requests'[id] = NoPing /\ restarts' = restarts
IsSilent(id) == ping_requests[id].attempts = attempts_number /\ heard' = NoOne

\* A ping ends because the node it went to has answered it, this instance or a
\* former one, or because that node left attempts_number + 1 requests unanswered;
\* and only such a silent node is ever removed from the bucket.  An answer of
\* another node to a ping of a former instance with the same id does not count.
EndsAreJustified ==
  [][/\ \A id \in PingId : Ended(id) => heard' = ping_requests[id].to \/ IsSilent(id)
     /\ \A q \in contacts \ contacts' :
          \/ restarts' # restarts
          \/ \E id \in PingId : Ended(id) /\ IsSilent(id) /\ ping_requests[id].to = q]_vars

\* When a check finds its contact silent, the place is not left empty: the new
\* contact has it, unless others have filled the bucket meanwhile.
PlaceIsTaken ==
  [][\A id \in Checks :
       Ended(id) /\ IsSilent(id) => ping_requests[id].new \in contacts' \/ IsFull(contacts')]_vars

\* "last_seen_contact is down" (kad_node.cpp:123): when its check ends so, it is no
\* longer a contact.
DownIsRemoved ==
  [][\A id \in Checks : Ended(id) /\ IsSilent(id) => ping_requests[id].to \notin contacts']_vars

(* Liveness                                                                *)

\* The check of a contact ends, even if nobody ever answers.
EveryCheckEnds == \A q \in Peer : q \in last_seen_contacts ~> q \notin last_seen_contacts
=============================================================================
