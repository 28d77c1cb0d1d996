---------------------------- MODULE Pings_proofs ----------------------------
(***************************************************************************)
(* The contact check of Pings, for any peers, capacities, repetitions and  *)
(* number of restarts: every ping has its timeout, every contact in        *)
(* last_seen_contacts has its one check, the item store has been told of   *)
(* every change, and a contact is only lost to silence.                    *)
(*                                                                         *)
(* All handlers end in Pinging, so the main lemma (PingingIInv) is about   *)
(* it: pings with fresh ids are begun, and of the checks among them none   *)
(* is of a contact that is being checked.                                  *)
(***************************************************************************)
EXTENDS Pings, FiniteSetTheorems, SequenceTheorems, TLAPS

\* The ids from the counter on are unused: a new ping overwrites none.
FreshAreUnused == \A id \in PingId : id >= ping_id_counter => ping_requests[id] = NoPing

\* ChecksArePending without counting.
CheckedOnce ==
  /\ \A q \in Peer : q \in last_seen_contacts <=> \E id \in Checks : ping_requests[id].to = q
  /\ \A i, j \in Checks : ping_requests[i].to = ping_requests[j].to => i = j

IInv == TypeOK /\ JobsArePending /\ CheckedOnce /\ NoticesAddUp /\ FreshAreUnused

\* Pings as they are begun.
NewPing == [to : Peer, new : Peer \cup {NoOne}, attempts : {0}]

\* The type invariant of the pings alone.
PingsOK ==
  /\ ping_requests \in [PingId -> Ping \cup {NoPing}]
  /\ ping_id_counter \in 0 .. MaxPings
  /\ jobs \in SUBSET PingId
  /\ last_seen_contacts \in SUBSET Peer
  /\ asked \in SUBSET (PingId \X Peer)

\* The type invariant of the table alone.
TableOK ==
  /\ contacts \in SUBSET Peer
  /\ Cardinality(contacts) <= K
  /\ last_seen \in [Peer -> 0 .. MaxTime]
  /\ told \in [Peer -> Int]

USE PingsAssumption

LEMMA NoPingIsNone == NoPing \notin Ping /\ NewPing \subseteq Ping /\ NoPing \notin NewPing
  BY DEF NoPing, Ping, NewPing

LEMMA InitIInv == Init => IInv
<1> SUFFICES ASSUME Init PROVE IInv
  OBVIOUS
<1>1. Pending = {} /\ Checks = {}
  BY DEF Init, Pending, Checks
<1>2. Cardinality({}) = 0
  BY FS_EmptySet
<1>3. TypeOK
  BY <1>2 DEF Init, TypeOK
<1> QED
  BY <1>1, <1>3 DEF Init, IInv, JobsArePending, CheckedOnce, NoticesAddUp, FreshAreUnused

-----------------------------------------------------------------------------
(* The pings                                                               *)

\* CheckedOnce of any pings: checked has the contacts of their checks, each once.
Once(pings, checked) ==
  /\ \A q \in Peer : q \in checked <=> \E id \in PingId : pings[id].new # NoOne /\ pings[id].to = q
  /\ \A i, j \in PingId :
       pings[i].new # NoOne /\ pings[j].new # NoOne /\ pings[i].to = pings[j].to => i = j

\* The contacts of the checks in a list of pings.
NewlyChecked(begun) == {begun[i].to : i \in {j \in DOMAIN begun : begun[j].new # NoOne}}

\* What handlers may begin: checks of contacts that are not being checked, one at most.
MayBegin(begun) ==
  /\ begun \in Seq(NewPing)
  /\ \A i \in DOMAIN begun : begun[i].new # NoOne => begun[i].to \notin last_seen_contacts
  /\ \A i, j \in DOMAIN begun : begun[i].new # NoOne /\ begun[j].new # NoOne => i = j
  /\ ping_id_counter + Len(begun) <= MaxPings

LEMMA OnceIsCheckedOnce == CheckedOnce <=> Once(ping_requests, last_seen_contacts)
<1>1. \A id \in PingId : id \in Checks <=> ping_requests[id].new # NoOne
  BY DEF Checks, Pending, NoPing
<1>2. Checks \subseteq PingId
  BY DEF Checks, Pending
<1> QED
  BY <1>1, <1>2 DEF CheckedOnce, Once

\* The pings that are begun take unused ids and leave the others as they are.
LEMMA BegunPings ==
  ASSUME IInv, NEW begun, MayBegin(begun)
  PROVE  /\ NewIds(begun) \subseteq PingId
         /\ ping_id_counter + Len(begun) \in 0 .. MaxPings
         /\ With(begun) \in [PingId -> Ping \cup {NoPing}]
         /\ \A id \in NewIds(begun) : /\ ping_requests[id] = NoPing
                                      /\ id - ping_id_counter + 1 \in DOMAIN begun
                                      /\ With(begun)[id] = begun[id - ping_id_counter + 1]
                                      /\ With(begun)[id] \in NewPing
         /\ \A id \in PingId \ NewIds(begun) : With(begun)[id] = ping_requests[id]
         /\ \A id \in PingId : id >= ping_id_counter + Len(begun) => With(begun)[id] = NoPing
<1> DEFINE c == ping_id_counter
<1>1. /\ c \in Nat /\ Len(begun) \in Nat /\ c + Len(begun) <= MaxPings
      /\ NewIds(begun) \subseteq PingId
      /\ \A id \in NewIds(begun) : id - c + 1 \in DOMAIN begun /\ begun[id - c + 1] \in NewPing
  BY DEF MayBegin, IInv, TypeOK, PingId, NewIds
<1>2. \A id \in NewIds(begun) : ping_requests[id] = NoPing
  BY <1>1 DEF IInv, FreshAreUnused, NewIds
<1>3. /\ \A id \in NewIds(begun) : With(begun)[id] = begun[id - c + 1]
      /\ \A id \in PingId \ NewIds(begun) : With(begun)[id] = ping_requests[id]
  BY <1>1 DEF With
<1>4. With(begun) \in [PingId -> Ping \cup {NoPing}]
  BY <1>1, NoPingIsNone DEF With, IInv, TypeOK
<1>5. \A id \in PingId : id >= c + Len(begun) => With(begun)[id] = NoPing
  BY <1>1, <1>3 DEF IInv, FreshAreUnused, NewIds, PingId
<1> QED
  BY <1>1, <1>2, <1>3, <1>4, <1>5

LEMMA BegunOnce ==
  ASSUME IInv, NEW begun, MayBegin(begun)
  PROVE  Once(With(begun), last_seen_contacts \cup NewlyChecked(begun))
<1> DEFINE pings == With(begun)
           new == NewIds(begun)
           at(id) == id - ping_id_counter + 1
<1>1. /\ \A id \in new : ping_requests[id] = NoPing /\ at(id) \in DOMAIN begun /\ pings[id] = begun[at(id)]
      /\ \A id \in PingId \ new : pings[id] = ping_requests[id]
      /\ new \subseteq PingId
  BY BegunPings
<1>2. \A i \in DOMAIN begun : ping_id_counter + i - 1 \in new /\ at(ping_id_counter + i - 1) = i
  BY DEF MayBegin, NewIds, IInv, TypeOK
<1>3. \A i, j \in new : at(i) = at(j) => i = j
  BY DEF NewIds, IInv, TypeOK
<1>4. Once(ping_requests, last_seen_contacts)
  BY OnceIsCheckedOnce DEF IInv
<1>5. \A i \in DOMAIN begun : begun[i] \in NewPing
  BY DEF MayBegin
<1>6. \A id \in PingId : ping_requests[id].new # NoOne =>
        ping_requests[id].to \in last_seen_contacts /\ id \notin new
  <2> SUFFICES ASSUME NEW id \in PingId, ping_requests[id].new # NoOne
               PROVE  ping_requests[id].to \in last_seen_contacts /\ id \notin new
    OBVIOUS
  <2>1. ping_requests[id].to \in Peer
    BY DEF IInv, TypeOK, Ping, NoPing
  <2> QED
    BY <1>1, <1>4, <2>1 DEF Once, NoPing
<1>7. ASSUME NEW q \in Peer
      PROVE  q \in NewlyChecked(begun) <=> \E id \in new : pings[id].new # NoOne /\ pings[id].to = q
  BY <1>1, <1>2 DEF NewlyChecked
<1>8. ASSUME NEW q \in Peer
      PROVE  q \in last_seen_contacts <=>
               \E id \in PingId \ new : pings[id].new # NoOne /\ pings[id].to = q
  BY <1>1, <1>4, <1>6 DEF Once
<1>9. \A i, j \in PingId :
        pings[i].new # NoOne /\ pings[j].new # NoOne /\ pings[i].to = pings[j].to => i = j
  <2> SUFFICES ASSUME NEW i \in PingId, NEW j \in PingId, pings[i].new # NoOne,
                      pings[j].new # NoOne, pings[i].to = pings[j].to
               PROVE  i = j
    OBVIOUS
  <2>1. \A k \in new : pings[k].new # NoOne => pings[k].to \notin last_seen_contacts
    BY <1>1 DEF MayBegin
  <2>2. \A k \in PingId \ new : pings[k].new # NoOne => pings[k].to \in last_seen_contacts
    BY <1>1, <1>6
  <2>3. CASE i \in new /\ j \in new
    BY <1>1, <1>3, <2>3 DEF MayBegin
  <2>4. CASE i \notin new /\ j \notin new
    BY <1>1, <1>4, <2>4 DEF Once
  <2> QED
    BY <2>1, <2>2, <2>3, <2>4
<1> HIDE DEF pings, new
<1>10. \A q \in Peer : q \in last_seen_contacts \cup NewlyChecked(begun) <=>
                         \E id \in PingId : pings[id].new # NoOne /\ pings[id].to = q
  BY <1>1, <1>7, <1>8
<1> QED
  BY <1>9, <1>10 DEF Once, pings

\* The checks that end leave the others in place.
LEMMA EndedOnce ==
  ASSUME NEW pings \in [PingId -> Ping \cup {NoPing}], NEW checked, Once(pings, checked),
         NEW ended \in SUBSET PingId
  PROVE  Once([id \in PingId |-> IF id \in ended THEN NoPing ELSE pings[id]],
              checked \ Checked(pings, ended))
<1> DEFINE after == [id \in PingId |-> IF id \in ended THEN NoPing ELSE pings[id]]
<1>1. \A id \in PingId : after[id].new # NoOne <=> pings[id].new # NoOne /\ id \notin ended
  BY DEF NoPing
<1>2. \A id \in PingId \ ended : after[id] = pings[id]
  OBVIOUS
<1> HIDE DEF after
<1>3. \A i, j \in PingId :
        after[i].new # NoOne /\ after[j].new # NoOne /\ after[i].to = after[j].to => i = j
  BY <1>1, <1>2 DEF Once
<1>4. ASSUME NEW q \in Peer
      PROVE  q \in checked \ Checked(pings, ended) <=>
               \E id \in PingId : after[id].new # NoOne /\ after[id].to = q
  <2>1. q \in Checked(pings, ended) <=>
          \E id \in ended : pings[id].new # NoOne /\ pings[id].to = q
    BY DEF Checked
  <2> QED
    BY <1>1, <1>2, <2>1 DEF Once
<1> QED
  BY <1>3, <1>4 DEF Once, after

\* What every handler does to the pings: it begins some, and may end any, even one
\* that it has just begun.
LEMMA PingingIInv ==
  ASSUME IInv, NEW begun, MayBegin(begun), NEW ended \in SUBSET PingId,
         \A id \in ended : With(begun)[id] # NoPing,
         Pinging(begun, ended)
  PROVE  PingsOK' /\ JobsArePending' /\ CheckedOnce' /\ FreshAreUnused'
<1> DEFINE c == ping_id_counter
           new == NewIds(begun)
<1>1. /\ ping_id_counter' = c + Len(begun)
      /\ ping_requests' = [id \in PingId |-> IF id \in ended THEN NoPing ELSE With(begun)[id]]
      /\ jobs' = (jobs \cup new) \ ended
      /\ last_seen_contacts' =
           (last_seen_contacts \cup NewlyChecked(begun)) \ Checked(With(begun), ended)
      /\ asked' = asked \cup {<<id, With(begun)[id].to>> : id \in new}
  BY DEF Pinging, NewlyChecked
<1>2. /\ new \subseteq PingId
      /\ c + Len(begun) \in 0 .. MaxPings
      /\ With(begun) \in [PingId -> Ping \cup {NoPing}]
      /\ \A id \in new : ping_requests[id] = NoPing /\ With(begun)[id] \in NewPing
      /\ \A id \in PingId \ new : With(begun)[id] = ping_requests[id]
      /\ \A id \in PingId : id >= c + Len(begun) => With(begun)[id] = NoPing
  BY BegunPings
<1>3. PingsOK'
  <2>1. ping_requests' \in [PingId -> Ping \cup {NoPing}]
    BY <1>1, <1>2
  <2>2. NewlyChecked(begun) \subseteq Peer
    <3>1. \A i \in DOMAIN begun : begun[i] \in NewPing
      BY DEF MayBegin
    <3>2. \A i \in DOMAIN begun : begun[i].to \in Peer
      BY <3>1 DEF NewPing
    <3> QED
      BY <3>2 DEF NewlyChecked
  <2>3. last_seen_contacts' \in SUBSET Peer
    BY <1>1, <2>2 DEF IInv, TypeOK
  <2>4. asked' \in SUBSET (PingId \X Peer)
    BY <1>1, <1>2 DEF IInv, TypeOK, NewPing
  <2>5. jobs' \in SUBSET PingId /\ ping_id_counter' \in 0 .. MaxPings
    BY <1>1, <1>2 DEF IInv, TypeOK
  <2> QED
    BY <2>1, <2>3, <2>4, <2>5 DEF PingsOK
<1>4. JobsArePending'
  <2>1. Pending' = (Pending \cup new) \ ended
    BY <1>1, <1>2, NoPingIsNone DEF Pending
  <2> QED
    BY <1>1, <2>1 DEF IInv, JobsArePending
<1>5. FreshAreUnused'
  BY <1>1, <1>2 DEF FreshAreUnused
<1>6. CheckedOnce'
  <2>1. Once(With(begun), last_seen_contacts \cup NewlyChecked(begun))
    BY BegunOnce
  <2>2. Once(ping_requests', last_seen_contacts')
    BY <1>1, <1>2, <2>1, EndedOnce
  <2>3. CheckedOnce' <=> Once(ping_requests', last_seen_contacts')
    <3>1. \A id \in PingId : id \in Checks' <=> ping_requests'[id].new # NoOne
      BY DEF Checks, Pending, NoPing
    <3>2. Checks' \subseteq PingId
      BY DEF Checks, Pending
    <3> QED
      BY <3>1, <3>2 DEF CheckedOnce, Once
  <2> QED
    BY <2>2, <2>3
<1> QED
  BY <1>3, <1>4, <1>5, <1>6

\* A handler that begins no ping.
LEMMA EndingIInv ==
  ASSUME IInv, NEW ended \in SUBSET Pending, Pinging(<<>>, ended)
  PROVE  PingsOK' /\ JobsArePending' /\ CheckedOnce' /\ FreshAreUnused'
<1>1. MayBegin(<<>>)
  BY DEF MayBegin, IInv, TypeOK
<1>2. \A id \in PingId : With(<<>>)[id] = ping_requests[id]
  BY DEF With, NewIds, IInv, TypeOK, PingId
<1> QED
  BY <1>1, <1>2, PingingIInv DEF Pending

-----------------------------------------------------------------------------
(* The table                                                               *)

\* A bucket offered a contact never holds more than K.
LEMMA AddContactIsBounded ==
  ASSUME NEW c \in SUBSET Peer, Cardinality(c) <= K, NEW p \in Peer
  PROVE  AddContact(c, p) \in SUBSET Peer /\ Cardinality(AddContact(c, p)) <= K
<1>1. IsFiniteSet(c) /\ Cardinality(c) \in Nat
  BY FS_Subset, FS_CardinalityType
<1>2. Cardinality(c \cup {p}) = IF p \in c THEN Cardinality(c) ELSE Cardinality(c) + 1
  BY <1>1, FS_AddElement
<1> QED
  BY <1>1, <1>2 DEF AddContact, IsFull

\* One new contact and any removals: the notices keep adding up.
LEMMA NoticesKeepAddingUp ==
  ASSUME IInv, NEW p \in Peer \cup {NoOne}, NEW after \in SUBSET Peer,
         after \ contacts \subseteq {p},
         contacts' = after, Tell(Notices(contacts, after, p))
  PROVE  told' \in [Peer -> Int] /\ NoticesAddUp'
<1>1. /\ told \in [Peer -> Int]
      /\ \A q \in Peer : told[q] = IF q \in contacts THEN 1 ELSE 0
  BY DEF IInv, TypeOK, NoticesAddUp
<1>2. told' = [q \in Peer |-> told[q] + Notices(contacts, after, p)[q]]
  BY DEF Tell
<1>3. ASSUME NEW q \in Peer
      PROVE  /\ Notices(contacts, after, p)[q] \in Int
             /\ told'[q] = IF q \in after THEN 1 ELSE 0
  <2>1. Notices(contacts, after, p)[q] = IF q = p /\ p \in after \ contacts THEN 1
                                         ELSE IF q \in contacts \ after THEN -1 ELSE 0
    BY DEF Notices
  <2>2. told'[q] = told[q] + Notices(contacts, after, p)[q]
    BY <1>2
  <2>3. CASE q = p /\ p \in after \ contacts
    BY <1>1, <2>1, <2>2, <2>3
  <2>4. CASE ~(q = p /\ p \in after \ contacts) /\ q \in contacts \ after
    BY <1>1, <2>1, <2>2, <2>4
  <2>5. CASE ~(q = p /\ p \in after \ contacts) /\ q \notin contacts \ after
    BY <1>1, <2>1, <2>2, <2>5
  <2> QED
    BY <2>3, <2>4, <2>5
<1>4. told' \in [Peer -> Int]
  BY <1>1, <1>2, <1>3
<1> QED
  BY <1>3, <1>4 DEF NoticesAddUp

LEMMA StampsAreTimes ==
  ASSUME TypeOK, NEW c, NEW p, NEW refused
  PROVE  Stamps(c, p, refused) \in [Peer -> 0 .. MaxTime]
  BY DEF TypeOK, Stamps

\* Hearing from p keeps the table in order.
LEMMA OfferedTableOK ==
  ASSUME IInv, NEW p \in Peer, OfferContact(p)
  PROVE  TableOK' /\ NoticesAddUp'
<1>1. contacts \in SUBSET Peer /\ Cardinality(contacts) <= K
  BY DEF IInv, TypeOK
<1>2. /\ contacts' = AddContact(contacts, p)
      /\ last_seen' = Stamps(contacts, p, IsFull(contacts))
      /\ Tell(Notices(contacts, AddContact(contacts, p), p))
  BY DEF OfferContact
<1>3. contacts' \in SUBSET Peer /\ Cardinality(contacts') <= K
  BY <1>1, <1>2, AddContactIsBounded
<1>4. AddContact(contacts, p) \ contacts \subseteq {p}
  BY DEF AddContact
<1>5. told' \in [Peer -> Int] /\ NoticesAddUp'
  BY <1>2, <1>3, <1>4, NoticesKeepAddingUp
<1>6. last_seen' \in [Peer -> 0 .. MaxTime]
  BY <1>2, StampsAreTimes DEF IInv
<1> QED
  BY <1>3, <1>5, <1>6 DEF TableOK

-----------------------------------------------------------------------------
(* The steps                                                               *)

\* UpdateRoutingTable checks one contact at most, and none that is being checked.
LEMMA CheckIsNew ==
  ASSUME IInv, NEW p \in Peer, NEW check \in Check(p)
  PROVE  /\ check \in Seq(NewPing)
         /\ \A i \in DOMAIN check : i = 1 /\ check[i].to \notin last_seen_contacts
<1>1. CASE check = <<>>
  BY <1>1
<1>2. CASE check # <<>>
  <2>1. PICK q \in LastSeen : IsDue(q) /\ check = <<To(q, p)>>
    BY <1>2 DEF Check
  <2>2. q \in Peer /\ q \notin last_seen_contacts
    BY <2>1 DEF LastSeen, IsDue, IInv, TypeOK
  <2>3. To(q, p) \in NewPing /\ To(q, p).to = q
    BY <2>2 DEF To, NewPing
  <2> QED
    BY <2>1, <2>2, <2>3
<1> QED
  BY <1>1, <1>2

\* A handler that hears from p, and begins and ends pings.
LEMMA UpdateIInv ==
  ASSUME IInv, NEW p \in Peer, OfferContact(p),
         NEW begun, MayBegin(begun), NEW ended \in SUBSET PingId,
         \A id \in ended : With(begun)[id] # NoPing,
         Pinging(begun, ended), heard' \in Peer \cup {NoOne}
  PROVE  IInv'
<1>1. TableOK' /\ NoticesAddUp'
  BY OfferedTableOK
<1>2. now' = now /\ restarts' = restarts
  BY DEF OfferContact
<1>3. PingsOK' /\ JobsArePending' /\ CheckedOnce' /\ FreshAreUnused'
  BY PingingIInv
<1>4. TypeOK'
  BY <1>1, <1>2, <1>3 DEF IInv, TypeOK, TableOK, PingsOK
<1> QED
  BY <1>1, <1>3, <1>4 DEF IInv

LEMMA CheckMayBegin ==
  ASSUME IInv, NEW p \in Peer, NEW check \in Check(p), NEW ended, Pinging(check, ended)
  PROVE  MayBegin(check)
  BY CheckIsNew DEF MayBegin, Pinging

LEMMA HearIInv ==
  ASSUME IInv, NEW p \in Peer, Hear(p)
  PROVE  IInv'
<1>1. PICK check \in Check(p) : Pinging(check, {})
  BY DEF Hear
<1>2. OfferContact(p) /\ heard' = NoOne
  BY DEF Hear
<1>3. MayBegin(check)
  BY <1>1, CheckMayBegin
<1> QED
  BY <1>1, <1>2, <1>3, UpdateIInv

LEMMA OnDownlistRequestIInv ==
  ASSUME IInv, NEW p \in Peer, NEW d \in DownNodes, OnDownlistRequest(p, d)
  PROVE  IInv'
<1>1. PICK known \in Lists(d \cap contacts), check \in Check(p) :
        Pinging([i \in DOMAIN known |-> To(known[i], NoOne)] \o check, {})
  BY DEF OnDownlistRequest
<1> DEFINE begun == [i \in DOMAIN known |-> To(known[i], NoOne)]
           n == Cardinality(d \cap contacts)
<1>2. n \in Nat
  BY FS_Subset, FS_CardinalityType DEF IInv, TypeOK
<1>3. known \in [1 .. n -> d \cap contacts]
  BY DEF Lists
<1>4. \A i \in 1 .. n : To(known[i], NoOne) \in NewPing /\ To(known[i], NoOne).new = NoOne
  BY <1>3 DEF To, NewPing, IInv, TypeOK
<1>5. begun \in Seq(NewPing) /\ \A i \in DOMAIN begun : begun[i].new = NoOne
  <2>1. DOMAIN known = 1 .. n
    BY <1>3
  <2>2. begun \in [1 .. n -> NewPing]
    BY <1>4, <2>1
  <2>3. begun \in Seq(NewPing)
    <3> HIDE DEF begun, n
    <3> QED
      BY <1>2, <2>2, SeqDef
  <2> QED
    BY <1>4, <2>1, <2>3
<1>6. heard' = NoOne /\ OfferContact(p)
  BY DEF OnDownlistRequest
<1>7. /\ check \in Seq(NewPing)
      /\ \A i \in DOMAIN check : i = 1 /\ check[i].to \notin last_seen_contacts
  BY CheckIsNew
<1> HIDE DEF begun
<1>8. /\ begun \o check \in Seq(NewPing)
      /\ Len(begun) \in Nat
      /\ \A i \in DOMAIN (begun \o check) :
           \/ i \in DOMAIN begun /\ (begun \o check)[i] = begun[i]
           \/ i - Len(begun) \in DOMAIN check /\ (begun \o check)[i] = check[i - Len(begun)]
  BY <1>5, <1>7
<1>9. \A i \in DOMAIN (begun \o check) : (begun \o check)[i].new # NoOne =>
        i = Len(begun) + 1 /\ (begun \o check)[i].to \notin last_seen_contacts
  BY <1>5, <1>7, <1>8
<1>10. Pinging(begun \o check, {})
  BY <1>1 DEF begun
<1>11. MayBegin(begun \o check)
  BY <1>8, <1>9, <1>10 DEF MayBegin, Pinging
<1> QED
  BY <1>6, <1>10, <1>11, UpdateIInv

LEMMA OnPingResponseIInv ==
  ASSUME IInv, NEW p \in Peer, NEW id \in PingId, OnPingResponse(id, p)
  PROVE  IInv'
<1>1. PICK check \in Check(p) : Pinging(check, Answers(With(check), id, p))
  BY DEF OnPingResponse
<1>2. OfferContact(p) /\ heard' = p
  BY DEF OnPingResponse
<1>3. MayBegin(check)
  BY <1>1, CheckMayBegin
<1>4. /\ Answers(With(check), id, p) \in SUBSET PingId
      /\ \A i \in Answers(With(check), id, p) : With(check)[i] # NoPing
  BY DEF Answers, NoPing
<1> QED
  BY <1>1, <1>2, <1>3, <1>4, UpdateIInv

\* A ping that is repeated is otherwise the same.
LEMMA RepeatIInv ==
  ASSUME IInv, NEW id \in Pending, MayRepeat(id), Repeat(id), heard' = NoOne,
         UNCHANGED <<now, restarts>>
  PROVE  IInv'
<1>1. /\ ping_requests' = [ping_requests EXCEPT ![id].attempts = @ + 1]
      /\ UNCHANGED <<table, ping_id_counter, jobs, last_seen_contacts, asked>>
  BY DEF Repeat
<1>2. ping_requests[id] \in Ping /\ id \in PingId
  BY DEF IInv, TypeOK, Pending
<1>3. /\ ping_requests'[id] \in Ping
      /\ ping_requests'[id].to = ping_requests[id].to
      /\ ping_requests'[id].new = ping_requests[id].new
      /\ \A i \in PingId \ {id} : ping_requests'[i] = ping_requests[i]
      /\ ping_requests' \in [PingId -> Ping \cup {NoPing}]
  BY <1>1, <1>2 DEF IInv, TypeOK, MayRepeat, Ping
<1>4. Pending' = Pending
  BY <1>2, <1>3, NoPingIsNone DEF Pending
<1>5. Checks' = Checks
  BY <1>3, <1>4 DEF Checks, Pending
<1>6. TypeOK'
  BY <1>1, <1>3 DEF IInv, TypeOK, table
<1>7. JobsArePending' /\ NoticesAddUp' /\ FreshAreUnused'
  <2>1. JobsArePending'
    BY <1>1, <1>4 DEF IInv, JobsArePending
  <2>2. NoticesAddUp'
    BY <1>1 DEF IInv, NoticesAddUp, table
  <2>3. FreshAreUnused'
    BY <1>1, <1>3 DEF IInv, FreshAreUnused, Pending
  <2> QED
    BY <2>1, <2>2, <2>3
<1>8. CheckedOnce'
  <2>1. \A i \in Checks : ping_requests'[i].to = ping_requests[i].to
    BY <1>3 DEF Checks, Pending
  <2> QED
    BY <1>1, <1>5, <2>1 DEF IInv, CheckedOnce
<1> QED
  BY <1>6, <1>7, <1>8 DEF IInv

LEMMA GiveUpIInv ==
  ASSUME IInv, NEW id \in Pending,
         GiveUp(id, ping_requests[id].to, ping_requests[id].new), heard' = NoOne,
         UNCHANGED <<now, restarts>>
  PROVE  IInv'
<1> DEFINE q == ping_requests[id].to
           n == ping_requests[id].new
<1>1. q \in Peer /\ n \in Peer \cup {NoOne}
  BY DEF IInv, TypeOK, Pending, Ping
<1>2. /\ contacts' = Replaced(q, n)
      /\ last_seen' = Stamps(contacts \ {q}, n, IsFull(contacts \ {q}))
      /\ Tell(Notices(contacts, Replaced(q, n), n))
      /\ Pinging(<<>>, {id})
  BY DEF GiveUp
<1>3. PingsOK' /\ JobsArePending' /\ CheckedOnce' /\ FreshAreUnused'
  BY <1>2, EndingIInv
<1>4. contacts \ {q} \in SUBSET Peer /\ Cardinality(contacts \ {q}) <= K
  <2>1. contacts \in SUBSET Peer /\ Cardinality(contacts) <= K
    BY DEF IInv, TypeOK
  <2>2. IsFiniteSet(contacts) /\ Cardinality(contacts) \in Nat
    BY <2>1, FS_Subset, FS_CardinalityType
  <2>3. IsFiniteSet(contacts \ {q}) /\ Cardinality(contacts \ {q}) <= Cardinality(contacts)
    BY <2>2, FS_Subset
  <2>4. Cardinality(contacts \ {q}) \in Nat
    BY <2>3, FS_CardinalityType
  <2> QED
    BY <2>1, <2>2, <2>3, <2>4
<1>5. Replaced(q, n) \in SUBSET Peer /\ Cardinality(Replaced(q, n)) <= K
  <2>1. CASE n = NoOne
    BY <1>4, <2>1 DEF Replaced
  <2>2. CASE n \in Peer
    BY <1>4, <2>2, AddContactIsBounded DEF Replaced
  <2> QED
    BY <1>1, <2>1, <2>2
<1>6. Replaced(q, n) \ contacts \subseteq {n}
  BY DEF Replaced, AddContact
<1>7. told' \in [Peer -> Int] /\ NoticesAddUp'
  BY <1>1, <1>2, <1>5, <1>6, NoticesKeepAddingUp
<1>8. last_seen' \in [Peer -> 0 .. MaxTime]
  BY <1>2, StampsAreTimes DEF IInv
<1>9. TypeOK'
  BY <1>2, <1>3, <1>5, <1>7, <1>8 DEF IInv, TypeOK, PingsOK
<1> QED
  BY <1>3, <1>7, <1>9 DEF IInv

LEMMA PingRequestTimeoutIInv ==
  ASSUME IInv, NEW id \in PingId, PingRequestTimeout(id)
  PROVE  IInv'
<1>1. id \in Pending
  BY DEF PingRequestTimeout, IInv, JobsArePending
<1>2. heard' = NoOne /\ UNCHANGED <<now, restarts>>
  BY DEF PingRequestTimeout
<1>3. CASE MayRepeat(id)
  BY <1>1, <1>2, <1>3, RepeatIInv DEF PingRequestTimeout
<1>4. CASE ~MayRepeat(id)
  BY <1>1, <1>2, <1>4, GiveUpIInv DEF PingRequestTimeout
<1> QED
  BY <1>3, <1>4

LEMMA RestartIInv ==
  ASSUME IInv, Restart
  PROVE  IInv'
<1>1. Pending' = {} /\ Checks' = {}
  BY DEF Restart, Pending, Checks
<1>2. jobs' = {}
  BY DEF Restart, Terminated, IInv, JobsArePending
<1>3. Cardinality({}) = 0
  BY FS_EmptySet
<1>4. TypeOK'
  BY <1>2, <1>3 DEF Restart, IInv, TypeOK
<1> QED
  BY <1>1, <1>2, <1>4
     DEF Restart, IInv, JobsArePending, CheckedOnce, NoticesAddUp, FreshAreUnused

\* Nothing the invariant is about changes.
LEMMA QuietIInv ==
  ASSUME IInv, UNCHANGED <<table, pinging, restarts>>, now' \in 0 .. MaxTime,
         heard' \in Peer \cup {NoOne}
  PROVE  IInv'
<1>1. TypeOK'
  BY DEF IInv, TypeOK, table, pinging
<1>2. Pending' = Pending /\ Checks' = Checks
  BY DEF pinging, Pending, Checks
<1> QED
  BY <1>1, <1>2
     DEF IInv, JobsArePending, CheckedOnce, NoticesAddUp, FreshAreUnused, table, pinging

LEMMA NextIInv == IInv /\ [Next]_vars => IInv'
<1> SUFFICES ASSUME IInv, [Next]_vars PROVE IInv'
  OBVIOUS
<1>1. CASE \E p \in Peer : Hear(p)
  BY <1>1, HearIInv
<1>2. CASE \E p \in Peer, d \in DownNodes : OnDownlistRequest(p, d)
  BY <1>2, OnDownlistRequestIInv
<1>3. CASE \E p \in Peer, id \in PingId : OnPingResponse(id, p)
  BY <1>3, OnPingResponseIInv
<1>4. CASE \E id \in PingId : PingRequestTimeout(id)
  BY <1>4, PingRequestTimeoutIInv
<1>5. CASE Restart
  BY <1>5, RestartIInv
<1>6. CASE Tick
  BY <1>6, QuietIInv DEF Tick, IInv, TypeOK
<1>7. CASE UNCHANGED vars
  BY <1>7, QuietIInv DEF vars, IInv, TypeOK
<1> QED
  BY <1>1, <1>2, <1>3, <1>4, <1>5, <1>6, <1>7 DEF Next

-----------------------------------------------------------------------------
(* The theorems                                                            *)

LEMMA IInvAlways == Spec => []IInv
  BY InitIInv, NextIInv, PTL DEF Spec

\* Every variable keeps its type, and the bucket holds at most K contacts.
THEOREM TypeCorrect == Spec => []TypeOK
  BY IInvAlways, PTL DEF IInv

\* Timeouts are scheduled exactly for the pings under way, across any number of
\* deactivations.
THEOREM TimeoutsArePending == Spec => []JobsArePending
  BY IInvAlways, PTL DEF IInv

\* The item store is told of every change of the contacts, once.
THEOREM StoreIsTold == Spec => []NoticesAddUp
  BY IInvAlways, PTL DEF IInv

\* A contact that is being checked has exactly one check, any other has none.
THEOREM ChecksAreSingle == Spec => []ChecksArePending
<1>1. IInv => ChecksArePending
  <2> SUFFICES ASSUME IInv, NEW q \in Peer
               PROVE  Cardinality({id \in Checks : ping_requests[id].to = q}) =
                        IF q \in last_seen_contacts THEN 1 ELSE 0
    BY DEF ChecksArePending
  <2> DEFINE C == {id \in Checks : ping_requests[id].to = q}
  <2>1. q \in last_seen_contacts <=> C # {}
    BY DEF IInv, CheckedOnce
  <2>2. CASE C = {}
    BY <2>1, <2>2, FS_EmptySet
  <2>3. CASE C # {}
    <3>1. PICK id \in C : TRUE
      BY <2>3
    <3>2. C = {id}
      BY <3>1 DEF IInv, CheckedOnce
    <3> QED
      BY <2>1, <2>3, <3>2, FS_Singleton
  <2> QED
    BY <2>2, <2>3
<1> QED
  BY <1>1, IInvAlways, PTL

-----------------------------------------------------------------------------
(* Why pings end                                                           *)

\* Only the pings a handler ends have ended: a new one takes nobody's id.
LEMMA PingingEnds ==
  ASSUME IInv, NEW begun, NEW ended, Pinging(begun, ended), NEW id \in PingId, Ended(id)
  PROVE  id \in ended /\ With(begun)[id] = ping_requests[id]
<1>1. ping_requests[id] # NoPing /\ ping_requests'[id] = NoPing
  BY DEF Ended, Pending
<1>2. ~(id >= ping_id_counter)
  BY <1>1 DEF IInv, FreshAreUnused
<1>3. id \notin NewIds(begun)
  BY <1>2 DEF NewIds
<1> QED
  BY <1>1, <1>3 DEF Pinging, With

\* A handler that hears from p removes no contact.
LEMMA OfferKeeps ==
  ASSUME NEW p \in Peer, OfferContact(p)
  PROVE  contacts \subseteq contacts'
  BY DEF OfferContact, AddContact

\* A handler that hears from p and ends no ping.
LEMMA HeardEndsNone ==
  ASSUME IInv, \/ \E p \in Peer : Hear(p)
               \/ \E p \in Peer, d \in DownNodes : OnDownlistRequest(p, d)
  PROVE  contacts \subseteq contacts' /\ \A id \in PingId : ~Ended(id)
<1>1. \E p \in Peer : OfferContact(p)
  BY DEF Hear, OnDownlistRequest
<1>2. \E begun : Pinging(begun, {})
  BY DEF Hear, OnDownlistRequest
<1> QED
  BY <1>1, <1>2, OfferKeeps, PingingEnds

\* One step of EndsAreJustified.
Justified ==
  /\ \A id \in PingId : Ended(id) => heard' = ping_requests[id].to \/ IsSilent(id)
  /\ \A q \in contacts \ contacts' :
       \/ restarts' # restarts
       \/ \E id \in PingId : Ended(id) /\ IsSilent(id) /\ ping_requests[id].to = q

LEMMA TimeoutIsJustified ==
  ASSUME IInv, NEW id \in PingId, PingRequestTimeout(id)
  PROVE  Justified
<1>1. id \in Pending /\ heard' = NoOne /\ restarts' = restarts
  BY DEF PingRequestTimeout, IInv, JobsArePending
<1>2. ping_requests[id] \in Ping
  BY <1>1 DEF IInv, TypeOK, Pending
<1>3. CASE MayRepeat(id)
  <2>1. contacts' = contacts /\ ping_requests' = [ping_requests EXCEPT ![id].attempts = @ + 1]
    BY <1>3 DEF PingRequestTimeout, Repeat, table
  <2>2. ping_requests'[id].to = ping_requests[id].to
    BY <1>2, <2>1 DEF IInv, TypeOK, Ping
  <2>3. ping_requests'[id] # NoPing
    BY <1>2, <2>2 DEF Ping, NoPing
  <2>4. \A i \in PingId : ~Ended(i)
    BY <2>1, <2>3 DEF Ended, Pending, IInv, TypeOK
  <2> QED
    BY <2>1, <2>4 DEF Justified
<1>4. CASE ~MayRepeat(id)
  <2> DEFINE q == ping_requests[id].to
             n == ping_requests[id].new
  <2>1. contacts' = Replaced(q, n) /\ Pinging(<<>>, {id})
    BY <1>4 DEF PingRequestTimeout, GiveUp
  <2>2. \A i \in PingId : Ended(i) => i = id
    BY <2>1, PingingEnds
  <2>3. IsSilent(id)
    BY <1>1, <1>2, <1>4 DEF IsSilent, MayRepeat, Ping
  <2>4. Ended(id)
    BY <1>1, <2>1 DEF Pinging, Ended, Pending
  <2>5. contacts \ contacts' \subseteq {q}
    BY <2>1 DEF Replaced, AddContact
  <2> QED
    BY <2>2, <2>3, <2>4, <2>5 DEF Justified
<1> QED
  BY <1>3, <1>4

LEMMA NextIsJustified == IInv /\ Next => Justified
<1> SUFFICES ASSUME IInv, Next PROVE Justified
  OBVIOUS
<1>1. CASE \/ \E p \in Peer : Hear(p)
           \/ \E p \in Peer, d \in DownNodes : OnDownlistRequest(p, d)
  BY <1>1, HeardEndsNone DEF Justified
<1>2. CASE \E p \in Peer, id \in PingId : OnPingResponse(id, p)
  <2>1. PICK p \in Peer, id \in PingId : OnPingResponse(id, p)
    BY <1>2
  <2>2. PICK check \in Check(p) : Pinging(check, Answers(With(check), id, p))
    BY <2>1 DEF OnPingResponse
  <2>3. heard' = p /\ OfferContact(p)
    BY <2>1 DEF OnPingResponse
  <2>4. \A i \in PingId : Ended(i) => i \in Answers(With(check), id, p)
                                        /\ With(check)[i] = ping_requests[i]
    BY <2>2, PingingEnds
  <2>5. contacts \subseteq contacts'
    BY <2>3, OfferKeeps
  <2> QED
    BY <2>3, <2>4, <2>5 DEF Answers, Justified
<1>3. CASE \E id \in PingId : PingRequestTimeout(id)
  BY <1>3, TimeoutIsJustified
<1>4. CASE Restart
  <2>1. restarts' # restarts
    BY <1>4 DEF Restart, IInv, TypeOK
  <2> QED
    BY <2>1 DEF Justified, Ended
<1>5. CASE Tick
  BY <1>5 DEF Tick, table, pinging, Justified, Ended, Pending
<1> QED
  BY <1>1, <1>2, <1>3, <1>4, <1>5 DEF Next

\* A ping ends because the node it went to answered, or stayed silent as long as
\* the code waits; and only a node that stayed silent so long loses its place.
THEOREM OnlySilenceRemoves == Spec => EndsAreJustified
<1>1. IInv /\ [Next]_vars => [Justified]_vars
  BY NextIsJustified
<1> QED
  BY <1>1, IInvAlways, PTL DEF Spec, EndsAreJustified, Justified

-----------------------------------------------------------------------------
(* The place of a silent contact                                           *)

Taken ==
  \A id \in Checks :
    Ended(id) /\ IsSilent(id) => ping_requests[id].new \in contacts' \/ IsFull(contacts')

\* Only a timeout ends a ping in silence, and it ends its own.
LEMMA SilenceIsATimeout ==
  ASSUME IInv, Next, NEW id \in PingId, Ended(id), heard' = NoOne
  PROVE  PingRequestTimeout(id)
<1>1. CASE \/ \E p \in Peer : Hear(p)
           \/ \E p \in Peer, d \in DownNodes : OnDownlistRequest(p, d)
  BY <1>1, HeardEndsNone
<1>2. CASE \E p \in Peer, i \in PingId : OnPingResponse(i, p)
  BY <1>2 DEF OnPingResponse
<1>3. CASE \E i \in PingId : PingRequestTimeout(i)
  <2>1. PICK i \in PingId : PingRequestTimeout(i)
    BY <1>3
  <2>2. CASE MayRepeat(i)
    <3>1. i \in Pending
      BY <2>1 DEF PingRequestTimeout, IInv, JobsArePending
    <3>2. ping_requests[i] \in Ping
      BY <3>1 DEF IInv, TypeOK, Pending
    <3>3. ping_requests' = [ping_requests EXCEPT ![i].attempts = @ + 1]
      BY <2>1, <2>2 DEF PingRequestTimeout, Repeat
    <3>4. ping_requests'[i].to = ping_requests[i].to
      BY <3>2, <3>3 DEF IInv, TypeOK, Ping
    <3>5. ping_requests'[i] # NoPing
      BY <3>2, <3>4 DEF Ping, NoPing
    <3> QED
      BY <3>3, <3>5 DEF Ended, Pending, IInv, TypeOK
  <2>3. CASE ~MayRepeat(i)
    <3>1. Pinging(<<>>, {i})
      BY <2>1, <2>3 DEF PingRequestTimeout, GiveUp
    <3>2. id = i
      BY <3>1, PingingEnds
    <3> QED
      BY <2>1, <3>2
  <2> QED
    BY <2>2, <2>3
<1>4. CASE Restart
  BY <1>4 DEF Restart, IInv, TypeOK, Ended
<1>5. CASE Tick
  BY <1>5 DEF Tick, pinging, Ended, Pending
<1> QED
  BY <1>1, <1>2, <1>3, <1>4, <1>5 DEF Next

LEMMA NextTakes == IInv /\ Next => Taken
<1> SUFFICES ASSUME IInv, Next, NEW id \in Checks, Ended(id), IsSilent(id)
             PROVE  ping_requests[id].new \in contacts' \/ IsFull(contacts')
  BY DEF Taken
<1>1. id \in PingId /\ ping_requests[id].new # NoOne
  BY DEF Checks, Pending
<1>2. PingRequestTimeout(id)
  BY <1>1, SilenceIsATimeout DEF IsSilent
<1>3. ~MayRepeat(id)
  <2>1. ping_requests[id] \in Ping
    BY DEF IInv, TypeOK, Checks, Pending
  <2> QED
    BY <2>1 DEF MayRepeat, IsSilent, Ping
<1>4. contacts' = Replaced(ping_requests[id].to, ping_requests[id].new)
  BY <1>2, <1>3 DEF PingRequestTimeout, GiveUp
<1> QED
  BY <1>1, <1>4 DEF Replaced, AddContact

\* When a check finds its contact silent, the node on whose behalf it was made gets the
\* place, unless the bucket has been filled meanwhile: also if the silent contact was
\* removed by another ping before.
THEOREM SilenceMakesPlace == Spec => PlaceIsTaken
<1>1. IInv /\ [Next]_vars => [Taken]_vars
  BY NextTakes
<1> QED
  BY <1>1, IInvAlways, PTL DEF Spec, PlaceIsTaken, Taken
=============================================================================
