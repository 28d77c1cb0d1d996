---------------------------- MODULE RoutingTable ----------------------------
(***************************************************************************)
(* CRoutingTable and CKbucket (routing_table.cpp, kbucket.cpp): the        *)
(* contacts of a node, in buckets that partition the id space.             *)
(*                                                                         *)
(* Only the bucket of the node itself, the holder bucket, is ever split:   *)
(* in two halves, of which the one without the node is cut again in two    *)
(* brother buckets.  A full bucket refuses new contacts, but a brother     *)
(* bucket gives up one of its own while the holder bucket is not full (the *)
(* ForceK optimisation).                                                   *)
(*                                                                         *)
(* AddContact calls itself after a split.  Each of its rounds is a step;   *)
(* adding remembers the contact between two rounds, and nothing else runs  *)
(* then.                                                                   *)
(***************************************************************************)
EXTENDS Distance

CONSTANTS
  Size,       \* the number of ids
  PowerOfTwo, \* the powers of two up to Size
  holder_id,
  Peer,       \* the ids that are ever added
  K,          \* capacity of a bucket
  MaxTime     \* bound: the last time stamp

\* The bounds of the buckets come out right because the id space is a power of
\* two and a bucket of two ids is never full.  holder_id is not a contact: a
\* node does not hear from itself.  The distance is the XOR: its upper bits are the
\* XOR of the upper bits, which differ if these do.
ASSUME RoutingTableAssumption ==
  /\ Size \in PowerOfTwo
  /\ PowerOfTwo \subseteq Nat \ {0}
  /\ \A w \in PowerOfTwo : w = 1 \/ (w % 2 = 0 /\ w \div 2 \in PowerOfTwo)
  /\ Id = 0 .. Size - 1
  /\ holder_id \in Id
  /\ Peer \subseteq Id \ {holder_id}
  /\ K \in Nat /\ K >= 3
  /\ MaxTime \in Nat
  /\ \A id \in Id : Dist[id][id] = 0
  /\ \A w \in PowerOfTwo : \A id, a, b \in Id :
       Dist[id][a] \div w = Dist[id][b] \div w <=> a \div w = b \div w

\* config.h
rt_b == 2
rt_r == 1
rt_pow2_r == 2
rt_pow2_b_r == 2

VARIABLES
  held,                   \* the contacts of each bucket; its domain are the buckets
  holder_bucket,
  holder_brother_bucket,  \* the pointers of the array that are set
  last_seen,              \* Contact::last_seen, 0 for an id that is not a contact
  now,                    \* GetCurrentTime
  adding,                 \* the contact of the AddContact under way, or NoContact
  ret,                    \* what the last call returned, and what it told
  is_close_to_holder      \* of the contact

table == <<held, holder_bucket, holder_brother_bucket, last_seen>>
vars == <<table, now, adding, ret, is_close_to_holder>>

NoContact == -1

\* A bucket is named by its bounds, [low_bound, high_bound].
Bucket == {b \in Id \X Id : b[1] <= b[2]}
Low(b) == b[1]
High(b) == b[2]
InRange(b, id) == Low(b) <= id /\ id <= High(b)

buckets == DOMAIN held
contacts == UNION {held[b] : b \in buckets}

\* Mutant of IsFull: one contact too many.
IsFullLate(b) == Cardinality(held[b]) > K

IsFull(b) == Cardinality(held[b]) >= K

Init ==
  /\ held = [b \in {<<0, Size - 1>>} |-> {}]
  /\ holder_bucket = <<0, Size - 1>>
  /\ holder_brother_bucket = {}
  /\ last_seen = [p \in Peer |-> 0]
  /\ now = 0
  /\ adding = NoContact
  /\ ret = "NONE"
  /\ is_close_to_holder = FALSE

\* buckets.lower_bound(id): the bucket with the smallest high bound from id on.
IsLowerBound(b, id) ==
  /\ b \in buckets
  /\ id <= High(b)
  /\ \A c \in buckets : id <= High(c) => High(b) <= High(c)

-----------------------------------------------------------------------------
(* Splitting the holder bucket                                             *)

\* Mutants of Wid: the halves overlap; the bucket is not halved.
WidOfSize(b) == (High(b) - Low(b) + 1) \div 2
WidNotShifted(b) == High(b) - Low(b)

Wid(b) == (High(b) - Low(b)) \div 2

\* The halves, and the parts a half is cut in.
Halves(b) ==
  {<<Low(b) + i * (Wid(b) + 1), Low(b) + i * (Wid(b) + 1) + Wid(b)>> : i \in 0 .. rt_pow2_r - 1}

Parts(b, h) ==
  LET b_wid == Wid(b) \div 2 IN
  {<<Low(h) + j * (b_wid + 1), Low(h) + j * (b_wid + 1) + b_wid>> : j \in 0 .. rt_pow2_b_r - 1}

\* Mutant of HolderHalf: the branches are swapped.
OtherHalf(b) == {g \in Halves(b) : ~InRange(g, holder_id)}

HolderHalf(b) == {g \in Halves(b) : InRange(g, holder_id)}

\* Mutant of ContactsFor: the high bound is excluded.
ContactsBelow(b, c) == {p \in held[b] : Low(c) <= p /\ p < High(c)}

\* CopyContactsTo: at most K contacts are copied, so none is refused.
ContactsFor(b, c) == {p \in held[b] : InRange(c, p)}

Split(p) ==
  \E h \in HolderHalf(holder_bucket) :
    LET brothers == UNION {Parts(holder_bucket, g) : g \in Halves(holder_bucket) \ {h}}
        kept == buckets \ {holder_bucket}
    IN  /\ held' = [b \in kept \cup {h} \cup brothers |->
                      IF b \in kept THEN held[b] ELSE ContactsFor(holder_bucket, b)]
        /\ holder_bucket' = h
        /\ holder_brother_bucket' = brothers
        /\ adding' = p
        /\ ret' = "NONE"
        /\ is_close_to_holder' = FALSE
        /\ UNCHANGED <<last_seen, now>>

-----------------------------------------------------------------------------
(* The ForceK optimisation: AddContactForceK                               *)

\* The count contacts of b farthest from the holder (partial_sort by
\* distance_comp_ge).
Farthest(b, count) ==
  {F \in SUBSET held[b] :
     /\ Cardinality(F) = count
     /\ \A p \in F, q \in held[b] \ F : Closer(holder_id, q, p)}

\* The orders in which std::sort may leave F; equal time stamps come in any.
SortedByLastSeen(F) ==
  {r \in [F -> 0 .. Cardinality(F) - 1] :
     \A p, q \in F : p # q => r[p] # r[q] /\ (r[p] < r[q] => last_seen[p] <= last_seen[q])}

\* last_seen_weight + distance_weight
Weight(F, r, p) == r[p] + Cardinality({q \in F : Closer(holder_id, p, q)})

\* The loop keeps the last contact that weighs less than the first one: the
\* weight it compares with is never updated.
LessUseful(F, r, v) ==
  LET first == CHOOSE p \in F : r[p] = 0
      lighter == {p \in F : Weight(F, r, p) < Weight(F, r, first)}
  IN  IF lighter = {}
        THEN v = first
        ELSE v \in lighter /\ \A p \in lighter : r[p] <= r[v]

\* What CKbucket::AddContact does to a bucket with room.
InsertInto(b, c, p) ==
  /\ held' = [held EXCEPT ![b] = c \cup {p}]
  /\ last_seen' = [q \in Peer |-> IF q = p THEN now
                                  ELSE IF q \in held[b] \ c THEN 0 ELSE last_seen[q]]
  /\ ret' = IF p \in c THEN "EXISTED" ELSE "SUCCEED"

Refuse ==
  /\ ret' = "FULL"
  /\ UNCHANGED <<held, last_seen>>

\* The check compares p with the least far of the contacts that may go.
AddContactForceK(b, p, count) ==
  \E F \in Farthest(b, count) :
    IF \E q \in F : Closer(holder_id, q, p)
      THEN Refuse
      ELSE \E r \in SortedByLastSeen(F), v \in F :
             LessUseful(F, r, v) /\ InsertInto(b, held[b] \ {v}, p)

-----------------------------------------------------------------------------
(* Queries                                                                 *)

\* Mutant of BucketDistance: the ids are subtracted.
BucketDifference(id, b) == IF id <= High(b) THEN High(b) - id ELSE id - High(b)

\* sorted_buckets is ordered by the distance of the high bounds.
BucketDistance(id, b) == Dist[id][High(b)]

Nearer(id, b) == {c \in buckets : BucketDistance(id, c) < BucketDistance(id, b)}

\* GetClosestContacts: the contacts of id's bucket, then those of the others
\* in the order of sorted_buckets, from the second on, until there are enough,
\* of which the closest complete the answer.
GetClosestContacts(id) ==
  UNION {LET needed == K - Cardinality(held[b])
             seen(c) == UNION {held[d] : d \in Nearer(id, c) \ {first}}
             more == UNION {held[c] : c \in {d \in buckets \ {first} :
                                               Cardinality(seen(d)) < needed}}
         IN  {held[b] \cup extra : extra \in Nearest(more, id, needed)} :
           b \in {c \in buckets : IsLowerBound(c, id)},
           first \in {c \in buckets : Nearer(id, c) = {}}}

\* The bounds are kept as they are while no contact lies beyond them.
MinId(c) == CHOOSE m \in c \cup {Size - 1} : \A p \in c : m <= p
MaxId(c) == CHOOSE m \in c \cup {0} : \A p \in c : p <= m

\* Mutant of IsCloseToHolder: the bounds are excluded.
IsCloseBetween(id) ==
  \E c \in GetClosestContacts(holder_id) : MinId(c) < id /\ id < MaxId(c)

\* Between the contacts closest to the holder, by number.  Without contacts no id is.
IsCloseToHolder(id) ==
  \E c \in GetClosestContacts(holder_id) : MinId(c) <= id /\ id <= MaxId(c)

\* The keys the node is responsible for.
IdInHolderRange(id) == InRange(holder_bucket, id) \/ IsCloseToHolder(id)

\* The contact of id's bucket that was last seen longest ago, of several the one with
\* the least id; none if the bucket is empty.
LastSeenContact(id) ==
  LET before(p, q) == last_seen[p] < last_seen[q] \/ (last_seen[p] = last_seen[q] /\ p < q)
  IN  UNION {{p \in held[b] : \A q \in held[b] \ {p} : before(p, q)} :
               b \in {c \in buckets : IsLowerBound(c, id)}}

-----------------------------------------------------------------------------
(* The interface                                                           *)

\* One round of CRoutingTable::AddContact.
AddContact(p) ==
  /\ adding \in {NoContact, p}
  /\ \E b \in buckets :
       /\ IsLowerBound(b, p)
       /\ IF IsFull(b) /\ b = holder_bucket
            THEN Split(p)
            ELSE LET count == K - Cardinality(held[holder_bucket]) IN
                 /\ IF ~IsFull(b)
                      THEN InsertInto(b, held[b], p)
                      ELSE IF b \in holder_brother_bucket /\ count > 0
                             THEN AddContactForceK(b, p, count)
                             ELSE Refuse
                 /\ is_close_to_holder' = (ret' = "SUCCEED" /\ b = holder_bucket)
                 /\ adding' = NoContact
                 /\ UNCHANGED <<holder_bucket, holder_brother_bucket, now>>

\* It is told of the contact before it is gone.
RemoveContact(p) ==
  /\ adding = NoContact
  /\ \E b \in buckets :
       /\ IsLowerBound(b, p)
       /\ is_close_to_holder' = (b = holder_bucket \/ IsCloseToHolder(p))
       /\ held' = [held EXCEPT ![b] = @ \ {p}]
       /\ ret' = IF p \in held[b] THEN "REMOVED" ELSE "NOT_FOUND"
  /\ last_seen' = [last_seen EXCEPT ![p] = 0]
  /\ UNCHANGED <<holder_bucket, holder_brother_bucket, now, adding>>

Tick ==
  /\ adding = NoContact
  /\ now < MaxTime
  /\ now' = now + 1
  /\ UNCHANGED <<table, adding, ret, is_close_to_holder>>

Next ==
  \/ \E p \in Peer : AddContact(p) \/ RemoveContact(p)
  \/ Tick

Spec == Init /\ [][Next]_vars

\* A call that has begun runs on.
FairSpec == Spec /\ \A p \in Peer : WF_vars(adding = p /\ AddContact(p))

-----------------------------------------------------------------------------
(* Type correctness                                                        *)

\* Every variable holds a value of the type its C++ counterpart is declared with.
TypeOK ==
  /\ buckets \subseteq Bucket
  /\ held \in [buckets -> SUBSET Peer]
  /\ holder_bucket \in buckets
  /\ holder_brother_bucket \subseteq Bucket
  /\ last_seen \in [Peer -> 0 .. MaxTime]
  /\ now \in 0 .. MaxTime
  /\ adding \in Peer \cup {NoContact}
  /\ ret \in {"NONE", "SUCCEED", "FULL", "EXISTED", "REMOVED", "NOT_FOUND"}
  /\ is_close_to_holder \in BOOLEAN

(* Safety                                                                  *)

\* The splits of the holder bucket leave a partition of the id space, in which every
\* contact is in the bucket it belongs to and no bucket holds more than K: lower_bound
\* finds the one bucket an id is in, which the assertions of every operation need.
Partition ==
  /\ \A id \in Id : \E b \in buckets : InRange(b, id)
  /\ \A b, c \in buckets : b # c => High(b) < Low(c) \/ High(c) < Low(b)
  /\ \A b \in buckets :
       /\ \A p \in held[b] : InRange(b, p)
       /\ Cardinality(held[b]) <= K

\* The pointers kept besides the set of buckets never dangle, though each split
\* frees a bucket: the holder bucket is the one with the holder, and the brother
\* buckets are others.
PointersAreValid ==
  /\ holder_bucket \in buckets
  /\ InRange(holder_bucket, holder_id)
  /\ holder_brother_bucket \subseteq buckets \ {holder_bucket}

\* Although buckets are visited one by one, by the distance of their high bounds
\* and only until there are enough contacts, the answer to a FIND_NODE request
\* consists of the contacts closest to the id asked for.
ClosestAreClosest ==
  \A id \in Id : GetClosestContacts(id) = Nearest(contacts, id, K)

\* The store hands its items to the new contacts that the table says are close, and
\* republishes them after it has lost some: a contact it is told of when it is added
\* is one of the K closest to the node, and none of those is removed without word,
\* although the table looks at buckets there and at a range of ids here.
ClosenessIsTold ==
  [][LET closest(c) == UNION Nearest(c, holder_id, K)
     IN  /\ \A p \in contacts' \ contacts : is_close_to_holder' => p \in closest(contacts')
         /\ \A p \in contacts \ contacts' :
              ret' = "REMOVED" /\ p \in closest(contacts) => is_close_to_holder']_vars

\* The rest of the node sees a set of contacts (ContactSet): a split does not
\* change it, and none is displaced before K contacts are known.
Abs == INSTANCE ContactSet
ImplementsContactSet == Abs!Spec

(* Liveness                                                                *)

\* AddContact stops calling itself.
AddingEnds == \A p \in Peer : adding = p ~> adding = NoContact
=============================================================================
