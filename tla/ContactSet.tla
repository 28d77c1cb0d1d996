---------------------------- MODULE ContactSet ----------------------------
(***************************************************************************)
(* What the rest of a node may rely on about its routing table, and no     *)
(* more: a set of contacts that hearing from a node or losing one changes. *)
(* CRoutingTable keeps its contacts in buckets of at most K; which bucket  *)
(* an id falls in, and so whether an insertion is refused or displaces     *)
(* another contact, is left open here.  RoutingTable.tla is the detailed   *)
(* specification and implements this one.                                  *)
(***************************************************************************)
EXTENDS Integers, FiniteSets

CONSTANTS
  Id,  \* the ids a contact may have
  K    \* capacity of one bucket

VARIABLE contacts

\* The contact sets CRoutingTable::AddContact may leave behind: the new
\* contact is added (SUCCEED), refused (FULL), already there (EXISTED), or takes
\* the place of another (the forced insertion).  Nothing is refused
\* or displaced before some bucket can be full.  A forced insertion of a contact
\* that the bucket already holds drops another one and adds nothing.
AddContact(c, p) ==
  IF Cardinality(c) < K
    THEN {c \cup {p}}
    ELSE {c, c \cup {p}} \cup {(c \ {q}) \cup {p} : q \in c}

\* CRoutingTable::RemoveContact
RemoveContact(c, p) == c \ {p}

Init == contacts = {}

Add(p) == contacts' \in AddContact(contacts, p)

Remove(p) == contacts' = RemoveContact(contacts, p)

Next == \E p \in Id : Add(p) \/ Remove(p)

Spec == Init /\ [][Next]_contacts
=============================================================================
