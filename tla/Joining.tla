------------------------------ MODULE Joining ------------------------------
(***************************************************************************)
(* How a CKadNode joins the network, and how it is terminated              *)
(* (kad_node.cpp).                                                         *)
(*                                                                         *)
(* The node pings its bootstrap contacts, alpha at a time.  When K of them *)
(* have answered, or none is left, it searches for its own id; the search  *)
(* fills its routing table, and the node has joined.  A search that fails  *)
(* while there were contacts left is tried again.                          *)
(*                                                                         *)
(* The operators take the part of a node that the procedure works on, a    *)
(* record, to what a callback makes of it.                                 *)
(***************************************************************************)
EXTENDS Integers, Sequences, FiniteSets, SequencesExt

CONSTANTS
  K,                \* contacts that must answer before the search
  alpha,            \* contacts pinged at a time
  attempts_number   \* how often a silent contact is pinged again

ASSUME JoiningAssumption ==
  K \in Nat \ {0} /\ alpha \in Nat \ {0} /\ attempts_number \in Nat

\* What the procedure works on, for a node whose contacts are among P.  pings are
\* the rpc ids of the pings under way, with the contacts they go to; repeats are the
\* rpc ids of those that were sent again, with the attempts; search is that of the
\* join procedure, "again" if it will be tried again; calls are the codes
\* join_callback_ was called with.
Node(P) ==
  [join_state : {"NOT_JOINED", "FIND_NODES_STARTED", "JOINED"}, join_bootstrap_contacts : Seq(P),
   join_pinging_nodesN : Int, join_succeedN : Nat, ping_id_counter : Nat,
   pings : SUBSET (Nat \X P), repeats : SUBSET (Nat \X Nat), search : {"none", "once", "again"},
   calls : Seq({"SUCCEED", "FAILED"})]

\* A node as its constructor leaves it.
NewNode ==
  [join_state |-> "NOT_JOINED", join_bootstrap_contacts |-> <<>>,
   join_pinging_nodesN |-> 0, join_succeedN |-> 0, ping_id_counter |-> 0,
   pings |-> {}, repeats |-> {}, search |-> "none", calls |-> <<>>]

CallBack(nd, code) == [nd EXCEPT !.calls = Append(@, code)]

\* As many of the contacts as may be pinged, from the end of the list.
PingMore(nd) ==
  LET list == nd.join_bootstrap_contacts
      free == alpha - nd.join_pinging_nodesN
      n == IF free < Len(list) THEN free ELSE Len(list)
  IN  [nd EXCEPT !.pings = @ \cup {<<nd.ping_id_counter + k, list[Len(list) - k]>> : k \in 0 .. n - 1},
                 !.join_bootstrap_contacts = SubSeq(list, 1, Len(list) - n),
                 !.join_pinging_nodesN = @ + n,
                 !.ping_id_counter = @ + n]

JoinNetwork(bootstrap_contacts) ==
  PingMore([NewNode EXCEPT !.join_bootstrap_contacts = bootstrap_contacts])

\* FindCloseNodes for the node's own id.
StartSearch(nd) ==
  [nd EXCEPT !.join_state = "FIND_NODES_STARTED",
             !.search = IF nd.join_bootstrap_contacts # <<>> THEN "again" ELSE "once"]

\* Mutant of MaySearch: also when a search was started before.
MaySearchTwice(nd) == nd.join_succeedN >= K \/ nd.join_bootstrap_contacts = <<>>

MaySearch(nd) ==
  /\ nd.join_state = "NOT_JOINED"
  /\ nd.join_succeedN >= K \/ nd.join_bootstrap_contacts = <<>>

\* attempts of the PingRequestData.
Attempts(nd, p) == Cardinality({k \in 1 .. attempts_number : <<p[1], k>> \in nd.repeats})

PingRepeated(nd, p) == [nd EXCEPT !.repeats = @ \cup {<<p[1], Attempts(nd, p) + 1>>}]

\* The ping p is gone; what its callback counts before it goes on.
PingEnded(nd, p, code) ==
  [nd EXCEPT !.pings = @ \ {p},
             !.repeats = {r \in @ : r[1] # p[1]},
             !.join_pinging_nodesN = @ - 1,
             !.join_succeedN = IF code = "SUCCEED" THEN @ + 1 ELSE @]

\* Mutant of Join_PingCallback: once the search is started, the rest are not pinged.
PingNoMore(node, p, code) ==
  LET nd == PingEnded(node, p, code)
  IN  IF ~MaySearch(nd) THEN PingMore(nd)
      ELSE IF nd.join_succeedN = 0 THEN CallBack(nd, "FAILED")
      ELSE StartSearch(nd)

\* The ping p has ended with code.
Join_PingCallback(node, p, code) ==
  LET nd == PingEnded(node, p, code)
  IN  IF MaySearch(nd) /\ nd.join_succeedN = 0 THEN CallBack(nd, "FAILED")
      ELSE PingMore(IF MaySearch(nd) THEN StartSearch(nd) ELSE nd)

\* Mutant of Join_FindNodeCallback: the last failure is not reported.
FailSilently(nd, code) ==
  IF code = "SUCCEED"
    THEN CallBack([nd EXCEPT !.join_state = "JOINED", !.search = "none"], "SUCCEED")
  ELSE IF nd.search = "again" THEN StartSearch(nd)
  ELSE [nd EXCEPT !.join_state = "NOT_JOINED", !.search = "none"]

\* The search of the join procedure has ended with code; TERMINATED is a failure.
Join_FindNodeCallback(nd, code) ==
  IF code = "SUCCEED"
    THEN CallBack([nd EXCEPT !.join_state = "JOINED", !.search = "none"], "SUCCEED")
  ELSE IF nd.search = "again" THEN StartSearch(nd)
  ELSE CallBack([nd EXCEPT !.join_state = "NOT_JOINED", !.search = "none"], "FAILED")

\* The pings of the contacts that are left, in the order of their rpc ids.
Further(nd) ==
  [k \in 1 .. Len(nd.join_bootstrap_contacts) |->
     <<nd.ping_id_counter + k - 1, Reverse(nd.join_bootstrap_contacts)[k]>>]

\* TerminatePingRequests goes through the pings by their ids.  Each callback pings
\* the next contact, so that the whole list is pinged and terminated.
TerminatePingRequests(node) ==
  LET ps == SetToSortSeq(node.pings, LAMBDA p, q : p[1] < q[1]) \o Further(node)
      n == Cardinality(node.pings) + Len(node.join_bootstrap_contacts)
      after[k \in 0 .. n] ==
        IF k = 0 THEN node ELSE Join_PingCallback(after[k - 1], ps[k], "TERMINATED")
  IN  after[n]

\* The join procedure's search is terminated, if it has one.
TerminateOneSearch(nd) ==
  IF nd.search = "none" THEN nd ELSE Join_FindNodeCallback(nd, "TERMINATED")

\* TerminateFindRequests erases a search and goes on to the next one before it calls
\* back.  The search that the callback tries again has the greatest id of all: it is
\* terminated too if another one followed, and is left if the loop was at its end.
TerminateFindRequests(nd, followed) ==
  LET last == TerminateOneSearch(nd)
  IN  IF followed THEN TerminateOneSearch(last) ELSE last

\* Mutant of Terminate: the searches are terminated first.
TerminateSearchesFirst(nd, followed) == TerminatePingRequests(TerminateFindRequests(nd, followed))

\* followed: searches of other procedures began after that of the join procedure.
Terminate(nd, followed) == TerminateFindRequests(TerminatePingRequests(nd), followed)
=============================================================================
