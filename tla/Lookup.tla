------------------------------ MODULE Lookup ------------------------------
(***************************************************************************)
(* The iterative searches of one CKadNode: FindCloseNodes and FindValue,   *)
(* their answers and their timeouts (kad_node.cpp).                        *)
(*                                                                         *)
(* A search keeps a set of candidates ordered by their distance to the     *)
(* target and asks at most alpha of them at a time.  A candidate that does *)
(* not answer within timeout_period is asked again, attempts_number times  *)
(* at most, and is then DOWN.  The search is over when nothing is pending  *)
(* and none of the candidates closer than its K-th answer is left to ask.  *)
(* All of this is done by callbacks of a single-threaded scheduler, so an  *)
(* action below is one callback, run to its end.  The exception is a       *)
(* callback that reports the result of a search: the code it calls may     *)
(* start further searches before FinishSearch disposes of this one, and    *)
(* calling remembers the search that is left in the middle.                *)
(*                                                                         *)
(* The peers and the transport are the environment.  A node that was asked *)
(* may answer at once, late, several times or never, with any nodes; the   *)
(* timeout of a question may fire at any moment while it is scheduled.     *)
(***************************************************************************)
EXTENDS Distance

CONSTANTS
  Self,             \* my_info
  Target,           \* the ids searched for
  K,                \* size of an answer and of a bucket
  alpha,            \* questions a search may have outstanding
  attempts_number,  \* how often a silent candidate is asked again
  MaxFinds          \* bound: searches started in a behaviour

ASSUME LookupAssumption ==
  /\ IsFiniteSet(Id)
  /\ Self \in Id
  /\ Target \subseteq Id
  /\ K \in Nat \ {0}
  /\ alpha \in Nat \ {0}
  /\ attempts_number \in Nat
  /\ MaxFinds \in Nat

FindId == 0 .. MaxFinds - 1
FindType == {"FIND_NODE", "FIND_VALUE"}

\* Candidate::type; "NONE" is an id that is not in data->candidates.
CandidateType == {"NONE", "UNKNOWN", "PENDING", "DOWN", "UP"}

\* What a callback is given, and what the downlist procedure is.
Outcome == [code : {"NONE", "SUCCEED", "FAILED"}, nodes : SUBSET Id]
Downlist == [down : SUBSET Id, to : SUBSET Id]

VARIABLES
  contacts,        \* the contacts of the routing table
  find_id_counter,
  find_requests,   \* the searches in progress
  type,            \* FindRequestData::type ...
  target,          \* ... target ...
  cand,            \* ... and candidates
  attempts,        \* Candidate::attempts
  pending_nodes,
  requests_total,
  jobs,            \* the scheduled FindRequestTimeout jobs, by owner
  sent,            \* the nodes a search has put a question to
  calling,         \* the search whose result is being reported, or NoCall
  calls,           \* how often the callback of a search was called ...
  outcome,         \* ... and what it was last called with
  cached,          \* where a value found was sent to be stored (StoreToNode)
  downlists,       \* what was handed to the downlist procedure
  aborted          \* an assertion has stopped the program

RT == INSTANCE ContactSet

NoCall == -1

asking == <<cand, attempts, pending_nodes, requests_total, jobs, sent>>
reporting == <<calling, calls, outcome>>
search == <<find_requests, type, target, asking, reporting, cached, downlists>>
vars == <<contacts, find_id_counter, search, aborted>>

NoCandidates == [n \in Id |-> "NONE"]
NoAttempts == [n \in Id |-> 0]

InState(ct, s) == {n \in Id : ct[n] = s}
Owners(id, ns) == {<<id, n>> : n \in ns}

\* A node that has just heard from someone.
Init ==
  /\ contacts \in SUBSET (Id \ {Self}) \ {{}}
  /\ find_id_counter = 0
  /\ find_requests = {}
  /\ type = [i \in FindId |-> "FIND_NODE"]
  /\ target = [i \in FindId |-> Self]
  /\ cand = [i \in FindId |-> NoCandidates]
  /\ attempts = [i \in FindId |-> NoAttempts]
  /\ pending_nodes = [i \in FindId |-> 0]
  /\ requests_total = [i \in FindId |-> 0]
  /\ jobs = {}
  /\ sent = [i \in FindId |-> {}]
  /\ calling = NoCall
  /\ calls = [i \in FindId |-> 0]
  /\ outcome = [i \in FindId |-> [code |-> "NONE", nodes |-> {}]]
  /\ cached = [i \in FindId |-> {}]
  /\ downlists = [i \in FindId |-> [down |-> {}, to |-> {}]]
  /\ aborted = FALSE

-----------------------------------------------------------------------------
(* Asking                                                                  *)

\* Mutant of Eligible: the walk stops one answer early.
EligibleStopsEarly(ct, t) ==
  {n \in InState(ct, "UNKNOWN") \ {Self} :
     Cardinality({m \in InState(ct, "UP") : Closer(t, m, n)}) < K - 1}

\* The candidates SendFindRequestToOneNode(data) would still ask: it walks
\* them by distance, stops after K that are UP, and leaves itself out.
Eligible(ct, t) ==
  {n \in InState(ct, "UNKNOWN") \ {Self} :
     Cardinality({m \in InState(ct, "UP") : Closer(t, m, n)}) < K}

\* SendFindRequestToOneNode(data, cand) for every node of ns: mark it PENDING,
\* send the request, schedule its timeout.  ct, p and jb are the candidates,
\* pending_nodes and the jobs so far.
Ask(id, ct, ns, p, jb) ==
  /\ cand' = [cand EXCEPT ![id] = [n \in Id |-> IF n \in ns THEN "PENDING" ELSE ct[n]]]
  /\ pending_nodes' = [pending_nodes EXCEPT ![id] = p + Cardinality(ns)]
  /\ requests_total' = [requests_total EXCEPT ![id] = @ + Cardinality(ns)]
  /\ jobs' = jb \cup Owners(id, ns)
  /\ sent' = [sent EXCEPT ![id] = @ \cup ns]

-----------------------------------------------------------------------------
(* Reporting                                                               *)

\* find_node_callback_ or find_value_callback_ is entered.
CallBack(id, code, nodes) ==
  /\ calling' = id
  /\ calls' = [calls EXCEPT ![id] = @ + 1]
  /\ outcome' = [outcome EXCEPT ![id] = [code |-> code, nodes |-> nodes]]

\* Mutant of Reportable: a node that was only named is reported.
ReportableIfNamed(ct) == {n \in Id : ct[n] # "NONE"}

Reportable(ct) == InState(ct, "UP")

\* CallFindNodeCallback passes the K closest nodes that are UP; a search for a
\* value that comes to its end has not found it.
ReportEnd(id, ct) ==
  IF type[id] = "FIND_NODE"
    THEN \E nodes \in Nearest(Reportable(ct), target[id], K) :
           CallBack(id, IF nodes = {} THEN "FAILED" ELSE "SUCCEED", nodes)
    ELSE CallBack(id, "FAILED", {})

\* The tail common to the answers and the timeout: fill up to alpha questions,
\* and report if none is outstanding.
Advance(id, ct, p, jb) ==
  /\ \E ns \in Nearest(Eligible(ct, target[id]), target[id], alpha - p) :
       /\ Ask(id, ct, ns, p, jb)
       /\ IF p + Cardinality(ns) = 0 THEN ReportEnd(id, ct) ELSE UNCHANGED reporting
  /\ UNCHANGED <<find_id_counter, find_requests, type, target, cached, downlists, aborted>>

\* Mutant of TimeoutsOf: the search is freed with its timeouts scheduled.
NoTimeouts(id) == {}

TimeoutsOf(id) == Owners(id, InState(cand[id], "PENDING"))

\* What follows the callback.  A value found is stored at the closest other node
\* that is UP.  FinishSearch cancels the timeouts of the PENDING candidates and
\* frees the search; DoDownlistRequests drops the DOWN ones from the routing
\* table and reports them to those that are UP.
FinishSearch(id) ==
  LET down == InState(cand[id], "DOWN")
      up == InState(cand[id], "UP")
      found == type[id] = "FIND_VALUE" /\ outcome[id].code = "SUCCEED"
  IN  /\ ~aborted
      /\ calling = id
      /\ calling' = NoCall
      /\ \E closest \in Nearest(IF found THEN up \ outcome[id].nodes ELSE {}, target[id], 1) :
           cached' = [cached EXCEPT ![id] = closest]
      /\ jobs' = jobs \ TimeoutsOf(id)
      /\ find_requests' = find_requests \ {id}
      /\ cand' = [cand EXCEPT ![id] = NoCandidates]
      /\ attempts' = [attempts EXCEPT ![id] = NoAttempts]
      /\ pending_nodes' = [pending_nodes EXCEPT ![id] = 0]
      /\ contacts' = contacts \ down
      /\ downlists' = IF down = {} \/ up = {}
                        THEN downlists
                        ELSE [downlists EXCEPT ![id] = [down |-> down, to |-> up]]
      /\ UNCHANGED <<find_id_counter, type, target, requests_total, sent, calls, outcome, aborted>>

-----------------------------------------------------------------------------
(* The interface.  The caller may itself be the callback of a search.      *)

SomeoneIsKnown == contacts # {}

\* CreateFindData, then up to alpha questions to the closest contacts.
StartSearch(ty, t) ==
  LET id == find_id_counter IN
  /\ ~aborted
  /\ id < MaxFinds
  /\ SomeoneIsKnown
  /\ find_id_counter' = id + 1
  /\ find_requests' = find_requests \cup {id}
  /\ type' = [type EXCEPT ![id] = ty]
  /\ target' = [target EXCEPT ![id] = t]
  /\ \E closest \in Nearest(contacts, t, K) :
       LET ct == [n \in Id |-> IF n \in closest THEN "UNKNOWN" ELSE "NONE"] IN
       \E ns \in Nearest(Eligible(ct, t), t, alpha) : Ask(id, ct, ns, 0, jobs)
  /\ UNCHANGED <<contacts, attempts, reporting, cached, downlists, aborted>>

FindCloseNodes(t) == StartSearch("FIND_NODE", t)

FindValue(t) == StartSearch("FIND_VALUE", t)

\* FindValue of a key this node stores itself calls back at once.
FindValueInStore(t) ==
  LET id == find_id_counter IN
  /\ ~aborted
  /\ id < MaxFinds
  /\ find_id_counter' = id + 1
  /\ type' = [type EXCEPT ![id] = "FIND_VALUE"]
  /\ target' = [target EXCEPT ![id] = t]
  /\ calls' = [calls EXCEPT ![id] = @ + 1]
  /\ outcome' = [outcome EXCEPT ![id] = [code |-> "SUCCEED", nodes |-> {}]]
  /\ UNCHANGED <<contacts, find_requests, asking, calling, cached, downlists, aborted>>

\* CreateFindData asserts that the routing table knows someone.
AssertionFails ==
  /\ ~aborted
  /\ find_id_counter < MaxFinds
  /\ ~SomeoneIsKnown
  /\ aborted' = TRUE
  /\ UNCHANGED <<contacts, find_id_counter, search>>

-----------------------------------------------------------------------------
(* Answers and timeouts                                                    *)

\* The scheduler or the transport calls the node: nothing else is running.
Idle == ~aborted /\ calling = NoCall

\* What an answer does to the candidate n before its contents are looked at.
Up(id, n) == [cand[id] EXCEPT ![n] = "UP"]

\* Mutant of PendingAfterAnswer: the answer is not counted.
PendingNotCounted(id, n) == pending_nodes[id]

PendingAfterAnswer(id, n) ==
  IF cand[id][n] = "PENDING" THEN pending_nodes[id] - 1 ELSE pending_nodes[id]

\* Mutant of Update: a candidate named again is reset.
UpdateResets(ct, nodes) == [n \in Id |-> IF n \in nodes THEN "UNKNOWN" ELSE ct[n]]

\* FindRequestData::Update: only ids that are not candidates yet are inserted.
Update(ct, nodes) ==
  [n \in Id |-> IF n \in nodes /\ ct[n] = "NONE" THEN "UNKNOWN" ELSE ct[n]]

\* Mutant of IsKnown: the early returns are missing.
IsAlwaysKnown(id, n) == TRUE

\* GetFindData and GetCandidate find something.
IsKnown(id, n) == id \in find_requests /\ cand[id][n] # "NONE"

\* An answer to a search that is over only feeds the routing table.
LateAnswer(id, n) ==
  /\ Idle
  /\ n \in sent[id]
  /\ ~IsKnown(id, n)
  /\ contacts' \in RT!AddContact(contacts, n)
  /\ UNCHANGED <<find_id_counter, search, aborted>>

\* OnFindNodeResponse, and OnFindValueResponse without a value
Answer(id, n, nodes) ==
  /\ Idle
  /\ n \in sent[id]
  /\ IsKnown(id, n)
  /\ contacts' \in RT!AddContact(contacts, n)
  /\ UNCHANGED attempts
  /\ Advance(id, Update(Up(id, n), nodes), PendingAfterAnswer(id, n), jobs \ {<<id, n>>})

\* OnFindValueResponse with a value reports it whatever is still pending.
AnswerWithValue(id, n) ==
  /\ Idle
  /\ n \in sent[id]
  /\ IsKnown(id, n)
  /\ type[id] = "FIND_VALUE"
  /\ contacts' \in RT!AddContact(contacts, n)
  /\ cand' = [cand EXCEPT ![id] = Up(id, n)]
  /\ pending_nodes' = [pending_nodes EXCEPT ![id] = PendingAfterAnswer(id, n)]
  /\ jobs' = jobs \ {<<id, n>>}
  /\ CallBack(id, "SUCCEED", {n})
  /\ UNCHANGED <<find_id_counter, find_requests, type, target, attempts, requests_total,
                 sent, cached, downlists, aborted>>

\* Mutant of AfterTimeout: attempts is compared with <=.
AfterTimeoutOnceMore(id, n) ==
  [cand[id] EXCEPT ![n] = IF attempts[id][n] <= attempts_number THEN "UNKNOWN" ELSE "DOWN"]

\* A silent candidate can be asked again, or is given up.
AfterTimeout(id, n) ==
  [cand[id] EXCEPT ![n] = IF attempts[id][n] < attempts_number THEN "UNKNOWN" ELSE "DOWN"]

FindRequestTimeout(id, n) ==
  /\ Idle
  /\ <<id, n>> \in jobs
  /\ attempts' = [attempts EXCEPT ![id][n] = @ + 1]
  /\ UNCHANGED contacts
  /\ Advance(id, AfterTimeout(id, n), pending_nodes[id] - 1, jobs \ {<<id, n>>})

-----------------------------------------------------------------------------
\* The routing table also changes while a search waits: requests of other
\* nodes add contacts, pings that fail remove them.
OtherTraffic ==
  /\ Idle
  /\ \E p \in Id \ {Self} :
       contacts' \in RT!AddContact(contacts, p) \cup {RT!RemoveContact(contacts, p)}
  /\ UNCHANGED <<find_id_counter, search, aborted>>

\* The nodes a peer may name: GetClosestContacts returns K of them at most.
Reply == {ns \in SUBSET Id : Cardinality(ns) <= K}

Next ==
  \/ \E t \in Target : FindCloseNodes(t) \/ FindValue(t) \/ FindValueInStore(t)
  \/ AssertionFails
  \/ \E id \in FindId : FinishSearch(id)
  \/ \E id \in FindId, n \in Id :
       \/ LateAnswer(id, n)
       \/ \E nodes \in Reply : Answer(id, n, nodes)
       \/ AnswerWithValue(id, n)
       \/ FindRequestTimeout(id, n)
  \/ OtherTraffic

Spec == Init /\ [][Next]_vars

\* The scheduler runs every job that is not cancelled once its time has come,
\* and a callback returns.
FairSpec ==
  /\ Spec
  /\ \A id \in FindId : WF_vars(FinishSearch(id))
  /\ \A id \in FindId, n \in Id : WF_vars(FindRequestTimeout(id, n))

-----------------------------------------------------------------------------
(* Type correctness                                                        *)

\* Every variable holds a value of the type its C++ counterpart is declared with.
TypeOK ==
  /\ contacts \in SUBSET (Id \ {Self})
  /\ find_id_counter \in 0 .. MaxFinds
  /\ find_requests \in SUBSET FindId
  /\ type \in [FindId -> FindType]
  /\ target \in [FindId -> Id]
  /\ cand \in [FindId -> [Id -> CandidateType]]
  /\ attempts \in [FindId -> [Id -> Nat]]
  /\ pending_nodes \in [FindId -> Int]
  /\ requests_total \in [FindId -> Nat]
  /\ jobs \in SUBSET (FindId \X Id)
  /\ sent \in [FindId -> SUBSET (Id \ {Self})]
  /\ calling \in find_requests \cup {NoCall}
  /\ calls \in [FindId -> Nat]
  /\ outcome \in [FindId -> Outcome]
  /\ cached \in [FindId -> SUBSET Id]
  /\ downlists \in [FindId -> Downlist]
  /\ aborted \in BOOLEAN

(* Safety                                                                  *)

\* A scheduled timeout holds raw pointers to a search and a candidate.  It is
\* scheduled exactly for the PENDING candidates of the searches in progress, so
\* none fires on freed memory or on a candidate that has answered.
JobsArePending ==
  jobs = {j \in FindId \X Id : j[1] \in find_requests /\ cand[j[1]][j[2]] = "PENDING"}

\* pending_nodes, kept by hand across answers, late answers and timeouts, is the
\* number of PENDING candidates and never exceeds alpha.
PendingIsCounted ==
  \A id \in find_requests :
    /\ pending_nodes[id] = Cardinality(InState(cand[id], "PENDING"))
    /\ pending_nodes[id] <= alpha

\* A search in progress that is not just reporting waits for an answer, or it
\* would never be resumed and its callback never called.
NeverStuck == \A id \in find_requests \ {calling} : pending_nodes[id] > 0

\* The callback of a search is called once: not while something is pending, and
\* not again by an answer that comes during the callback's own searches or later.
CalledBackOnce ==
  \A id \in FindId :
    calls[id] = IF id < find_id_counter /\ (id \notin find_requests \/ id = calling) THEN 1 ELSE 0

\* A candidate is asked again attempts_number times at most, whatever answers
\* arrive late or twice.
RequestsAreBounded ==
  \A id \in find_requests :
    requests_total[id] <=
      (attempts_number + 1) * Cardinality({n \in Id : cand[id][n] # "NONE"} \ {Self})

\* A candidate that has answered stays UP until the search is over, whichever
\* of its timeouts and repeated answers come afterwards.
AnsweredStaysUp ==
  [][\A id \in find_requests, n \in Id :
       cand[id][n] = "UP" /\ id \in find_requests' => cand'[id][n] = "UP"]_vars

\* What FindCloseNodes hands to its callback: every other candidate has been
\* given up, or is this node, or is farther than all the K nodes returned.
ResultIsClosest ==
  \A id \in find_requests :
    calling = id /\ type[id] = "FIND_NODE" =>
      LET found == outcome[id].nodes IN
      \A n \in {m \in Id : cand[id][m] # "NONE"} \ (found \cup {Self}) :
        \/ cand[id][n] = "DOWN"
        \/ Cardinality(found) = K /\ \A m \in found : Closer(target[id], m, n)

\* The assertion of CreateFindData.
ClosestContactsKnown == ~aborted

(* Refinement                                                              *)

Phase(id) ==
  CASE id >= find_id_counter -> "unused"
    [] id < find_id_counter /\ id = calling -> "reporting"
    [] id \in find_requests /\ id # calling -> "running"
    [] OTHER -> "over"

Abs == INSTANCE SearchService WITH
  phase <- [id \in FindId |-> Phase(id)],
  kind <- type,
  goal <- target,
  heard <- [id \in FindId |-> InState(cand[id], "UP")],
  result <- outcome,
  stored <- cached

\* The candidates, questions and timeouts implement the search service: one
\* report per search, made from the nodes that answered, which never include
\* one that was only named by others.
ImplementsService == Abs!Spec

(* Liveness                                                                *)

\* Every search ends and calls back, even if no node ever answers.
EverySearchEnds ==
  \A id \in FindId : id \in find_requests ~> id \notin find_requests \/ aborted
=============================================================================
