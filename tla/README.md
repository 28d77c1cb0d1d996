# Verification of dhtpp

dhtpp is a Kademlia distributed hash table with the optimisations of a study
of its parameters (ForceK, downlists, beta-distributed republishing), and a
discrete-event simulator that runs some twenty thousand nodes of it in one
process. This directory holds TLA+ models of its components, the TLC
configurations that check them, and proofs that TLAPS checks. The code has no
documentation besides its comments, assertions and `test/main.cpp`; what the
models say is taken from the code.

## The system

Everything runs on one thread: `CJobScheduler` takes the first job of its queue,
sets the virtual clock to its time and calls it. Jobs are timeouts of requests,
messages arriving, republishing of items, and the simulator's own. A component
calls another directly or is called back through a `boost::function`; there is no
parallelism, but callbacks are re-entrant, requests overlap, and messages are lost
and delayed. What makes the system hard is therefore *interleaving of callbacks*,
*late and lost answers racing timeouts*, and *raw pointers* (to searches,
candidates, buckets) that jobs and members keep.

| Component | State | Operations | Used by / uses |
|---|---|---|---|
| Node ids (`node_id.h`) | 20 bytes, big endian | `+ - >> ^ <` | all |
| Routing table (`routing_table.cpp`, `kbucket.cpp`) | buckets by high bound, `holder_bucket`, `holder_brother_bucket[]`, `last_seen` of each contact | `AddContact` (split, ForceK), `RemoveContact`, `GetClosestContacts`, queries | the node, on every message; the item store (is an id near me?) |
| Job scheduler (`job_scheduler.cpp`) | jobs by time and by owner, clock | `AddJob_`, `CancelJobsByOwner`, `Run`, `Stop` | all |
| Searches (`kad_node.cpp` 203-498) | `find_requests`: candidates (UNKNOWN, PENDING, DOWN, UP), `pending_nodes`, timeouts | `FindCloseNodes`, `FindValue`, their answers and timeouts, `FinishSearch` | store procedure, join, simulator; uses routing table, scheduler, transport, downlist and store procedures |
| Contact check and pings (84-178) | `ping_requests`, `last_seen_contacts` | `UpdateRoutingTable`, `DoAddContact`, `Ping`, its answer and timeout | every handler; routing table, item store |
| Downlist procedure (180-201, 662-722) | `downlist_requests` | `DoDownlistRequests`, answers, timeouts; `OnDownlistRequest` | searches; pings |
| Store procedure (500-606) | `store_requests` | `Store`, `StoreToNode`, `DoStore`, answers, timeouts | simulator, item store, searches |
| Joining, terminating (612-660, 724-786) | `join_state`, counters, bootstrap list | `JoinNetwork`, callbacks, `Terminate` | simulator; pings, searches |
| Item store (`store.cpp`) | items with expiration time and `max_distance`, one republish job each | `StoreItem`, `OnNewContact`, `OnRemoveContact`, `RepublishItem` | the node; store procedure, routing table |
| SHA-1 (`sha1/`) | chaining state, count of bits, buffer | `Reset`, `Update`, `Final`, `GetHash` | simulator: ids and keys |
| Messages, transport interface (`kad_rpc.h`, `transport.h`) | - | ten `Send...` calls, ten handlers | node, simulator |
| Simulator (`simulator.cpp`) | live and inactive nodes, messages as jobs, the values to store | loss, delay, loopback, churn, storing and looking up values | - |
| Statistics (`stats.cpp`) | counters, files | - | simulator |

### What makes each component correct

* **Node ids**: arithmetic is that of 160-bit numbers; `<` orders them; XOR tells
  any two ids apart from a third.
* **Routing table**: the buckets partition the id space whatever was split; no pointer to
  a bucket dangles; a bucket holds what belongs in it and no more than K; a
  contact is lost only when it is removed or displaced by one other; the answer to
  a query is the closest K.
* **Job scheduler**: jobs run at their times, in order; each of them, unless jobs without delay are added for ever.
* **Searches**: each ends and calls back once; its counters and timeouts stay in
  step with its candidates whatever answers come late, twice or never; the
  result is the closest that answer.
* **Contact check and pings**: a request has one timeout; a contact is pinged for one
  reason at a time, and forgotten by `last_seen_contacts` in the end.
* **Downlist and store procedures**: each ends, calls back once, truly, and frees its nodes with
  their timeouts.
* **Joining, terminating**: the procedure goes on until it has joined or failed, and joins once; nothing runs on
  after `Terminate`.
* **Item store**: one republish job per unexpired item; a copy expires with the item, but for the time of the search before it is sent.
* **Simulator**: a node's jobs go with it; each value is stored once.
* **SHA-1**: the digest depends on the message alone, not on how it is cut.

## The plan

All modules of the plan are in this directory, in the order they were written:

1. `Distance`, `Lookup` with `ContactSet` (what a search needs of the routing
   table) and `SearchService` (what a search promises).
2. `RoutingTable`, which implements `ContactSet`; later `RoutingTable_proofs`.
3. `JobScheduler`, `NodeId`.
4. `Lookup_proofs`, `JobScheduler_proofs`.
5. `Pings`: the contact check, `Ping`, `OnDownlistRequest`, across deactivations; `Pings_proofs`.
6. `AskAll`, what a procedure promises that asks a set of nodes; `Storing` (the store procedure
   with the item store) and `Downlists`, which implement it; `Storing_proofs`, `Downlists_proofs`.
7. `Joining`, operators on one node, and `Simulator`, which composes several nodes, the transport and churn.
8. `Digest`.

9. `Simulator_proofs`, and the second half of `Lookup_proofs` and `RoutingTable_proofs`: the refinement of `SearchService`, the closest contacts.
10. `NodeId_proofs`: the arithmetic, and that the XOR is the distance the other modules assume.

Worth doing next: a proof that the blocks of `Digest` are those of the padded message, by an invariant that relates `m_buffer`, `m_state` and `message`.

## The modules

### Distance

`Closer` is what the comparators of `contact.h` and `CandidateLite::operator<` do:
two ids compared by their XOR distance to a third. The models take the distance as
a constant function and need only `DistAssumption`: no two ids tie. `NodeId_proofs`
shows that XOR does this; the instances use XOR (`^^`). `Nearest(S, t, k)` holds the set
of the k closest of `S`.

### Lookup

One node and its searches. A variable stands for each member of `FindRequestData`,
indexed by the search's id: `type`, `target`, `cand` (the state of every
candidate, "NONE" for an id that is none), `attempts`, `pending_nodes`, `requests_total`;
`find_requests` is the set of searches, `find_id_counter` its counter. `jobs` are the
`FindRequestTimeout` jobs by their owner, the candidate. `contacts` is the routing table as
`ContactSet` sees it. `calls`, `outcome`, `cached`, `downlists` record what was handed
to the callback, to `StoreToNode` and to `DoDownlistRequests`; `sent` records who was asked, so
that only those answer.

| Action | Code |
|---|---|
| `FindCloseNodes`, `FindValue` | the calls, `CreateFindData` and the first alpha questions |
| `FindValueInStore` | `FindValue` of a key in the node's own store |
| `AssertionFails` | the assertion of `CreateFindData` |
| `Answer` | `OnFindNodeResponse`, and `OnFindValueResponse` without a value: cancel, count, `Update`, ask on, report when nothing is pending |
| `AnswerWithValue` | `OnFindValueResponse` with a value, up to its callback |
| `LateAnswer` | an answer that meets an early return: the search is over |
| `FindRequestTimeout` | a timeout: ask again or give up, ask on, report |
| `FinishSearch` | what follows the callback: `StoreToNode`, cancelling, freeing, removal of DOWN nodes, downlist |
| `OtherTraffic` | contacts come and go by other messages meanwhile |

The loops `while (pending_nodes < alpha && SendFindRequestToOneNode(data))` ask the closest
UNKNOWN candidates that have fewer than K UP ones before them; since asking
changes no other candidate to UP, the loop's result is a set: `Nearest(Eligible(...), ..., alpha - p)`.

*Re-entrancy.* A callback runs before `FinishSearch` and may start searches. Reporting is therefore a
step that sets `calling`; then only the interface (`FindCloseNodes`, `FindValue`, ...) and `FinishSearch`
can run, since the scheduler is not reached before the callback returns. A callback that calls back at once
(`FindValueInStore`) is one step: what it does is covered by the steps after it.

*The environment.* A node that was asked may answer at any time, any number of times,
with any set of K nodes or fewer, itself and this node included: `ITransport` promises neither
an upper bound on delays nor single delivery (the simulator delivers a
node's message to itself twice). Messages are not kept in a variable: every answer that some
message could bring is always possible. A timeout may fire whenever it is
scheduled; its order with respect to others depends on delays the model leaves open.

*Simplifications.* An id stands for a `NodeInfo`: `*cand == my_info` compares addresses, and
one address has one id. The contacts never include the node itself: no node
sends itself a ping or a search. The item store's reaction to new contacts
(`OnNewContact`) is not part of the module.

`SearchService` is the abstract specification: a search collects who answers and reports
once, the K closest of those (or the one with the value). `ImplementsService` is the
refinement: `phase` is computed from `find_requests`, `find_id_counter` and `calling`,
`heard` is the set of UP candidates.

### RoutingTable

`held` maps each bucket, named by its bounds, to its contacts; its domain is the
`buckets` set. `holder_bucket` and `holder_brother_bucket` are the pointers. `Split`
computes bounds as the code does, including the `+ 1` and the shifts by `rt_r` and
`rt_b - rt_r`, which are those of `config.h`; a wrong bound would show up as a bucket
with the wrong name. `AddContact` calls itself after a split: one round is a step, `adding` is the
pending call, nothing else runs between.

ForceK: `Farthest` is what `partial_sort` puts in front, `SortedByLastSeen` the orders
`std::sort` may leave equal time stamps in, `LessUseful` the loop that is meant to find the
least weight. What it shows of the code: `partial_sort` puts the count *farthest* contacts first, so that a new
contact is compared with the nearest of them, although the comment says "in _count_ closest" (kbucket.cpp:82); the loop assigns `weight = less_useful_weight`
(108) the wrong way round, so that the last contact lighter than the first one is displaced, not the lightest; and a contact that the full bucket already holds displaces
another one and takes no place (113). `ContactSet` allows for all three. The comparators `<=` and `>=` handed to the sort functions are not strict; no two ids
tie, so they order like `<` and `>`.

`GetClosestContacts` follows the code: the id's own bucket, then the others by the distance of their high
bounds, from the second on, until there are enough. `IsCloseToHolder` takes the range between the least and the greatest id of that answer;
`is_close_to_holder` is what `AddContact` and `RemoveContact` tell their callers. `AddContact` tells of contacts of the holder bucket only:
one that is among the K closest but in another bucket comes unnoticed and goes with notice.

`ContactSet` is the abstract specification of the table for the rest of the node. It includes what a
forced insertion does to a full brother bucket: displacing a contact, and also losing one without adding another.

### NodeId

The operators with their carries, on ids of `Length` bytes of `Bits` bits. The carry into each byte is a
recursive function of its index, which is the loop from the last byte to the first. `id` is changed in place; `was`, `op` and `arg`
keep what the last operator was applied to. `Power` stands for `^` and `ByteXor` for C's `^` on bytes: both are recursive functions, so that proofs can unfold them.

### JobScheduler

Jobs are numbered by insertion, as the ordered index keeps equal times in insertion order. `state` says
whether the loop or a job (or the code before `Run`) has control; only the latter add, cancel and stop. A
wait sets the clock forward (`CVirtualSemaphore::Wait`), by an `int` of milliseconds (`Narrowed`): it is assumed that no delay is longer than that,
some 24 days, as none of the configured times is. The semaphore's count is never read and
`CVirtualMutex` never waits: both are left out.

The supply of jobs is endless: only how many wait at a time is bounded. `EveryJobRuns` therefore has a condition the code needs: `Run` sets the clock forward only when no job is due, so that
jobs which keep adding jobs without delay starve all later ones. `MCJobScheduler` makes the run finite: its `View` has the times from now and the order of the jobs' numbers, on which alone the scheduler depends.

### Pings

One node and the peers of *one* bucket of its routing table: `contacts`, with their `last_seen`. The bucket is
one that is not split any more and is not a brother bucket, which is every bucket but the holder's and the last
few split off it; it refuses contacts when it is full, and only such a bucket has its contacts checked.
`ping_requests` holds the `PingRequestData` of each id, `jobs` the ids whose `PingRequestTimeout` is scheduled,
`last_seen_contacts` is the member of that name. `told` adds up the notices to the item store
(`OnNewContact`, `OnRemoveContact`). `asked` remembers who was ever sent a request with which id, so that only those
answer; `heard` is the sender of the response being handled.

| Action | Code |
|---|---|
| `Hear` | every request but a downlist's and every response but a ping's, as far as they concern the contacts: `UpdateRoutingTable` |
| `OnDownlistRequest` | a ping for each reported node that is a contact, then `UpdateRoutingTable` |
| `OnPingResponse` | `UpdateRoutingTable`, then the early returns, the callback and the end of the ping, which may be the one just begun |
| `PingRequestTimeout` | a repetition, or the failure: `DoAddContact` or `DoRemoveContact` |
| `Restart` | `DeactivateNode` (with `Terminate`) and `ActivateNode`: all is forgotten, ids start at 0, answers to the former pings are still under way |
| `Tick` | the clock |

A handler begins pings and ends some; `Pinging` is what both do to the members, and `UpdateRoutingTable` the tail or head
all handlers share. The callback is a field of the ping: `new` is the contact `DoAddContact` is bound to, `NoOne`
stands for `DoRemoveContact`. Of several contacts with the oldest time stamp any may be the last seen one (the code takes the one
with the least id). The order of a downlist is left open. While the node is off it receives nothing, so deactivation and activation are one step.

### AskAll, Storing, Downlists

A store procedure and a downlist procedure are the same pattern: send a request to each of a set of nodes, repeat it to those that are
silent, strike out who answers or was asked often enough, finish when the set is empty. `AskAll` states what that promises: each node of a procedure
is heard or given up once, and the procedure is over with the last one.

`Storing` is one node's item store and store procedures. `data` is the `StoreRequestData` of each id, `store_requests` the set of the procedures that ask,
`jobs` the timeouts by procedure and node; `answered`, `silent`, `calls`, `outcome` record what happened to each. Of an item there are
`expiration_time`, `max_distance` and `republish`, the times its `RepublishItem` jobs are due (a set, so that a forgotten cancellation shows).

| Action | Code |
|---|---|
| `StoreValue`, `StoreToFirstNode` | `Store` called by the simulator; `StoreToNode` called when a value was found |
| `SearchFound`, `SearchFailed` | `DoStore`, called back by the search |
| `OnStoreResponse`, `StoreRequestTimeout` | the answer; the repetition, or giving up; `FinishStore` and the callback with the last node |
| `OnStoreRequest` | `StoreItem`, and `OnNewContact` if the sender is a new contact |
| `NewContact`, `OnRemoveContact`, `RepublishItem` | the operations of `CStore` of these names |
| `Terminate` | `TerminateFindRequests` (the searches of procedures), `TerminateStoreRequests`, `~CStore` |

Times are unsigned (`% Width`): the time to live of a copy is a difference that wraps for an item that has expired. It is computed when `Store` is called and sent, unchanged, when the search is over: `begun` in
`data`, which the code does not have, is the time of the call, and `CopyOutlivesBySearch` says, at the moment the requests are sent, that the copy outlives the item by the time since then at most. The delay of the message itself comes on top and is not modelled. Which items
are in the holder's range (`ours`) is chosen anew whenever contacts change. What the beta distribution
draws is any time of its range. One value per key stands for the several that `CStore` can hold. `DeleteItem` is unreachable, as scheduling it is commented out.

`Downlists` is one node's downlist procedures. `DoDownlistRequests` returns early, if nobody is DOWN or UP, through `FinishDownlistRequests`, before `data->id` is set: the
id it erases is whatever memory holds, so any procedure or none (`Forget`). A procedure that was erased so is *astray*: its answers find nothing, its timeouts go on until the last
finishes it, and `TerminateDownlistRequests` does not know of it. `OnlyAstrayIsLeft` says that this is the only way a timeout can outlive the node.

### Joining and Simulator

`Joining` has the operators that take what a node keeps for joining (a record: `join_state`, the list of bootstrap contacts, the counters, the pings
and the search under way) to what a callback makes of it, and those of `Terminate`. `TerminatePingRequests` is a recursive function of the number of pings terminated so far: each callback pings
the next contact of the list, which is terminated too. `Node` is the type of the record, for the type invariant of `Simulator`. `TerminateFindRequests` may start the join search anew while it iterates; whether the
iteration still comes to it depends on whether a later search followed.

`Simulator` puts several such nodes in a network. `nodes` is the transport's table without the supernode, `jobs` the simulator's own jobs (with what
they hold of a node), `network` the messages under way. Delivery looks the address up when the message arrives: it may be a successor of the
node it was sent to, with its own rpc ids from 0.

| Action | Code |
|---|---|
| `ActivateNode`, `DeactivateNode` | the operations of `CSimulator` of these names, with `JoinNetwork`, `Terminate` and the assertion of `CreateFindData` |
| `PingRequestTimeout`, `DoPingResponse` | the repetition of a join ping, or its end with `Join_PingCallback` and what follows |
| `DoPingRequest` | the answer of a node or of the supernode, which then knows the sender |
| `SearchEnds` | the search for the own id as one step, with `Join_FindNodeCallback` and `StartNodeLoop` |
| `CheckRandomValue` | a look-up, if all values are stored |

The messages are a bag: a ping that was repeated may be under way twice, and be answered twice. `repeats` of a node are its pings that were repeated. A message that is lost is one that stays under way: nothing depends on it but its arrival.
Whoever starts a search or tries one again with an empty table fails the assertion of `CreateFindData` (`Aborts`), also while the node is terminated.

Simplifications: a search is a step; the
routing table is a set of contacts, known to be saved in any order; nothing follows a failed assertion (`aborted`), and of a node that was freed with a search left
there is nothing but its address (`left`). A node never sends to itself, so that the second delivery of the loopback (simulator.cpp:43) cannot happen. `values_counter` counts the values down from `values_total` to 1, while
`CheckRandomValue` draws from 0 up: the last value is never looked up, and one is that was never stored.

`JoinGoesOn` is the safety part of "every join procedure ends": at every moment something is under way that will call back. A join procedure may report FAILED while another of its pings is
under way, and join later when that ping is answered (kad_node.cpp:627-631): its caller hears FAILED, then SUCCEED; `SucceedIsLast` says no more than that SUCCEED is the last it hears.

### Digest

`CSHA1`, from which ids and keys are made. `Update` fills the buffer, transforms whole blocks and counts bits in two words; `Final` is three kinds of steps: the end mark, one zero per round, the count. What
`Transform` computes is not looked at: the state is the sequence of blocks it was given, which is all that the result can depend on. A byte of a message stands for itself, whatever its value. A piece is assumed to be shorter than 2^32 - 64 bytes, where
`j + uLen` does not wrap. The wiping at the end of `Final` is there, `HashFile` and `ReportHash`, which the program does not use, are not.

## The runs

| Run | Instance | States | Shows |
|---|---|---|---|
| `lookup` | 4 ids, one the node itself, K = 2, alpha = 2, one repetition, one search | 14,551 | the safety properties of a search, refinement, `EverySearchEnds` |
| `lookup_assert` | as `lookup` | violation | the assertion of `CreateFindData` fails |
| `table` | 16 ids, K = 3, 7 peers, 2 time stamps | 25,280 | partition, pointers, closest contacts for all 16 ids, what callers are told, refinement, `AddingEnds` |
| `node_id` | 3 bytes of 2 bits | 12,674 | modular arithmetic, shifts by any number of bits, XOR as a distance that agrees in upper bits where the ids do, for all pairs of ids |
| `scheduler` | 3 jobs at a time, without end, 2 owners, delays 0 to 3, `int` up to 3 | 7,494 | order, every job runs |
| `pings` | 3 peers, K = 2, one repetition, 2 pings per instance, 1 restart, 3 time stamps | 157,878 | pings, checks and timeouts agree, notices add up, only silence removes, checks end |
| `pings_down` | as `pings`, no downlists, no restart | violation | a contact found down is added again |
| `storing` | 1 item, 2 peers, 2 procedures, one repetition, 2 times to live, times modulo 4 | 167,624 | timeouts, reports, republishing, copies, refinement, `EveryStoreEnds` |
| `store_repeat` | as `storing`, 1 procedure, two times to live | violation | a repeated request carries another time to live |
| `downlists` | 3 peers, 2 procedures, one repetition | 239,696 | timeouts, what is left when the node is deleted, refinement, `EveryDownlistEnds` |
| `simulator` | a supernode and 3 addresses, of which one is activated twice, one once, one never; K = 1, alpha = 2, one repetition, one value each | 395,899 | joining, jobs, values, what is left of a deleted node |
| `digest` | bytes of 2 bits, words of 6, blocks of 8 bytes, pieces of 0 to 34 bytes, messages up to 50, 2 messages | 35,510 | the digest is that of the padded message |

*Bounds.* `MaxFinds`, `MaxStores`, `MaxDownlists`, `MaxActivations`, `MaxMessages` and `MaxTime` bound the length of a history; peers, and the jobs that wait at a time (`MaxJobs`), bound its breadth.
In `scheduler`, `storing` and `simulator` a `View` takes states for one that differ only in what has no effect any more, and in nothing the properties read; the MC modules say what that is.
In `lookup`, three peers and K = alpha = 2 make a candidate wait behind two pending ones, a candidate be
left out of the result, a late answer revive a DOWN one, and answers name unknown nodes; one repetition distinguishes "asked again"
from "given up". Searches that overlap are covered by the proofs, which hold for any number of them. In `table`, four peers fall into one brother bucket of capacity three, so that it overflows, and
three share the holder's quarter, so that its bucket is split three times, down to width two, where the holder and one of them are left: the last split is of a full bucket whose contact is heard from again (`AddContact` answers FULL to that too). Three bytes are the fewest with a first, a middle and a last.
In `pings`, three peers for a bucket of two make one of them wait for another's check; two pings let a check and the ping of a downlist, or two checks, overlap;
after one restart ids meet answers to former pings, of the same or another peer; three time stamps let two contacts be stale in turn.
In `storing` and `downlists`, two procedures overlap and one may be erased for the other; with times modulo 4 an item expires, is handed on after that, and is republished in its life; time passes during a search; two times to live make one request for an item end sooner than another.
In `simulator`, the address that is activated twice meets answers to its predecessor; each ping may be repeated, so that two requests or answers of the same ping are under way; its list of contacts is longer than alpha; two nodes and the supernode
are contacts of each other, and one never joins, so that values are left over. In `digest`, the low word wraps within a piece and between two, a piece fills several blocks, and the end mark
falls on every place of a block, so that the count goes to the same block or to one of its own.

*Deadlock* is checked for `table` and `node_id`. Elsewhere the bounds end a history: all searches, procedures, activations or messages are used up; `JobScheduler` stops with an empty queue before `Run` waits, or with `Stop`, and a
deleted node or a failed assertion is the end of the others.

*Fairness.* `FairSpec` of `Lookup`: `FinishSearch` is weakly fair, as a callback returns; each timeout is weakly fair: the
scheduler runs a job that is not cancelled (`EveryJobRuns`; the jobs of the program that add themselves again, and the repetitions of requests, all have a delay); so is each timeout of `Pings`, `Storing` and `Downlists`. A store procedure's search ends, as `EverySearchEnds` says.
Answers are not fair: nobody need answer. The adding round of the table is a call that goes on.
The scheduler's own steps are fair, as its loop runs; jobs return. `Stop` is not: it disables the rest. `Simulator` has no fairness: liveness of joining is not checked, only `JoinGoesOn`.

## The findings

* `CreateFindData` asserts that a contact is known; silent peers are removed, so the last may be gone.
* A full bucket never updates the time stamp of a contact it holds, so the contact check pings contacts just heard from; it may even check a contact
  on behalf of itself, and then removes it as down and adds it again as the freshest of the bucket.
* A repeated store request has no time to live.

Seen while modelling, without a run of its own: the three deviations of ForceK from its comments (under `RoutingTable`); FAILED before SUCCEED and the ranges of the values (under `Simulator`); the procedure that goes astray (under `Downlists`);
the join search that outlives its node (`OnlyTheJoinSearchIsLeft`); `NodeID::operator>>=` by a byte or more leaves the leading bytes as they were, though the loop goes on to
whole bytes and `test/main.cpp:86-88` shifts by ten bits (an id whose leading bytes are zero): `ArithmeticIsModular` holds of the bytes it writes and says that the others stay. The routing table only shifts by one bit.
A copy of an item outlives it by the time of the search that precedes the request (store.cpp:108, kad_node.cpp:547); jobs without delay can starve the others (job_scheduler.cpp:66).

## The proofs

The theorems of `NodeId_proofs`, `JobScheduler_proofs`, `Lookup_proofs`, `Pings_proofs`, `RoutingTable_proofs`, `Storing_proofs`, `Downlists_proofs` and `Simulator_proofs` hold for every value of
the constants under the assumptions of the modules. The assumptions, by module:

* `NodeIdAssumption`: an id has a byte at least and a byte a bit.
* `DistAssumption`: no two ids tie. `XorMeetsAssumptions` proves it of the code's distance.
* `LookupAssumption`, `PingsAssumption`, `StoringAssumption`, `DownlistsAssumption`, `JobSchedulerAssumption`, `JoiningAssumption`: peers are finitely many, K and alpha positive, bounds natural numbers.
* `RoutingTableAssumption`: the id space is 0 to a power of two less one, K is three at least, the node is none of its own contacts, and the distance is the XOR. `PowerOfTwo` is a
  constant set whose members are 1 or even with their half in the set: without recursion that is all the proofs need to know of powers of two. Of the XOR they need that an id
  is at distance 0 from itself, and that cutting the same number of low bits off a distance leaves the XOR of what is left of the ids, so that two distances to an id agree in
  their upper bits exactly if the ids do. What it says of the id space, of powers of two and of distances is proved of ids of any length (`XorMeetsAssumptions`); K and the node's own id are as the code has them.
* `SimulatorAssumption`: addresses are finitely many, the supernode is none of them, and `NoNode`, which stands for an address without a node, is not itself a node.

*Node ids.* That a recursive definition has a value at all must be proved first: `Recursion` shows that for any step there is a function that goes on by it, and `Forwards` and `Backwards` that
the loops over the bytes, in either direction, compute something. Then induction over the bytes. The sum, the difference and the bytes of an integer are one
argument (`CarriedSum`): at byte i, the numbers up to it and the carry into it make the number of the result up to it and q times a power of the base, q being what leaves the
first byte; a difference is a sum read backwards, and the bytes of an integer are a sum of zeros with the integer for the carry. For a shift by less than a byte, a number up to byte i is
2^f times that of the result and the bits of byte i that go on to the next (`ShiftDivides`). A longer one writes what one by the bits left over writes to the id moved by whole bytes, and leaves the leading bytes alone (`ShiftMoves`);
together the bytes written are the quotient (`ShiftIsQuotient`).

For the XOR the bytes are taken bit by bit from above: the upper k bits of two exclusive ors with one byte agree exactly if those of the other bytes do (`ByteXorAgrees`), from which symmetry, zero and the agreement of
distances in their upper bits (`DistancesAgree`) follow, the latter for every number of bits because dividing by a power of two takes whole bytes away and then bits of one (`LeadingIsQuotient`, `LeadingAgrees`). `XorMeetsAssumptions` puts together what the other modules
assume of their constants `Dist`, `Size` and `PowerOfTwo`: numbers are ids (`NumberIsValue`), and the assumptions are not only satisfiable but met by the code's distance.

*Scheduler.* `IntHoldsTheWait`: the narrowing to `int` changes no wait, as no job is farther away than the longest delay. `TypeOK`, `NoneIsOverdue` and `RunsOnTime` together are inductive with the order of the queue: the clock is only set to
the time of the first job. `RunsInOrder` follows from the last job being before all that wait.

*Searches.* The inductive invariant `IInv` is the conjunction of `TypeOK`, `JobsArePending`, `PendingIsCounted`, `NeverStuck`,
`CalledBackOnce` and `LiveAreStarted` (a search in progress has an id below the counter; without it a new search could
reuse one). They need each other: a timeout may decrement `pending_nodes` because its candidate is PENDING, which `JobsArePending`
says; a report comes once because `NeverStuck` and the count leave no search idle. All but two actions end in the same tail, so the main lemma
(`AdvanceIInv`) is about `Advance`: from candidates, a count and jobs that agree it re-establishes `IInv`. `ResultIsComplete`
(`ResultIsClosest`) rests on `WalkIsComplete`: if nobody is eligible and nobody pending, then a candidate outside the result is UP and
farther (`NearestLeavesOut`), or UNKNOWN behind K that are UP (`BehindNearest`).

`RequestsAreBounded` is not inductive: it counts requests but not whom they went to. `AskInv` relates `requests_total` to `Asked`, the set of pairs of a candidate and a number less than the requests made
to it (`Asks`): every request adds a pair of its own, and the set fits into candidates times attempts, since no candidate has been asked again more often than it may
(`RepeatsAreLeft`). `AnswersAreKept` (`AnsweredStaysUp`) needs of the invariant that a scheduled timeout belongs to a PENDING
candidate. The refinement (`ImplementsService`) goes action by action: an answer or a timeout maps to `Report` of `SearchService` if the search reports with it, and otherwise to `Hear` or to a
stutter; `FinishSearch` maps to `Close`, and a value in the node's own store to `FoundAtOnce`.

*Contact check.* `IInv` is the conjunction of `TypeOK`, `JobsArePending`, `NoticesAddUp`, `CheckedOnce` (`ChecksArePending` without counting) and
`FreshAreUnused`: ids from the counter on are free, so that a new ping overwrites none. The main lemma, `PingingIInv`, is about `Pinging`: it may end any pings and begin any
others, as long as the checks it begins are of contacts that are not being checked, which `IsDue` provides. `OnlySilenceRemoves` (`EndsAreJustified`) follows from the invariant:
a ping that is gone is one the handler ended (`PingingEnds`), a response ends only a ping to its sender, and a timeout only one with all its attempts made.
So does `SilenceMakesPlace` (`PlaceIsTaken`): the only step that ends a silent check is the timeout, whose callback removes the one contact and adds the other unless the bucket has been filled.

*Routing table.* `IInv` is the conjunction of `TypeOK`, `Partition`, `PointersAreValid`, `HolderWidth` (the width of the holder bucket is a power of two) and `BucketsAreBlocks`. Without the width the halves and quarters
of a split need not tile the bucket. That a full holder bucket has width four at least follows from K >= 3 and the holder, who is none of its contacts. A split replaces the holder bucket by
buckets of its range (`ImplementsContactSet`: the union of the contacts stays as it is, but for one that is added or displaced).

`ClosestAreClosest` needs more than a partition: an algorithm that visits whole buckets in the order of one id each is right only if the buckets do not interleave in the metric. `BucketsAreBlocks`
says that the holder bucket begins at a multiple of its width, and that of any two buckets each lies within a block of ids which the other does not meet. From it and the
XOR, `BucketsDoNotMix`: seen from any id, all of a bucket is closer than all of another one, or all is farther; `OwnBucketIsNearest` and `BucketsInOrder` follow, the latter with the high bound standing for its bucket.
That a `Nearest` set exists and is the only one (`NearestExists`, `NearestIsUnique`) makes the two sides equal. `ClosenessIsTold` compares this answer
before and after a step with the range of ids (`BoundsFind`) and the holder bucket (`AddedAreClose`, `RemovedAreTold`).

*Procedures.* `Downlists_proofs` adds to `TypeOK` and `JobsArePending` that ids not given out are free (`NewIdsAreFree`) and that what can be found is allocated
(`FoundAreLive`), so that an answer or a timeout never reaches a freed procedure, though `Forget` may erase any. `Storing_proofs` has two invariants that hardly touch, and a third, `CopyInv`, that ties them. `ProcInv`, of the procedures, adds
`Books`: an id not given out is blank, a procedure that searches has heard from nobody, one that asks has counted those it heard. `StoreToNode`
begins one procedure for each of several items: `Consecutive` says that their ids are the interval from the counter on, so that `StoreToNodeProc` overwrites none. `ItemInv`, of the items, is the schedule: `ReplanItems` says that replanning any set of items
keeps it. `CopyInv` says of every procedure that hands an item on that its time to live, from `begun`, reaches the item's expiration at most: it does when the call is made, since now + (expiration - now) is expiration modulo the width, expired or not (`RemainingReaches`), and goes on to,
since `StoreItem` never shortens an item's life (`Later`). When the search is over, taking off its time gives `CopyOutlivesBySearch` (`SearchTakenOff`).
Both modules show every step to be one of `AskAll` or to leave its variables alone (`ImplementsAskAll`).

*Joining and the simulator.* `NodeInv` is what every callback keeps of one node: `PingsFit` (ids below the counter, as many pings as counted, alpha at most), `ListFits` (alpha are under way while contacts are left),
`SearchFits` (a search in one state only, tried again only if contacts were left, and none startable while there are some), `CallsFit` and `GoesOn`; a repetition changes none of them. `SucceedIsLast` alone is not inductive: that no search
ends after SUCCEED is what `SearchFits` says of the state JOINED. `IInv` of `Simulator` is `TypeOK` with `NodeInv` of every node, `JobsFit` (`JobsFitNodes` without counting) and `ValuesFit`, in which each value above
`values_counter` has one owner. `OnlyTheJoinSearchIsLeft` is about `TerminatePingRequests`, a function that recurses over as many pings as there were and are begun meanwhile. The recursion is unfolded
by an induction that needs no operator as a parameter: a set of numbers that holds 0 and with each number the next one is all of them (`InductiveSet`). It gives that the function the definition chooses
exists (`RunExists`) and that a node whose search would not be tried again stays so (`Calm`) through every callback on the way: when the last contact has been terminated, none is left to try again with.

*Induction.* The theorems of the library about induction take an operator as a parameter, which the provers cannot instantiate; `InductiveSet` states it of a set and is proved from the least number that is not in the set. So recursion
over numbers is within reach: over the pings that are terminated one by one, over the bytes of an id and the bits of a byte. `Recursion` takes its step as a function instead of an operator.

*Only model-checked*: liveness (`EverySearchEnds`, `AddingEnds`, `EveryJobRuns`, `EveryCheckEnds`, `EveryStoreEnds`, `EveryDownlistEnds`), which TLAPS cannot do with fairness, and `DigestIsOfMessage`, an equation of sequences that are
cut and folded over.

## Not modelled

* Statistics (`stats.cpp`) and what the simulator counts and prints (`PrintTime`, `CheckRandomNode`, `SaveRpcCounts`): they decide nothing.
* `src/agner_random`, a vendored library of random variates: the models leave open what is drawn.
* The compression function of SHA-1, `HashFile` and `ReportHash`.
* The analysis script `test/parser.lua` and the test `test/main.cpp`.
* Delays: every message may take any time, so that no property relates the timeout period to the delay of the transport.
* A composition of whole nodes with their routing tables, searches and stores: each module takes the rest of the node as its environment, `Simulator` composes what joining needs.
* Destructors of the routing table: nothing runs after them.
