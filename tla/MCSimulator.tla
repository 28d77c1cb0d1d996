---------------------------- MODULE MCSimulator ----------------------------
(* Three nodes: one that comes back once, one that does not, one not at all.*)
EXTENDS Simulator

CONSTANTS twice, once, never

Activations == (twice :> 2) @@ (once :> 1) @@ (never :> 0)

(***************************************************************************)
(* Two states are one to TLC if they differ only in what has no effect any *)
(* more: the contacts of a node that will not join again, messages that    *)
(* change no more than those or reach nobody, answers beyond the K that    *)
(* count, failures that were reported before, the value looked up.         *)
(***************************************************************************)

LastLife(a) == activations[a] = MaxActivations[a]
Gone == {a \in Addr \ Active : LastLife(a)}
Over(nd) == nd.search = "none" /\ (nd.join_state = "JOINED" \/ nd.pings = {})
Settled == Gone \cup {a \in Active : LastLife(a) /\ Over(nodes[a])}

\* An answer to the ping p changes nothing for a but perhaps its contacts.
NeedsNot(a, p) == a \in Gone \/ (a \in Settled /\ p \notin nodes[a].pings)

HasEffect(m) ==
  CASE m.type = "PingResponse" -> ~NeedsNot(m.to, <<m.id, m.from>>)
    [] m.to = supernode        -> ~NeedsNot(m.from, <<m.id, m.to>>)
    [] OTHER                   -> \/ m.to \notin Settled
                                  \/ m.to \notin Gone /\ ~NeedsNot(m.from, <<m.id, m.to>>)

NodeView(nd) ==
  IF nd = NoNode THEN nd
  ELSE [nd EXCEPT !.join_succeedN = IF @ < K THEN @ ELSE K,
                  !.calls = IF Range(@) = {"FAILED"} THEN <<"FAILED">> ELSE @]

\* Of the jobs for nodes that are gone, their kinds and how many there are.
JobsView ==
  LET over == {j \in jobs : j.node \in Gone}
  IN  <<jobs \ over, {<<j.do, j.node>> : j \in over}, Cardinality(over)>>

View ==
  <<[a \in Addr |-> NodeView(nodes[a])], [a \in Addr \ Settled |-> contacts[a]], JobsView,
    {<<m, CopiesIn(m, network)>> : m \in {n \in BagToSet(network) : HasEffect(n)}},
    values_counter, stored, looked_up = NoValue, left, aborted, activations>>
=============================================================================
