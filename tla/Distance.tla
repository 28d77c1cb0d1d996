----------------------------- MODULE Distance -----------------------------
(***************************************************************************)
(* The metric every part of the node orders ids by.  NodeID::operator^=    *)
(* and operator< (node_id.h) make the distance of two ids the XOR of their *)
(* bytes read as one big-endian number; the search, the routing table and  *)
(* the store only ever compare distances to one fixed id, so all that the  *)
(* other modules need of the metric is that two ids never tie.             *)
(***************************************************************************)
EXTENDS Integers, FiniteSets

CONSTANTS
  Id,    \* the node ids (and keys) of an instance
  Dist   \* Dist[t][a]: the distance from t to a

ASSUME DistAssumption ==
  /\ Dist \in [Id -> [Id -> Nat]]
  /\ \A t, a, b \in Id : Dist[t][a] = Dist[t][b] => a = b

\* distance_comp_le, distance_comp_ge and CandidateLite::operator<
Closer(t, a, b) == Dist[t][a] < Dist[t][b]

\* The sets made of the k elements of S closest to t, or of all of S when it
\* is smaller.  There is exactly one; leaving it as a set of sets lets an
\* action pick it with \E instead of a CHOOSE whose witness a proof would owe.
Nearest(S, t, k) ==
  {T \in SUBSET S :
     /\ Cardinality(T) = IF Cardinality(S) < k THEN Cardinality(S) ELSE k
     /\ \A a \in T, b \in S \ T : Closer(t, a, b)}
=============================================================================
