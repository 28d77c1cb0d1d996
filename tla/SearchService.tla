--------------------------- MODULE SearchService ---------------------------
(***************************************************************************)
(* What a node promises whoever starts a search, without candidates,       *)
(* questions, repetitions or timeouts: the search collects the nodes that  *)
(* answer it, and reports once, a result made from those nodes alone.      *)
(* Lookup.tla implements it.                                               *)
(***************************************************************************)
EXTENDS Distance

CONSTANTS
  FindId,  \* the searches
  K        \* size of a result

VARIABLES
  phase,   \* "unused", "running", "reporting" or "over"
  kind,    \* "FIND_NODE" or "FIND_VALUE"
  goal,    \* the id searched for
  heard,   \* the nodes that have answered a search, until it is over
  result,  \* what the callback was given
  stored   \* where a value found is cached

vars == <<phase, kind, goal, heard, result, stored>>

Init ==
  /\ phase = [i \in FindId |-> "unused"]
  /\ kind = [i \in FindId |-> "FIND_NODE"]
  /\ goal \in [FindId -> Id]
  /\ heard = [i \in FindId |-> {}]
  /\ result = [i \in FindId |-> [code |-> "NONE", nodes |-> {}]]
  /\ stored = [i \in FindId |-> {}]

Start(i, k, t, p) ==
  /\ phase[i] = "unused"
  /\ phase' = [phase EXCEPT ![i] = p]
  /\ kind' = [kind EXCEPT ![i] = k]
  /\ goal' = [goal EXCEPT ![i] = t]

Begin(i, k, t) ==
  /\ Start(i, k, t, "running")
  /\ UNCHANGED <<heard, result, stored>>

\* The value was already here.
FoundAtOnce(i, t) ==
  /\ Start(i, "FIND_VALUE", t, "over")
  /\ result' = [result EXCEPT ![i] = [code |-> "SUCCEED", nodes |-> {}]]
  /\ UNCHANGED <<heard, stored>>

Hear(i, n) ==
  /\ phase[i] = "running"
  /\ heard' = [heard EXCEPT ![i] = @ \cup {n}]
  /\ UNCHANGED <<phase, kind, goal, result, stored>>

\* The results a search may report after hearing from the nodes h: the K
\* closest of them, or the one that had the value.
Results(i, h) ==
  IF kind[i] = "FIND_NODE"
    THEN {[code |-> IF ns = {} THEN "FAILED" ELSE "SUCCEED", nodes |-> ns] :
            ns \in Nearest(h, goal[i], K)}
    ELSE {[code |-> "FAILED", nodes |-> {}]}
           \cup {[code |-> "SUCCEED", nodes |-> {n}] : n \in h}

\* The answer that makes a search report is heard with it; a timeout may make
\* it report too.
Report(i) ==
  /\ phase[i] = "running"
  /\ phase' = [phase EXCEPT ![i] = "reporting"]
  /\ \E h \in {heard[i]} \cup {heard[i] \cup {n} : n \in Id} :
       /\ heard' = [heard EXCEPT ![i] = h]
       /\ \E r \in Results(i, h) : result' = [result EXCEPT ![i] = r]
  /\ UNCHANGED <<kind, goal, stored>>

\* A value found is cached at the closest node that answered without it.
Caches(i) ==
  IF kind[i] = "FIND_VALUE" /\ result[i].code = "SUCCEED"
    THEN Nearest(heard[i] \ result[i].nodes, goal[i], 1)
    ELSE {{}}

Close(i) ==
  /\ phase[i] = "reporting"
  /\ phase' = [phase EXCEPT ![i] = "over"]
  /\ \E ns \in Caches(i) : stored' = [stored EXCEPT ![i] = ns]
  /\ heard' = [heard EXCEPT ![i] = {}]
  /\ UNCHANGED <<kind, goal, result>>

Next ==
  \E i \in FindId :
    \/ \E t \in Id : FoundAtOnce(i, t) \/ \E k \in {"FIND_NODE", "FIND_VALUE"} : Begin(i, k, t)
    \/ \E n \in Id : Hear(i, n)
    \/ Report(i)
    \/ Close(i)

Spec == Init /\ [][Next]_vars
=============================================================================
