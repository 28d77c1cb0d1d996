------------------------------- MODULE AskAll -------------------------------
(***************************************************************************)
(* What the store and the downlist procedure of a node promise, without    *)
(* requests, repetitions or timeouts: a procedure asks a set of nodes,     *)
(* each of them answers or is given up, once, and the procedure is over    *)
(* with the last of them.  Storing.tla and Downlists.tla implement it.     *)
(***************************************************************************)
CONSTANTS
  Procedure,
  Peer

VARIABLES
  phase,     \* "unused", "asking" or "over"
  waiting,   \* the nodes that have neither answered nor been given up
  answered,
  silent

vars == <<phase, waiting, answered, silent>>

Init ==
  /\ phase = [p \in Procedure |-> "unused"]
  /\ waiting = [p \in Procedure |-> {}]
  /\ answered = [p \in Procedure |-> {}]
  /\ silent = [p \in Procedure |-> {}]

\* Several procedures may begin at once, each with somebody to ask.
Begin(ps) ==
  /\ \A p \in ps : phase[p] = "unused"
  /\ phase' = [p \in Procedure |-> IF p \in ps THEN "asking" ELSE phase[p]]
  /\ \E asked \in [ps -> (SUBSET Peer) \ {{}}] :
       waiting' = [p \in Procedure |-> IF p \in ps THEN asked[p] ELSE waiting[p]]
  /\ UNCHANGED <<answered, silent>>

Settle(p, n) ==
  /\ n \in waiting[p]
  /\ waiting' = [waiting EXCEPT ![p] = @ \ {n}]
  /\ phase' = [phase EXCEPT ![p] = IF waiting[p] = {n} THEN "over" ELSE @]

Answer(p, n) ==
  /\ Settle(p, n)
  /\ answered' = [answered EXCEPT ![p] = @ \cup {n}]
  /\ UNCHANGED silent

GiveUp(p, n) ==
  /\ Settle(p, n)
  /\ silent' = [silent EXCEPT ![p] = @ \cup {n}]
  /\ UNCHANGED answered

\* Nobody was found to ask, or the node is terminated.
Stop(ps) ==
  /\ phase' = [p \in Procedure |-> IF p \in ps THEN "over" ELSE phase[p]]
  /\ waiting' = [p \in Procedure |-> IF p \in ps THEN {} ELSE waiting[p]]
  /\ UNCHANGED <<answered, silent>>

Next ==
  \/ \E ps \in SUBSET Procedure : Begin(ps) \/ Stop(ps)
  \/ \E p \in Procedure, n \in Peer : Answer(p, n) \/ GiveUp(p, n)

Spec == Init /\ [][Next]_vars
=============================================================================
