----------------------------- MODULE MCStoring -----------------------------
(* Instances of Storing: ids are small numbers and the distance is their XOR. *)
EXTENDS Storing, Bitwise

XorDist == [t \in Id |-> [a \in Id |-> t ^^ a]]

Id4 == 0 .. 3

\* The states that differ only in what nobody reads any more are one: the time and
\* the time to live of a call, unless they are those of a copy still to be sent, and
\* the repeated request, which only RepeatsAreSame is about.
ToSend(id) == id \in Searching /\ data[id].caller = "item"

Shown(id) == IF id \in Live /\ ~ToSend(id)
               THEN [data[id] EXCEPT !.begun = 0, !.time_to_live = 0]
               ELSE data[id]

View == <<alive, now, items, [id \in StoreId |-> Shown(id)], store_requests, store_id_counter,
          jobs, answered, silent, calls, outcome>>
=============================================================================
