------------------------------ MODULE MCLookup ------------------------------
(* Instances of Lookup: ids are small numbers and the distance is their XOR. *)
EXTENDS Lookup, Bitwise

XorDist == [t \in Id |-> [a \in Id |-> t ^^ a]]

Id4 == 0 .. 3
Target0 == {0}
=============================================================================
