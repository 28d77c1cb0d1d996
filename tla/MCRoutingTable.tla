--------------------------- MODULE MCRoutingTable ---------------------------
(* Instances of RoutingTable: ids are numbers of four bits, their distance is  *)
(* the XOR.                                                                *)
EXTENDS RoutingTable, Bitwise

XorDist == [t \in Id |-> [a \in Id |-> t ^^ a]]

Id16 == 0 .. 15
Powers16 == {1, 2, 4, 8, 16}

\* With the holder 6: four ids of its first brother bucket, so that it overflows,
\* and the rest of its own quarter: full of them, its bucket is split to width two
\* when one is heard from again.
Peers7 == {8, 9, 10, 11, 4, 5, 7}
=============================================================================
