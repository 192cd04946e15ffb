--------------------------- MODULE MCBlockingQueue ---------------------------
(* Small instances of the blocking queue: two adders and a getter. *)
EXTENDS BlockingQueue

CONSTANTS a1, a2, g1, i1, i2

\* Each adder passes elements of its own.
OwnItems == [t \in Adders |-> IF t = a1 THEN {i1} ELSE {i2}]
=============================================================================
