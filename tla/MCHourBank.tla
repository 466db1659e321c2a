---------------------------- MODULE MCHourBank ----------------------------
(* HourBank on small instances.                                            *)
EXTENDS HourBank, TLC

Symmetry == Permutations(Requests) \cup Permutations(Bookings)

\* Both purchases are granted the same validity; the second expires first, or
\* with the first.
SameDay == [p \in Purchases |-> {1}]
SecondFirst == [p \in Purchases |-> IF p = 1 THEN {2} ELSE {1}]
=============================================================================
