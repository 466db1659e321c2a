----------------------------- MODULE MCSlotRace -----------------------------
(* SlotRace on small instances.                                            *)
EXTENDS SlotRace, TLC

Symmetry == Permutations(Bookings) \cup Permutations(Requests \ {Hook})

OneSlot == {{1}}
=============================================================================
