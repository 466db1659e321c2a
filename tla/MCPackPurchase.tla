--------------------------- MODULE MCPackPurchase ---------------------------
(* PackPurchase on small instances.                                        *)
EXTENDS PackPurchase, TLC

Symmetry == Permutations(Purchases) \cup Permutations(Deliveries)
=============================================================================
