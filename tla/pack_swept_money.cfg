SPECIFICATION Spec
CONSTANTS
  Purchases = {p1}
  Deliveries = {d1}
  NoPurchase = NoPurchase
  Window = 1
  Horizon = 3
SYMMETRY Symmetry
INVARIANTS MoneyIsKept
CHECK_DEADLOCK FALSE
