SPECIFICATION FairSpec
CONSTANTS
  Purchases = {p1, p2}
  Deliveries = {d1, d2}
  NoPurchase = NoPurchase
  Window = 1
  Horizon = 4
INVARIANTS TypeOK HoursArePaidFor
PROPERTIES NothingDangles
CHECK_DEADLOCK FALSE
