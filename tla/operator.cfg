SPECIFICATION Spec
CONSTANTS
  None = None
  Orgs = {o1, o2}
  Desks <- MCDesks
  MaxWrites = 2
SYMMETRY Symmetry
INVARIANTS TypeOK OwnTenantShown OwnWritesShown
CHECK_DEADLOCK FALSE
