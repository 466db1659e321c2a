SPECIFICATION Spec
CONSTANTS
  None = None
  Slots = {s1, s2}
  Duration = 2
  PackHours = 2
  Openings <- MCHalfASlot
  MaxCalls = 2
  MaxSteps = 3
PROPERTY WaitsForItsPack
CHECK_DEADLOCK FALSE
