SPECIFICATION Spec
CONSTANTS
  Bookings = {b1, b2}
  Slots <- OverlappingSlots
  Len = 2
  PackHours = 0
  Pack = Pack
  Hold = 1
  Notice = 1
  Attempts = 1
  Horizon = 3
  OperatorMoves <- ReinstatingMoves
SYMMETRY Symmetry
INVARIANTS TypeOK SlotHeldOnce ShareFollowsStatus BookingOrCredit
PROPERTIES KeepsCalendar
