SPECIFICATION Spec
CONSTANTS
  Bookings = {b1, b2}
  Slots <- OneSlot
  Blockable <- OneSlot
  Requests = {h, r1, r2}
  Hook = h
  NoRequest = NoRequest
  NoBooking = NoBooking
  Hold = 1
  Horizon = 2
SYMMETRY Symmetry
INVARIANTS TypeOK SlotHeldOnce PaidNeverLapses
PROPERTIES PaymentsAreAnswered KeepsCalendar
