SPECIFICATION Spec
CONSTANTS
  Bookings = {b1}
  Slots <- OneSlot
  Blockable <- OneSlot
  Requests = {h, r1, r2}
  Hook = h
  NoRequest = NoRequest
  NoBooking = NoBooking
  Hold = 1
  Horizon = 1
SYMMETRY Symmetry
INVARIANTS BlockedIsFree
