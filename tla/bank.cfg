SPECIFICATION Spec
CONSTANTS
  Purchases = {1, 2}
  Free = {1}
  Editable = {1}
  Extendable = {}
  Bookings = {b1, b2}
  Requests = {r1, r2}
  NoRequest = NoRequest
  NoBooking = NoBooking
  Sizes = {1, 2}
  Grants = {1}
  Asks = {"released"}
  MaxTotal = 1
  Latest = 0
  Horizon = 1
  Validity <- SameDay
SYMMETRY Symmetry
INVARIANTS NeverOversold NoStrayDebits UsedIsDebited DrawsAreCovered
PROPERTIES KeepsLedger
