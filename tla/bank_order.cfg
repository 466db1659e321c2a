SPECIFICATION Spec
CONSTANTS
  Purchases = {1, 2}
  Free = {}
  Editable = {}
  Extendable = {2}
  Bookings = {b1, b2}
  Requests = {r1, r2}
  NoRequest = NoRequest
  NoBooking = NoBooking
  Sizes = {1, 2}
  Grants = {2}
  Asks = {"confirmed"}
  MaxTotal = 2
  Latest = 1
  Horizon = 2
  Validity <- SecondFirst
SYMMETRY Symmetry
INVARIANTS TypeOK ShareIsDebited SoonestFirst LatestBackFirst OneOrderNoCircle
