SPECIFICATION Spec
CONSTANTS
  Bookings = {b1}
  Slots <- OneSlot
  Len = 2
  PackHours = 0
  Pack = Pack
  Hold = 1
  Notice = 1
  Attempts = 1
  Horizon = 2
  OperatorMoves <- HoldMoves
SYMMETRY Symmetry
INVARIANTS MoneyIsKept
