SPECIFICATION FairSpec
CONSTANTS
  Bookings = {b1, b2}
  Slots <- OneSlot
  Len = 2
  PackHours = 1
  Pack = Pack
  Hold = 1
  Notice = 1
  Attempts = 2
  Horizon = 2
  OperatorMoves <- SafeMoves
INVARIANTS MoneyIsKept ChargedOnce PaidNeverLapses BankNeverOverdrawn
PROPERTIES CancelledStays ConfirmedStays KeepsLedger HoldsLapse PaymentsArrive
