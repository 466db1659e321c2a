SPECIFICATION Spec
CONSTANTS
  None = None
  Slots = {s1, s2}
  Duration = 2
  PackHours = 2
  Openings <- MCOpenings
  MaxCalls = 2
  MaxSteps = 3
INVARIANTS TypeOK OwnChangesShown OutcomeIsForThisSlot ReopenIsAnswered
PROPERTY WaitEnds
CHECK_DEADLOCK FALSE
