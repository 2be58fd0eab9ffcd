SPECIFICATION Spec
CONSTANTS
  NumSeats = 3
  Turns = 2
  AllIn <- MCAllIn
  Paid <- MCPaid
  MaxEntries = 4
  Kinds = {"sit_out", "rebuy"}
  MaxActions = 1
  MaxTries = 2
  MaxLosses = 1
CHECK_DEADLOCK FALSE
INVARIANTS LogIsEnough
