SPECIFICATION Spec
CONSTANTS
  NumSeats = 3
  Turns = 2
  AllIn <- MCAllIn
  Paid <- MCPaid
  MaxEntries = 6
  Kinds = {"act"}
  MaxActions = 2
  MaxTries = 2
  MaxLosses = 0
CHECK_DEADLOCK FALSE
INVARIANTS OneLog ActionsKept DealerHasButton
