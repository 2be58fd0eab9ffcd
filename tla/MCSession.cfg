SPECIFICATION FairSpec
CONSTANTS
  Players = {ann}
  MaxConns = 2
  MaxChanges = 2
  MaxPrivates = 1
  Buffer = 2
CHECK_DEADLOCK FALSE
INVARIANTS BoundedAndInStep NoDeadSubscription
PROPERTIES ClientCatchesUp
