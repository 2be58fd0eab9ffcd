SPECIFICATION StoreSpec
CONSTANTS
  NumSeats = 3
  Me = 0
  SmallBlind = 1
  BigBlind = 2
  MaxStack = 2000
  Stack = 3
  RaisesTo = {3}
  Strengths <- OneOutcome
  MaxHands = 2
  MaxSent = 1
  MaxUpsets = 1
  MaxDeals = 2
  MaxTaps = 3
  MaxClients = 2
  MaxSteps = 2
  Opponents = 2
INVARIANTS StoreFollowsTable FeltShowsTable CommandsInOrder
PROPERTIES NothingLingers PlayerGetsTable
CHECK_DEADLOCK FALSE
