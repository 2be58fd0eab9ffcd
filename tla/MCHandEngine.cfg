SPECIFICATION FairSpec
CONSTANTS
  NumSeats = 3
  SmallBlind = 1
  BigBlind = 2
  MaxStack = 5
  Strengths = 3
INVARIANTS SeatAccount TurnIsOwed PriorStreetsMatched ChipsSettled
PROPERTIES StreetClosed RaisesAreFull HandCompletes
CHECK_DEADLOCK FALSE
