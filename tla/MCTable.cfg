SPECIFICATION Spec
CONSTANTS
  ann = ann
  bob = bob
  cyd = cyd
  Players = {ann, bob}
  NoPlayer = NoPlayer
  NumSeats = 2
  SmallBlind = 1
  BigBlind = 2
  MaxBuyIn = 3
  BrokeUnseatAfter = 1
  StartBalance = 3
  MaxHands = 2
  Strengths = 2
INVARIANTS SeatsAndChips SnapshotIsExact TurnClockRuns BetweenHands NotIdleInUse
SYMMETRY SymmetricPlayers
CHECK_DEADLOCK FALSE
