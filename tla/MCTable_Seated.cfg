SPECIFICATION SeatedSpec
CONSTANTS
  ann = ann
  bob = bob
  cyd = cyd
  Players = {ann, bob, cyd}
  NoPlayer = NoPlayer
  NumSeats = 3
  SmallBlind = 1
  BigBlind = 2
  MaxBuyIn = 3
  BrokeUnseatAfter = 1
  StartBalance = 3
  MaxHands = 2
  Strengths = 2
INVARIANT LiveAndAccounted
PROPERTIES SitOutIsHonoured HandEnds
CHECK_DEADLOCK FALSE
