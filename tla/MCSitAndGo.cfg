SPECIFICATION Spec
CONSTANTS
  Players = {ann, bob, cyd}
  Entrants = 3
  BuyIn = 3
  StartingStack = 2
  PayoutPct <- ThreePlaces
  StartBalance = 3
  TableBuyIns = {1}
  MaxCalls = 2
  MaxMoves = 2
SYMMETRY SymmetricPlayers
CHECK_DEADLOCK FALSE
INVARIANTS MoneyAccounted StandingsAreFair
PROPERTIES PaidOnce
