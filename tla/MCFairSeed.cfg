SPECIFICATION Spec
CONSTANTS
  Peers = {p1, p2, p3}
  Coordinators = {p1, p2}
  MaxRounds = 2
  MaxMoves = 1
INVARIANT NoFalseAlarm
PROPERTY ServesTheMesh
CHECK_DEADLOCK FALSE
