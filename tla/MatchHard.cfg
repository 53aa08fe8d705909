\* The default level on the real board, against one fleet of the real game.
CONSTANTS
  GRID_SIZE = 5
  MAX_SHIPS = 4
  HITS_SIZE = 5
  HeatLengths <- ThreeTwoTwo
  Matches <- RealMatch
SPECIFICATION Spec
CHECK_DEADLOCK FALSE
INVARIANTS
  TargetDirInRange
