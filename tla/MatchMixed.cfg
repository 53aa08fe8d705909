\* Every level, changed at any time, on fleets of two ships of a small board, and the
\* SMART level alone on every fleet of three; hits[] is as long as a line.
CONSTANTS
  GRID_SIZE = 3
  MAX_SHIPS = 3
  HITS_SIZE = 3
  HeatLengths <- ThreeTwoTwo
  Matches <- SmallMatches
SPECIFICATION Spec
CHECK_DEADLOCK FALSE
INVARIANTS
  TypeOK
  BoardsAgree
  TargetsAfloat
  HitsFit
PROPERTIES
  NeverRepeats
  MatchEnds
