\* Setups that begin on an empty board, after a refused one, and in the middle of a game.
CONSTANTS
  GRID_SIZE = 2
  MAX_SHIPS = 2
  Lengths = {1, 2}
  Policies = {"fresh", "retry", "any"}
SPECIFICATION Spec
INVARIANTS
  TypeOK
  FleetLayout
  HitCountExact
  SunkTogether
  NoOrphanCell
  GameEndsExactly
PROPERTIES
  ImplementsSalvo
