\* A setup begins again after a refused one.
CONSTANTS
  GRID_SIZE = 2
  MAX_SHIPS = 2
  Lengths = {1, 2}
  Policies = {"retry"}
SPECIFICATION Spec
PROPERTIES
  ZeroMeansGuessed
