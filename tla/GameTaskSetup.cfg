\* A browser that asks for a setup at any time.
CONSTANTS
  GRID_SIZE = 2
  MAX_SHIPS = 1
  ship_lengths <- JustTwo
  SLOTS = 2
  Places <- TwoRows
  Requests <- FirstRowAndColumn
  Disciplined = FALSE
SPECIFICATION Spec
PROPERTIES
  RandomSetupServed
