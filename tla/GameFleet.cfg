\* The browser of GameTaskPlay, and two places also for the ships that are drawn.
CONSTANTS
  GRID_SIZE = 2
  MAX_SHIPS = 2
  ship_lengths <- TwoThenOne
  SLOTS = 2
  Places <- RowAndColumn
  Requests <- FirstRowAndColumn
  Disciplined = TRUE
SPECIFICATION FleetSpec
VIEW FleetView

  
PROPERTIES
  NoTurnWasted
  ImplementsGameLogic
  OpponentAnswers
  RestartServed
