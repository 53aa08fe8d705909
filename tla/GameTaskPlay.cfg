\* A browser that asks for a setup when one is awaited, also after a refusal. One place
\* for the ships that are drawn, two for those that the page asks for.
CONSTANTS
  GRID_SIZE = 2
  MAX_SHIPS = 2
  ship_lengths <- TwoThenOne
  SLOTS = 2
  Places <- OneRow
  Requests <- FirstRowAndColumn
  Disciplined = TRUE
SPECIFICATION Spec
INVARIANTS
  TypeOK
  TurnMatchesState
  RobotMatchesFleet
  LoserSunk
  NotesMatchBoard
  LedsShowBoards
  BrowserSeesBoards
PROPERTIES
  ShownAsRequested
