SPECIFICATION Spec
CONSTANTS
  Quantities <- MCQuantities
  Specials <- MCSpecials
  Saves <- MCSaves
  UserNames <- MCUserNames
  ConstNames <- MCConstNames
  Number = Number
  NoRun = NoRun
  Freed = Freed
  NoScale = NoScale
  NotTold = NotTold
  MaxPlots = 2
  MaxPoints = 2
\* the plots and points run out
CHECK_DEADLOCK FALSE
INVARIANTS TypeOK PlotsLinked ScalesSound RunKeepsPoints OnlyTouchingBreaks
PROPERTIES PointsAreTold
