SPECIFICATION FairSpec
CONSTANTS
  Final = 14
  MaxStep = 5
  TStep = 5
  DelMin = 1
  MinBreak = 3
  Margin = 1
  Cut = 2
  Shrink = 2
  InitDelta = 2
  InitSave = 5
  Points <- MCPoints
  MaxPrelim = 1
  MaxSteps = 2
  MaxTable = 5
  UIC = TRUE
  wantsync = TRUE
  RedoPastEnd = FALSE
INVARIANTS TypeOK StepsFromLast StepsForward NoCrossing BreakpointsAreHit TableInOrder
PROPERTIES RunEnds RefinesJob
