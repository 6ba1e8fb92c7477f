SPECIFICATION FairSpec
CONSTANTS
  Scripts <- MCScripts
  MaxForget = 1
CHECK_DEADLOCK FALSE
INVARIANTS BlocksHoldSets RepeatsAfresh
PROPERTIES RefinesFlow Ends
