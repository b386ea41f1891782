SPECIFICATION FairSpec
CONSTANTS
  NumProcs = 3
  WindowY = 3
  Heights = {4, 5}
  Stride = 2
PROPERTY EveryRankFinalizes
CHECK_DEADLOCK FALSE
