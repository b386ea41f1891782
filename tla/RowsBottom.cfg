SPECIFICATION Spec
CONSTANTS
  Inputs <- BottomInputs
  MaxReady = 1
  MaxPasses = 0
  LinesPerCall = {1, 2}
INVARIANT NeverPastBottom
CHECK_DEADLOCK FALSE
