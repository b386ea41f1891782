SPECIFICATION Spec
CONSTANTS
  WindowY = 5
  WindowX = 3
  Heights = {5, 6, 7}
  Widths = {3, 4}
  ComponentCounts = {1, 3}
INVARIANTS ReadsInsideButBottomLeft ColoursKeptByPixelShifts SamplesFiltered RowsAsAbstracted
CHECK_DEADLOCK FALSE
