SPECIFICATION Spec
CONSTANTS
  WindowY = 3
  WindowX = 3
  Heights = {6}
  Widths = {6}
  ComponentCounts = {3}
INVARIANT ReadsInside
CHECK_DEADLOCK FALSE
