SPECIFICATION Spec
CONSTANTS
  WindowY = 3
  WindowX = 3
  Repeats = 4
  Heights = {2, 3, 5}
  Widths = {2, 3, 4}
  ComponentCounts = {3}
INVARIANT InteriorFiltered
CHECK_DEADLOCK FALSE
