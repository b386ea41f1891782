SPECIFICATION Spec
CONSTANTS
  MaxObjects = 3
  MaxFiles = 2
  Heights = {1, 2, 3}
  Channels = {1, 3, 4}
INVARIANTS RowsOwned SuccessIsComplete OnlyFailuresLeak
PROPERTY CallsEnd
CHECK_DEADLOCK FALSE
