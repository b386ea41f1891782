SPECIFICATION ManagerSpec
CONSTANTS
  rows_in_array = 3
  maxaccess = 2
  pre_zero = TRUE
  rowsperchunk = 2
  Values = {0, 1}
  Zero = 0
  Garbage = 1
  samplesperrow = 5
  Sizes = {3}
  OtherArrays <- MCOtherArrays
  Limits = {20, 46}
  FreeBlocks = {0, 30}
  FIRST_SLOP <- MCFirstSlop
  EXTRA_SLOP <- MCExtraSlop
  MIN_SLOP = 2
  MAX_ALLOC_CHUNK = 12
  ALIGN = 2
  HEADER = 2
  CONTROL = 4
  POINTER = 1
  MAC_SLOP = 2
  MaxObjects = 2
  MaxArrays = 2
INVARIANTS ArrayInv NothingLost BuffersFit
PROPERTIES ImplementsRowStore
CHECK_DEADLOCK FALSE
