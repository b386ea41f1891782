SPECIFICATION FairSpec
CONSTANTS
  NumProcs = 5
  WindowY = 5
  Heights = {1, 2, 3, 4, 5, 8, 12, 13, 14, 15}
  Stride = 2
INVARIANTS ProtocolInv MessagesFit ImageComplete PartitionInvisible DataInv
PROPERTIES ImplementsRowFilter EndsOnceImageIsRead
CHECK_DEADLOCK FALSE
