SPECIFICATION FairSpec
CONSTANTS
  Files <- MCFiles
  Intact <- MCIntact
  SaveLimits = {0, 2}
  CodeLengths = 1
  DCTSIZE2 = 1
  APP0_DATA_LEN = 2
  APP14_DATA_LEN = 2
  DCTSIZE = 1
  GetBytes = 2
  JPEG_MAX_DIMENSION = 100
  MaxScanNumber = 3
INVARIANTS CommentsSavedOnce GarbageCountedOnce QuantTablesOfFirstScan RowsReadBeforeOutput OnePassInStep DamageStaysLocal
PROPERTIES Ends
CHECK_DEADLOCK FALSE
