SPECIFICATION PipelineSpec
CONSTANTS
  HUFF_LOOKAHEAD = 4
  MIN_GET_BITS = 25
  MAX_CORR_BITS = 66
  MAX_EOBRUN = 3
  Jobs <- MCJobs
  Rooms = {4, 400}
  Pieces = {1, 400}
  Sizes = {1, 2, 4, 8}
  Requests <- MCRequests
  MaxPasses = 2
INVARIANT TablesFit
INVARIANT RoundTrip
INVARIANT PictureKept
INVARIANT QuantizerSafe
