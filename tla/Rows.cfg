SPECIFICATION Spec
CONSTANTS
  Inputs <- MCInputs
  MaxReady = 4
  MaxPasses = 2
  LinesPerCall = {1, 3}
INVARIANTS RowsInPlace ScansShown SmoothedFromReadRows QuantizerSeesImage EveryCallProgresses
