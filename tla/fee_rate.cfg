SPECIFICATION Spec
CONSTANTS
  t1 = t1
  t2 = t2
  Txids <- MCTxids
  Undefined = Undefined
  NaN = NaN
  Text = Text
  False = False
  Metadata <- MCMetadata
  TxRate <- MCTxRate
  StartHeights <- MCStartHeights
  Tips <- MCTips
  MaxLoad = 1
  MaxBatch = 2
  MaxBlocks = 2
  MaxChanges = 1
  MaxFailures = 1
  MaxCrashes = 1
INVARIANT RateOfFee
CHECK_DEADLOCK FALSE
