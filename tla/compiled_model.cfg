SPECIFICATION Spec
CONSTANTS
  Blocks <- MCBlocks
  Pool <- MCPool
  Descriptors <- MCDescriptors
  MaxBatch = 2
  MaxFailures = 1
  MaxReorgs = 2
INVARIANTS TypeOK RestoredIsReplay NeverOverspent LocalsComplete RowsAreChain
CHECK_DEADLOCK FALSE
