SPECIFICATION Spec
CONSTANTS
  Blocks <- MCBlocks
  Pool <- MCPool
  Descriptors <- MCObjectDescriptors
  MaxBatch = 2
  MaxFailures = 1
  MaxReorgs = 2
INVARIANT RestoredIsReplay
CHECK_DEADLOCK FALSE
