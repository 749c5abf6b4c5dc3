SPECIFICATION FairSpec
CONSTANTS
  Models <- MCModels
  Chains <- MCChains
  Emits <- MCEmits
  StartHeight = 0
  MaxSize = 2
  MaxBatch = 2
  MaxQueue = 3
  MaxMoves = 3
  MaxFailures = 2
  MaxCrashes = 1
INVARIANTS TypeOK ExactlyOnce ChainLinked QueueContiguous ConfirmMatchesBatch InFlightOwned
PROPERTIES ImplementsChainIndex Converges InFlightAnswered
CHECK_DEADLOCK FALSE
