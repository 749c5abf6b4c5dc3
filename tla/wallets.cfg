SPECIFICATION Spec
CONSTANTS
  alice = alice
  bob = bob
  other = other
  None = None
  Tx <- MCTx
  Watched <- MCWatched
  Blocks <- MCBlocks
  Pool <- MCPool
  MaxHeight = 2
  MaxBatch = 2
  MaxRefreshes = 2
  MaxTicks = 2
  MaxReorgs = 1
INVARIANTS TypeOK BalanceIsUnspent StatusMatchesChain SeenOnce ConfirmedListed
CHECK_DEADLOCK FALSE
