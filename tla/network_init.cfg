SPECIFICATION FairSpec
CONSTANTS
  Undefined = Undefined
  NaN = NaN
  EnvValues <- MCEnvValues
  Deployments <- MCDeployments
  MaxSize = 2
  MaxHeight = 3
  MaxBoots = 3
  MaxReorgs = 1
  DefaultN = 2
  Asked <- MCAsked
INVARIANTS TypeOK NoGapNoRepeat AlignedUnlessSplit QueriesMatchEvents
PROPERTIES ResumesAtCheckpoint ResetSettles ImplementsIndexedRange ResetCompletes
CHECK_DEADLOCK FALSE
