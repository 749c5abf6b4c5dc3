SPECIFICATION Spec
CONSTANTS
  Undefined = Undefined
  NaN = NaN
  EnvValues <- MCEnvValues
  Deployments <- MCChildDeployments
  MaxSize = 2
  MaxHeight = 3
  MaxBoots = 3
  MaxReorgs = 1
  DefaultN = 2
  Asked <- MCAsked
PROPERTY RefusesWhenBehind
CHECK_DEADLOCK FALSE
