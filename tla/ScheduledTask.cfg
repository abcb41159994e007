SPECIFICATION FairTaskSpec
CONSTANTS
  MAX_DELAY = 3
  Horizon = 8
  MaxSteps = 2
PROPERTIES OneShotTask EventuallyRuns
CHECK_DEADLOCK FALSE
