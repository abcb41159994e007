SPECIFICATION Spec
CONSTANTS
  Plans <- AtOnce
  Temps = {0, 1}
  MinDrop = 1
  StallTime = 1
  MaxTime = 3
  NoReading = NoReading
  Margin = 1
  BlinkCount = 2
  MaxTries = 2
  Horizon = 6
  MaxPlans = 1
  MaxFaults = 0
INVARIANT FanNeverCut
CHECK_DEADLOCK FALSE
