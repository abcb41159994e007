SPECIFICATION Spec
CONSTANTS
  MinDrop = 1
  StallTime = 1
  MaxTime = 2
  NoReading = NoReading
  Plans <- MCPlans
  Temperatures = {40, 41}
  OverrideTime = 1
  PowerTimerTime = 2
  FanTimerTime = 2
  None = None
  Horizon = 5
  MaxInputs = 2
  MaxFailures = 1
  MaxTouches = 1
  MaxRestarts = 1
INVARIANTS BackstopArmed LatestDecisionHolds FanWithinCap
PROPERTIES FanStartsOncePerSession FollowsPlan
CHECK_DEADLOCK FALSE
