SPECIFICATION Spec
CONSTANTS
  DutyLimit = 12
  LookBack = 14
  Calls = {}
  HeartbeatStale = 15
  ReadingGrace = 1
  WifiGrace = 3
  AutoOff = 13
  OverrideTime = 3
  Temperatures = {"cold"}
  Horizon = 15
  MaxInputs = 1
  MaxFaults = 0
INVARIANT DutyLimited
CHECK_DEADLOCK FALSE
