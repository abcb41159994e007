SPECIFICATION Spec
CONSTANTS
  DutyLimit = 2
  LookBack = 3
  Calls = {"c1"}
  HeartbeatStale = 1
  ReadingGrace = 0
  WifiGrace = 1
  AutoOff = 3
  OverrideTime = 1
  Temperatures = {"none", "cold", "warm", "hot", "over"}
  Horizon = 4
  MaxInputs = 2
  MaxFaults = 1
INVARIANTS LogFollowsRelay OnOnlyWhenPermitted OverrideBounded
PROPERTIES NoFalseLockout LockoutStays
CHECK_DEADLOCK FALSE
