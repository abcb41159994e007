SPECIFICATION Spec
CONSTANTS
  Plans <- BothPlans
  FirstPlan <- EarlyPlan
  ConfirmCycles = 1
  Overrides = {"o1"}
  Horizon = 2
  MaxRequests = 2
  MaxFaults = 1
INVARIANTS OneThermostat NeverUnwatched FlagFollowsPlan
PROPERTIES SomeoneInCharge
CHECK_DEADLOCK FALSE
