SPECIFICATION Spec
CONSTANTS
  Checks = {"unreachable", "steam", "no-temp", "heartbeat", "not-heating", "temp-stuck", "not-hot", "welded-relay", "coil-open", "overheat", "manual-reset"}
  Temps = {0, 2, 5}
  Threshold = 4
  OverheatMargin = 1
  NotHotTolerance = 3
  MinRise = 2
  Epsilon = 1
  Window = 2
  AlertCycles = 2
  NotHeatingCycles = 3
  ConfirmCycles = 1
  Debounce = 2
  Troubled = {"unreachable", "steam", "not-hot", "welded-relay", "overheat", "manual-reset"}
  MaxCalls = 2
  Overlapping = {"coil-open"}
  MaxFaults = 1
PROPERTIES PagesEarned StandingFaultIsKnown AllClear
CHECK_DEADLOCK FALSE
