SPECIFICATION Spec
CONSTANTS
  Codes = {"A", "B"}
  Intervals = {"i1", "i2", "i3"}
  CodeOf <- OverlapCodes
  Low <- OverlapLow
  High <- OverlapHigh
  UserCodeSlots = {1, 2, 3}
  Capacity = 2
  Masked = FALSE
  MaxFaults = 1
  MaxHeals = 1
  MaxTroubled = 2
INVARIANTS RefCountExact LockMatchesMap NoLastingFalseAlarm SlotsDistinct
PROPERTIES HealRestoresAccess
CHECK_DEADLOCK FALSE
