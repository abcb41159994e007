SPECIFICATION Spec
CONSTANTS
  Codes = {"A"}
  Intervals = {"i1", "i2"}
  CodeOf <- SameCodes
  Low <- SameLow
  High <- SameHigh
  UserCodeSlots = {1, 2}
  Capacity = 2
  Masked = FALSE
  MaxFaults = 0
  MaxHeals = 0
  MaxTroubled = 3
INVARIANTS NothingLeftBehind
CHECK_DEADLOCK FALSE
