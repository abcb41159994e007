SPECIFICATION Spec
CONSTANTS
  Codes = {"A"}
  Intervals = {"i1", "i2"}
  CodeOf <- SameCodes
  Low <- SameLow
  High <- SameHigh
  UserCodeSlots = {1, 2}
  Capacity = 2
  Masked = FALSE
  MaxFaults = 0
  MaxHeals = 1
  MaxTroubled = 3
PROPERTIES HeldWhileUnderWay
CHECK_DEADLOCK FALSE
