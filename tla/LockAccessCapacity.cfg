SPECIFICATION Spec
CONSTANTS
  Codes = {"A", "B", "C"}
  Intervals = {"i1", "i2", "i3"}
  CodeOf <- NestedCodes
  Low <- NestedLow
  High <- NestedHigh
  UserCodeSlots = {1, 2, 3}
  Capacity = 2
  Masked = FALSE
  MaxFaults = 0
  MaxHeals = 0
  MaxTroubled = 3
INVARIANTS WithinCapacity
CHECK_DEADLOCK FALSE
