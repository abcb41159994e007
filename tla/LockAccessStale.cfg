SPECIFICATION Spec
CONSTANTS
  Codes = {"A", "B"}
  Intervals = {"i1", "i2"}
  CodeOf <- TwoCodes
  Low <- TwoLow
  High <- TwoHigh
  UserCodeSlots = {1, 2, 3}
  Capacity = 2
  Masked = FALSE
  MaxFaults = 0
  MaxHeals = 1
  MaxTroubled = 3
PROPERTIES TakenOnlyUnderWay
CHECK_DEADLOCK FALSE
