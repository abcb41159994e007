SPECIFICATION Spec
CONSTANTS
  Clients = {"booking", "schedule"}
  Items = {"i1", "i2"}
  MaxSockets = 3
  MaxChanges = 4
  MaxFaults = 3
INVARIANTS OneListener NeverStranded
PROPERTIES CatchesUp
CHECK_DEADLOCK FALSE
