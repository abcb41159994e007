SPECIFICATION FairSpec
CONSTANTS
  Checks = {"k1"}
  MaxEvents = 1
  MaxWrites = 0
  MaxCalls = 1
  MaxFaults = 1
PROPERTIES SilenceIncidentResolves
