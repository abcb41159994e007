SPECIFICATION FairSpec
CONSTANTS
  Checks = {"k1", "k2"}
  MaxEvents = 2
  MaxWrites = 1
  MaxCalls = 1
  MaxFaults = 1
INVARIANTS OneInterview PagerAgrees
PROPERTIES NoPageOutOfOrder DeafLockIsPaged IncidentCloses
