SPECIFICATION FairSpec
CONSTANTS
  Servers = {"sauna", "shop"}
  Config <- TwoServers
  MaxNode = 3
  MaxStarts = 1
  MaxFailures = 0
  MaxRestarts = 0

PROPERTIES PairingGivesUp
CHECK_DEADLOCK FALSE
