SPECIFICATION PairingSpec
CONSTANTS
  Servers = {"sauna", "shop"}
  Config <- TwoServers
  MaxNode = 4
  MaxStarts = 2
  MaxFailures = 1
  MaxRestarts = 2
INVARIANTS FlagFollowsMode WaitIsTimed
PROPERTIES RestartKeepsLocks AdoptedAsAsked
CHECK_DEADLOCK FALSE
