SPECIFICATION Spec
CONSTANTS
  Plans <- SomePlans
  Temps = {0, 1}
  MinDrop = 1
  StallTime = 1
  MaxTime = 2
  NoReading = NoReading
  Margin = 1
  BlinkCount = 2
  MaxTries = 2
  Horizon = 6
  MaxPlans = 2
  MaxFaults = 2
INVARIANTS LightsFollowBookings FanServesBookings FanRests CooldownIsWatched
CHECK_DEADLOCK FALSE
