SPECIFICATION Spec
CONSTANTS
  MaxRides = 2
  Places = {0, 1, 2}
  Start = 0
  Pickup <- TwoPickups
  Destination <- TwoDestinations
  MaxLost = 0
INVARIANT ToldInTime
