SPECIFICATION FairSpec
CONSTANTS
  MaxRides = 2
  Places = {0, 1, 2}
  Start = 0
  Pickup <- TwoPickups
  Destination <- TwoDestinations
  MaxLost = 1
INVARIANTS
  TypeOK
  RideInOrder
  HearsLatest
  OfferedWhenFree
PROPERTIES
  RideIsDriven
