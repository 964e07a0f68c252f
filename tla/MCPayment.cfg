SPECIFICATION FairSpec
CONSTANTS
  Rides = {r1}
  Calls = {e1, e2}
  Slots = {s1, s2, s3}
  None = None
CHECK_DEADLOCK FALSE
INVARIANTS
  TypeOK
  ChargedOnce
  CompletedWasPaid
PROPERTIES
  RideIsCompleted
