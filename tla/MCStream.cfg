SPECIFICATION FairSpec
CONSTANTS
  Conns = {k1, k2}
  LastStep = 3
  MaxRides = 2
  None = None
CHECK_DEADLOCK FALSE
INVARIANTS
  TypeOK
  NothingMissed
  NoGaps
  MarkedWasWritten
PROPERTIES
  UnsentIsSent
