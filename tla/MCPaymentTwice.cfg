SPECIFICATION Spec
CONSTANTS
  Rides = {r1}
  Calls = {e1, e2}
  Slots = {s1, s2}
  None = None
CHECK_DEADLOCK FALSE
INVARIANTS
  NeverChargedTwice
