SPECIFICATION FairSpec
CONSTANTS
  Users = {u1, u2}
  Chairs = {c1}
  Rides = {r1, r2}
  Requests = {q1}
  Retries = FALSE
  None = None
PROPERTIES AssignedRideEnds WaitingRideIsServed
