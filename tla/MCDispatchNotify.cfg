SPECIFICATION Spec
CONSTANTS
  Users = {u1, u2}
  Chairs = {c1, c2}
  Rides = {r1, r2}
  Requests = {q1, q2}
  Retries = FALSE
  None = None
SYMMETRY Symmetry
INVARIANTS
  UserToldInOrder
