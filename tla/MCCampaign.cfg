SPECIFICATION Spec
CONSTANTS
  g1 = g1  g2 = g2  g3 = g3  g4 = g4
  q1 = q1  q2 = q2
  Registrations <- MCRegistrations
  Requests <- MCRequests
  Metered <- MCMetered
  Newcomer = Newcomer
  None = None
SYMMETRY MCSymmetry
INVARIANTS TypeOK SlotsAreCounted InviteLimit FareSurvives
PROPERTY CouponUsedOnce
CHECK_DEADLOCK FALSE
