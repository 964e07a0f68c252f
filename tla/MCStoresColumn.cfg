SPECIFICATION Spec
CONSTANTS
  r1 = r1  r2 = r2
  c1 = c1  c2 = c2
  Rides = {r1, r2}
  Chairs = {c1, c2}
  ChunkSize = 2
  MaxCalls = 4
  MaxInits = 1
  Starts <- OneRide
INVARIANT ColumnIsLatest
