SPECIFICATION JobsFairSpec
CONSTANTS
  None = None
  c1 = c1  c2 = c2  z1 = z1
  j1 = j1  j2 = j2  p1 = p1  w1 = w1  w2 = w2
  Captures = {c1, c2}
  Sessions = {z1}
  SessionOf <- PairSessionOf
  Order <- PairOrder
  WindowTurns = 2
  Jobs = {j1, j2, p1}
  Structured = {p1}
  JobWorkers = {w1, w2}
  JobAttempts = 2
  MaxFaults = 1
INVARIANTS
    JobsSafe
PROPERTIES
    TurnsGetFormed
CHECK_DEADLOCK FALSE
