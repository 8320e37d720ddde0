SPECIFICATION MCSpec
CONSTANTS
  None = None
  k1 = k1  k2 = k2  r1 = r1
  e1 = e1  e2 = e2  h1 = h1  h2 = h2
  Tickets = {k1, k2}
  RunIds = {r1}
  RunOf <- SharedRunOf
  EventIds = {e1, e2}
  Messages <- MixedMessages
  Handlers = {h1, h2}
  Caller = {h1, h2}
  TraceCasts <- MCLateCasts
SYMMETRY MCSymmetry
INVARIANTS
  NothingSkipped
CHECK_DEADLOCK FALSE
