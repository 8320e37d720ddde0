SPECIFICATION MCSpec
CONSTANTS
  Parts = {"handlers", "sweeper", "memory"}
  None = None
  t1 = t1  t2 = t2  t3 = t3  r1 = r1  r2 = r2  r3 = r3  p1 = p1  s1 = s1  s2 = s2
  e1 = e1  e2 = e2  e3 = e3  x1 = x1  x2 = x2  k1 = k1  k2 = k2
  Turns = {t1}
  Runs = {r1, r2}
  Plans = {p1}
  Steps = {s1, s2}
  EventIds = {e1, e2}
  ResultIds = {x1, x2}
  Workers = {k1, k2}
  Sweepers = {w1}
  TurnOf <- SharedTurnOf
  StepOf <- SharedStepOf
  PlanOf <- TwoPlanOf
  Position <- TwoPosition
  DependsOn <- TwoParallel
  DeadlineOf <- Deadlines
  RouteTurns = {t1}
  CrashProne = {w1}
  BatchSize = 2
  MaxClock = 2
  AttachBound = 2
SYMMETRY Interchangeable
INVARIANTS
    SafetyInv
    RunsAreAccountedFor
PROPERTIES
    CompletedRunIsFinal
    DecidedOnceInMemory
CHECK_DEADLOCK FALSE
