SPECIFICATION MCSpec
CONSTANTS
  Parts = {"all"}
  None = None
  t1 = t1  t2 = t2  t3 = t3  r1 = r1  r2 = r2  r3 = r3  p1 = p1  s1 = s1  s2 = s2
  e1 = e1  e2 = e2  e3 = e3  x1 = x1  x2 = x2  k1 = k1  k2 = k2
  Turns = {t1, t2, t3}
  Runs = {r1, r2, r3}
  Plans = {p1}
  Steps = {s1, s2}
  EventIds = {e1, e2, e3}
  ResultIds = {x1, x2}
  Workers = {k1}
  Sweepers = {w1}
  TurnOf <- SessionTurnOf
  StepOf <- SessionStepOf
  PlanOf <- TwoPlanOf
  Position <- TwoPosition
  DependsOn <- TwoInOrder
  DeadlineOf <- ThreeDeadlines
  RouteTurns = {}
  CrashProne = {}
  BatchSize = 2
  MaxClock = 1
  AttachBound = 0
SYMMETRY Interchangeable
INVARIANTS
    FinishedRunSettlesStep
    PlanShowsSteps
CHECK_DEADLOCK FALSE
