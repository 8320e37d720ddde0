SPECIFICATION MCSpec
CONSTANTS
  None = None
  t1 = t1  t2 = t2  t3 = t3  r1 = r1  r2 = r2  r3 = r3  p1 = p1  s1 = s1  s2 = s2
  e1 = e1  e2 = e2  e3 = e3  x1 = x1  x2 = x2  k1 = k1  k2 = k2
  Turns = {t1, t2}
  Runs = {r1, r2}
  Plans = {}
  Steps = {}
  EventIds = {e1}
  ResultIds = {x1}
  Workers = {k1}
  Sweepers = {w1, w2}
  TurnOf <- OwnTurnOf
  StepOf <- NoStepOf
  PlanOf <- NoSteps
  Position <- NoSteps
  DependsOn <- NoSteps
  DeadlineOf <- Deadlines
  RouteTurns = {t1}
  CrashProne = {w2}
  BatchSize = 1
  MaxClock = 2
  AttachBound = 0
  NoDelivery = NoDelivery
  Events = {e1, e2}
  Completions = {e1, e2}
  Suppressed = {e2}
  Consumers = {k1, k2}
  MaxAttempts = 2
  MaxStalls = 1
  MaxCrashes = 1
INVARIANTS
    SealAnnounced
    OutboxSafe
PROPERTIES
    TurnNeverReopens
    OverdueRunsTerminate
    EventsSettle
CHECK_DEADLOCK FALSE
