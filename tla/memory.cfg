SPECIFICATION MCSpec
CONSTANTS
    m1 = m1
    m2 = m2
    u1 = u1
    u2 = u2
    w1 = w1
    w2 = w2
    r1 = r1
    g1 = g1
    Memory = {m1, m2}
    Update = {u1, u2}
    Deleter = {"user", "ttl"}
    MaxExternal = 2
    Worker = {w1, w2}
    Repairer = {r1}
    Governor = {g1}
    MaxAttempts = 2
    MaxClaims = 2
    Casts <- MCCasts
    Writer = {"w1", "w2"}
    FormationWorker = {"k1", "k2"}
    StructCasts <- MCStructCasts
    StartStatus = {"running"}
    MaxVersion = 3
    StructAttempts = 2
    MaxStops = 1
INVARIANTS
    IndexWorkIsKept
    UpdatesBuildOnLast
    StructuredKept
PROPERTIES
    DeletionIsFinal
    TaskNeverRewinds
CHECK_DEADLOCK FALSE
