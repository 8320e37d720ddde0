SPECIFICATION MCSpec
CONSTANTS
    Worlds <- MCWorlds
    InputFact <- MCInput
    Never = Never
    None = None
    MaxTime = 2
    CharsPerToken = 2
    ItemLimit = 6
    Wrapper = 2
    RouteBudgets = {3, 8}
    SourceBudget <- MCSourceBudget
    AgentBudget = 10
    BaseInput = 2
    AgentScopes = {"preference", "task"}
    RouteScopes = {"preference", "stable"}
    Handle = {k1, k2}
    Consumer = {c1, c2}
    Binding = {"mine", "other"}
    Ttl = 2
    Delay = 1
    LastTime = 3
    NoRecord = NoRecord
    KnowledgeModes <- MCModes
INVARIANTS
    HardBudget
    OnlyEligibleInfluence
    ConflictsSettled
    RequiredKnowledgeArrives
    GivenOnceInTime
PROPERTIES
    ExpiredBodyErased
CHECK_DEADLOCK FALSE
