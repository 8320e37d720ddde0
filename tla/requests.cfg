SPECIFICATION MCSpec
CONSTANTS
    a1 = a1
    a2 = a2
    Attempt = {h1, h2}
    Agent = {a1, a2}
    Candidates <- MCCandidates
    Requests <- MCRequests
    OldAgents <- MCOldAgents
    Texts = {"x"}
    PlanActions = {"show_plan", "silent"}
    Policies = {"auto_execute", "host_managed"}
    AutoAllowed = FALSE
    NoAgent = NoAgent
    NoPlan = NoPlan
    OldPlan = OldPlan
    StepCount = 2
    DependsOn <- MCDependsOn
    AgentOf <- MCAgentOf
    Executor = {h1, h2}
    MaxClaims = 2
    MaxCalls = 2
    MaxEvents = 1
    MaxStalls = 1
    MaxTries = 1
    Stores = {"database", "memory"}
SYMMETRY MCSymmetry
INVARIANTS
    AnswersHold
    WithinCandidates
    ClaimsSafe
PROPERTIES
    RouterNeverRewinds
    StepsAreFinal
CHECK_DEADLOCK FALSE
