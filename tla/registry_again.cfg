SPECIFICATION MCSpec
CONSTANTS
    Worker = {"w1", "w2"}
    Requester = {"r1", "r2"}
    ClientKey = {"k1", "k2"}
    DecisionCasts <- MCDecisionCasts
    Managed = {h1, h2}
    Direct = {d1}
    Repairer = {k1, k2}
    AgentId = {"a", "b"}
    FileAgents = {"a"}
    Asker = {"h1", "h2", "h3"}
    Process = {"p"}
    RegistryCasts <- MCAgainCasts
    MaxWrites = 4
    MaxRequests = 5
PROPERTIES
    EditsBuildOnTheirBase
CHECK_DEADLOCK FALSE
