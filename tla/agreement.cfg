SPECIFICATION MCSpec
CONSTANTS
    Worker = {"w1", "w2"}
    Requester = {"r1", "r2"}
    ClientKey = {"k1", "k2"}
    DecisionCasts <- MCDecisionCasts
    Managed = {h1, h2}
    Direct = {d1}
    Repairer = {k1, k2}
    AgentId = {"a", "b"}
    FileAgents = {"a"}
    Asker = {"h1", "h2"}
    Process = {"p"}
    RegistryCasts <- MCRegistryCasts
    MaxWrites = 3
    MaxRequests = 4
INVARIANTS
    MemoryIsGrounded
    OneChangePerRevision
    ResolutionAgrees
    InvocationsAgree
    RegistryAgrees
PROPERTIES
    ImplementsTurnLifecycle
    EditsBuildOnTheirBaseHere
CHECK_DEADLOCK FALSE
