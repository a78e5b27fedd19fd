CONSTANTS
    None = None
    p1 = p1
    s1 = s1
    Projects <- MCProjects
    Subs <- MCSubs
    Callers <- MCCallers
    Members <- MCMembers
    Requests = {r1, r2}
    OrderIds = {o1, o2}
    HazardIds = {h1}
    PastDue = {}
    Major = {}
    HazardRule = "SR-PROJ-001"
    StandingRules = {}
    Endpoints = {"hazards", "patch"}
    MaxLog = 6
    ApprovalIds = {a1}
    Approvers <- MCApprovers
    CompanyWide <- MCCompanyWide
    Asks <- MCAsks
    Faults = TRUE
SYMMETRY MCAgentSymmetry
SPECIFICATION AgentSpec
CHECK_DEADLOCK FALSE
INVARIANTS
    AgentTypeOK
    NoEffectUnapproved
    ExecutedMeansEffect
PROPERTIES
    OnlyOrdinarySteps
