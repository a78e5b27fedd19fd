CONSTANTS
    None = None
    p1 = p1
    s1 = s1
    Projects <- MCProjects
    Subs <- MCSubs
    Callers <- MCCallers
    Members <- MCMembers
    Requests = {r1, r2}
    OrderIds = {o1, o2, o3}
    HazardIds = {h1}
    PastDue = {}
    Major = {}
    HazardRule = "SR-PROJ-001"
    StandingRules = {}
    Endpoints = {"hazards"}
    MaxLog = 5
    ApprovalIds = {a1}
    Approvers <- MCApprovers
    CompanyWide <- MCCompanyWide
    Asks <- MCAsks
    Faults = FALSE
SYMMETRY MCAgentSymmetry
SPECIFICATION AgentSpec
CHECK_DEADLOCK FALSE
INVARIANTS
    ExecutedAtMostOnce
