CONSTANTS
    None = None
    p1 = p1
    s1 = s1
    Projects <- MCProjects
    Subs <- MCSubs
    Callers <- MCCallers
    Members <- MCMembers
    Requests = {r1, r2}
    OrderIds = {o1, o2, o3}
    HazardIds = {h1}
    PastDue = {h1}
    Major = {h1}
    HazardRule = "SR-PROJ-001"
    StandingRules = {}
    Endpoints = {"hazards", "patch", "recalculate"}
    MaxLog = 7
SPECIFICATION Spec
CHECK_DEADLOCK FALSE
PROPERTIES
    NoDuplicateRuleOrder
