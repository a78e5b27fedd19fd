CONSTANTS
    None = None
    p1 = p1
    s1 = s1
    Projects <- MCProjects
    Subs <- MCSubs
    Callers <- MCCallers
    Members <- MCMembers
    Requests = {r1, r2}
    OrderIds = {o1}
    HazardIds = {h1}
    PastDue = {h1}
    Major = {h1}
    HazardRule = "SR-PROJ-001"
    StandingRules = {}
    Endpoints = {"hazards", "patch", "escalate"}
    MaxLog = 6
SPECIFICATION Spec
CHECK_DEADLOCK FALSE
PROPERTIES
    LegalStatusChanges
