CONSTANTS
    None = None
    p1 = p1
    s1 = s1
    Projects <- MCProjects
    Subs <- MCSubs
    Callers <- MCCallers
    Members <- MCMembers
    Requests = {r1, r2}
    OrderIds = {o1, o2}
    HazardIds = {h1}
    PastDue = {h1}
    Major = {}
    HazardRule = "SR-PROJ-001"
    StandingRules = {}
    Endpoints = {"hazards", "work_orders", "patch"}
    MaxLog = 5
SYMMETRY MCSymmetry
SPECIFICATION Spec
CHECK_DEADLOCK FALSE
INVARIANTS
    HazardClosedByReview
    ClosedOrderClosesHazard
