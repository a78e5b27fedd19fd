CONSTANTS
    None = None
    p1 = p1
    s1 = s1
    Projects <- MCProjects
    Subs <- MCSubs
    Callers <- MCCallers
    Members <- MCMembers
    Requests = {r1}
    OrderIds = {o1, o2, o3}
    HazardIds = {h1, h2}
    PastDue = {h1, h2}
    Major = {h1}
    HazardRule = "SR-PROJ-001"
    StandingRules = {}
    Endpoints <- MCEverything
    MaxLog = 5
SYMMETRY MCOrderSymmetry
SPECIFICATION Spec
CHECK_DEADLOCK FALSE
INVARIANTS
    LogIsOnePath
    HazardFollowsOrder
    EvidenceKept
    ProfileNotOverstated
PROPERTIES
    LegalStatusChanges
    NoDuplicateRuleOrder
