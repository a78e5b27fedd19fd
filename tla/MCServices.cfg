SPECIFICATION ServicesSpec
CONSTANTS
    None = None
    Requests = {r1, r2}
    p1 = p1
    p2 = p2
    c1 = c1
    c2 = c2
    k1 = k1
    k2 = k2
    t1 = t1
    t2 = t2
    Projects = {p1, p2}
    Hazards = {h1}
    OrderNames = {o1}
    Users <- MCUsers
    Contexts = {x1, x2}
    Kept = 2
    MaxTurns = 2
    Callers <- MCCallers
    Questions = {"q"}
    Replies = {"a"}
    Candidates <- MCCandidates
    Rows <- MCRows
    MaxReplies = 2
    MaxSessions = 1
    MaxAsks = 3
    Agents = {a1, a2}
    MaxEdits = 1
    MaxVersions = 3
    Cases = {k1, k2}
    Tenants = {t1, t2}
    Texts = {"a", "b"}
    Batches <- MCBatches
    MaxScripts = 3
    Sites = {p1, p2}
    Firms = {f1}
    Staff = {w1}
    Dangers = {h1}
    NeighborLimit = 50
    MaxChanges = 2
    MaxSyncs = 2
    Accounts = {u1, u2}
    Seeded = {u1}
    MockIdpAccount = u2
    Roles = {"admin", "officer"}
    DefaultPermissions <- MCDefaultPermissions
    SeedHolds <- MCSeedHolds
    MaxAdmin = 3
    Clients = {t1}
    Factors = {"rectification", "oversight", "violation"}
    Outcomes = {"fall", "fire", "other"}
    Parents <- MCParents
    FactorPrior <- MCFactorPrior
    OutcomePrior <- MCOutcomePrior
    Likelihood <- MCLikelihood
    Fields <- MCFields
    Analyses <- MCAnalyses
    RelationshipBoost <- MCRelationshipBoost
    CaseKinds <- MCCaseKinds
    MetricFactor <- MCMetricFactor
    SubjectFactor <- MCSubjectFactor
    SeedClient = t1
    L2Min = 1
    L3Min = 2
    MaxLibrary = 3
    Indicators <- MCIndicators
    Severities = {"medium", "high", None}
    MaxIndicators = 4
    MaxCases = 1
SYMMETRY Symmetric
INVARIANTS
    OnlyReadsExecuted
    ReviewRequested
    SessionFollowsUnlessOverlapped
    CopiesAgreeUnlessTorn
    AnswersInScope
    ResolvedHasResult
    OneVersionServedUnlessRaced
    SearchCurrentUnlessCrossed
    SyncedProjectIsComplete
    HandlersEntitledUnlessOvertaken
    AutoServed
PROPERTIES
    KeepsContract
    PassingCaseKeepsPassing
CHECK_DEADLOCK FALSE
