CONSTANTS
    None = None
    p1 = p1
    w1 = w1
    s1 = s1
    Projects = {p1}
    Workers = {}
    Subs = {}
    SubOf <- MCNobody
    ProjectOf <- MCNobody
    SubsIn <- MCNothingIn
    Earlier = {}
    Scopes = {}
    FactsOf <- MCThreeFacts
    Wanted <- MCProjectsOnly
    Filters = {p1}
    Requests = {r1, r2}
    Popular = {}
    MaxChanges = 2
SPECIFICATION ProfileSpec
INVARIANTS
    LevelFitsScore
