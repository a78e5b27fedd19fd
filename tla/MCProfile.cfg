CONSTANTS
    None = None
    p1 = p1
    w1 = w1
    s1 = s1
    Projects = {p1}
    Workers = {w1}
    Subs = {s1}
    SubOf <- MCSubOf
    ProjectOf <- MCProjectOf
    SubsIn <- MCSubsIn
    Earlier <- MCEarlier
    Scopes <- MCScopes
    FactsOf <- MCFacts
    Wanted <- MCWanted
    Filters = {p1}
    Requests = {r1, r2}
    Popular = {s1}
    MaxChanges = 1
SPECIFICATION FairProfileSpec
INVARIANTS
    NothingInvented
    FreshUnlessRaced
    RowsSoundUnlessRaced
PROPERTIES
    CacheHeals
