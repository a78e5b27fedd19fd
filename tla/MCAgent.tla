-------------------------------- MODULE MCAgent --------------------------------
\* The callers of MCWorkOrder; the director and the officer may decide and execute.
EXTENDS AgentProperties, MCWorkOrder

MCApprovers == {MCCaller("director", "safety_director"),
                MCCaller("gc", "gc_safety_officer")}
\* Only the director sees the requests that name no project.
MCCompanyWide == {MCCaller("director", "safety_director")}
\* Every transition; a create request for the hazard or for none, with its source
\* overridden by each kind of source; and one of each tool that names no project.
MCCreate(target, project, rule, source) ==
    [tool |-> "work_orders.create", target |-> target, action |-> None,
     project |-> project, rule |-> rule, source |-> source]
MCTransition(o, action, project) ==
    [tool |-> "work_orders.transition", target |-> o, action |-> action,
     project |-> project, rule |-> None, source |-> "target"]
MCAsks ==
    {MCCreate(t, p1, None, "target") : t \in HazardIds \cup {None}}
    \cup {MCCreate(h, p1, HazardRule, s) : h \in HazardIds, s \in {"project", "other"}}
    \cup {MCCreate(None, p1, None, h) : h \in HazardIds}
    \cup {MCCreate(h, None, None, "target") : h \in HazardIds}
    \cup {MCTransition(o, a, p1) : o \in OrderIds, a \in Actions \ {"timeout"}}
    \cup {MCTransition(o, "confirm", None) : o \in OrderIds}
MCAgentSymmetry == Permutations(Requests) \cup Permutations(OrderIds)
=============================================================================
