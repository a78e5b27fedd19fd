------------------------------ MODULE MCWorkOrder ------------------------------
\* One project with its four kinds of project_user row: a director, a general
\* contractor officer, an officer of subcontractor s1 and one whose row names no
\* subcontractor.
EXTENDS WorkOrderProperties, TLC

CONSTANTS p1, s1

MCCaller(id, role) == [id |-> id, role |-> role, sub |-> None, scope |-> {p1}]
MCCallers == {MCCaller("director", "safety_director"),
              MCCaller("gc", "gc_safety_officer"),
              MCCaller("sub", "sub_safety_officer"),
              MCCaller("nosub", "sub_safety_officer")}
MCMember(id, role, sub) == [id |-> id, project |-> p1, role |-> role, sub |-> sub]
MCMembers == {MCMember("director", "safety_director", None),
              MCMember("gc", "gc_safety_officer", None),
              MCMember("sub", "sub_safety_officer", s1),
              MCMember("nosub", "sub_safety_officer", None)}
MCProjects == {p1}
MCSubs == {s1}
MCEverything == {"hazards", "work_orders", "patch", "execute", "escalate", "recalculate"}
MCOrderSymmetry == Permutations(OrderIds) \cup Permutations(Requests)
MCSymmetry == Permutations(OrderIds) \cup Permutations(HazardIds) \cup Permutations(Requests)
=============================================================================
