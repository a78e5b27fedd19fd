------------------------------- MODULE MCProfile -------------------------------
EXTENDS ProfileProperties, TLC
CONSTANTS p1, w1, s1

ViolationFact(violations) ==
    [days |-> 30, failed |-> FALSE, violations |-> violations, cert |-> "valid", health |-> "valid"]
HousingFact(overdue, equipment) ==
    [type |-> "housing", overdue |-> overdue, major |-> 0, equipment |-> equipment,
     schedule |-> 5, night |-> 0, cross |-> 0]
LicensedFact == [overdue |-> (p1 :> 1), major |-> (p1 :> 0), license |-> "valid", accidents |-> 0]

\* A project, one of its workers and the worker's subcontractor.
MCSubOf == w1 :> s1
MCProjectOf == w1 :> p1
MCSubsIn == p1 :> {s1}
MCScopes == {{p1, None}, {p1}}
MCEarlier == {<<s1, None>>}
MCFacts == (p1 :> {HousingFact(1, 0)}) @@ (w1 :> {ViolationFact(0), ViolationFact(3)}) @@ (s1 :> {LicensedFact})
MCWanted == {{"worker", "subcontractor"}}

\* A project on its own.
MCNobody == <<>>
MCNothingIn == p1 :> {}
MCThreeFacts == p1 :> {HousingFact(1, 0), HousingFact(2, 0), HousingFact(2, 1)}
MCProjectsOnly == {{"project"}}
=============================================================================
