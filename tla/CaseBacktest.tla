------------------------------ MODULE CaseBacktest ------------------------------
(***************************************************************************)
(* The backtest of the risk rules against accident cases                   *)
(* (services/cases/backtest.py): the warning indicators of a case are read *)
(* one by one into the facts of a project, a worker or a subcontractor,    *)
(* which the live calculators rate; the case passes if an expected rule    *)
(* fires and the level its severity demands is reached.                    *)
(***************************************************************************)
EXTENDS Backend, RiskScores

CONSTANTS
    Indicators,     \* [code, value]: what the library's cases warn of
    Severities,     \* the levels SEVERITY_MIN_RISK demands of cases, None if it has none
    MaxIndicators, MaxCases         \* bounds: indicators per case, cases

ASSUME BacktestAssumption ==
    /\ MaxIndicators \in Nat /\ MaxCases \in Nat
    /\ None \notin Nat /\ \A ind \in Indicators : ind.value \in Nat   \* counts, scores and percentages

VARIABLES
    reading,        \* facts of the case being read; `seen` are the codes so far
    tally           \* the report: cases, passed, with expected rules, of which one fired

backtestVars == <<reading, tally>>

\* The facts warning_indicators_to_facts begins with (the schedule index is 15).
NoIndicators ==
    [seen |-> {}, count |-> 0,
     project |-> [type |-> "default", overdue |-> 0, major |-> 0, equipment |-> 0, schedule |-> 15,
                  night |-> 0, cross |-> 0, weather |-> 0],
     worker |-> [days |-> 60, exam |-> 85, violations |-> 0, cert |-> "valid", health |-> "valid"],
     sub |-> [license |-> "valid", accidents |-> 0, ratio |-> 2000]]

BacktestInit ==
    /\ reading = NoIndicators
    /\ tally = [cases |-> 0, passed |-> 0, ruled |-> 0, fired |-> 0]
-----------------------------------------------------------------------------
\* Codes stand for the classes of metric codes the mapping treats alike.
WorkerCodes == {"violation", "cert", "training"}
ProjectCodes == {"overdue", "major", "equipment", "cross", "weather", "night", "ppe"}

\* infer_profile_type
ProfileType(codes) ==
    IF "sub_violation" \in codes THEN "subcontractor"
    ELSE IF codes \cap WorkerCodes # {} /\ codes \cap ProjectCodes = {} THEN "worker" ELSE "project"

ProjectWithMutLatest(p, ind) ==       \* the latest count instead of the highest
    CASE ind.code = "overdue"   -> [p EXCEPT !.overdue = ind.value]
      [] ind.code = "major"     -> [p EXCEPT !.major = Most(@, Most(ind.value, 1))]
      [] ind.code = "equipment" -> [p EXCEPT !.equipment = Most(@, When(ind.value > 0, 1))]
      [] OTHER -> p

\* _apply_warning_indicator: counts keep their highest value, a subcontractor's
\* violations add up.  The examination score keeps its lowest value, except that a
\* score of 0 is taken for none (`exam_score or 100.0`).
ProjectWith(p, ind) ==
    CASE ind.code = "overdue"   -> [p EXCEPT !.overdue = Most(@, ind.value)]
      [] ind.code = "major"     -> [p EXCEPT !.major = Most(@, Most(ind.value, 1))]
      [] ind.code = "equipment" -> [p EXCEPT !.equipment = Most(@, When(ind.value > 0, 1))]
      [] ind.code = "cross"     -> [p EXCEPT !.cross = Most(@, ind.value)]
      [] ind.code = "weather"   -> [p EXCEPT !.weather = Most(@, ind.value)]
      [] ind.code = "night"     -> [p EXCEPT !.night = Most(@, ind.value)]
      [] ind.code = "ppe"       -> [p EXCEPT !.overdue = Most(@, When(ind.value < 85, 1))]
      [] OTHER -> p
WorkerWith(w, ind) ==
    CASE ind.code = "violation" -> [w EXCEPT !.violations = Most(@, ind.value)]
      [] ind.code = "cert"      -> [w EXCEPT !.cert = IF ind.value > 0 THEN "expired" ELSE @]
      [] ind.code = "training"  -> [w EXCEPT !.exam = Least(IF @ = 0 THEN 100 ELSE @, ind.value)]
      [] OTHER -> w
SubWith(s, ind) ==
    IF ind.code # "sub_violation" THEN s
    ELSE [s EXCEPT !.ratio = Least(10000, @ + 500 * ind.value),
                   !.accidents = Most(@, When(ind.value >= 3, 1))]
Applied(c, ind) ==
    [c EXCEPT !.project = ProjectWith(@, ind), !.worker = WorkerWith(@, ind), !.sub = SubWith(@, ind)]

\* run_profile_for_backtest: the calculators of RiskScores; here the weather counts, and
\* of a subcontractor's case the hazards of the project.
Rated(c) ==
    LET p == c.project
        w == c.worker
    IN  CASE ProfileType(c.seen) = "worker" ->
               WorkerProfile([days |-> w.days, failed |-> w.exam < 60, violations |-> w.violations,
                              cert |-> w.cert, health |-> w.health])
          [] ProfileType(c.seen) = "subcontractor" ->
               SubProfile(c.sub, p.overdue, p.major, c.sub.ratio)
          [] OTHER ->
               Raised(FinalScore(ProjectBase(p), Least(150, DynamicFactor(p) + When(p.weather >= 2, 20)),
                                 ProjectBonus(p)),
                      ProjectBonus(p) >= 20)

\* infer_expected_rule_ids: the thresholds of the rule files, written once more.
Expected(c) ==
    LET p == c.project
        w == c.worker
        s == c.sub
    IN  CASE ProfileType(c.seen) = "worker" ->
               {x \in {"SR-WORKER-001"} : w.cert \in {"expired", "missing"}}
               \cup {x \in {"SR-WORKER-005"} : w.violations >= 3}
               \cup {x \in {"SR-WORKER-004"} : w.violations \in 1..2}
               \cup {x \in {"SR-WORKER-002"} : w.health = "expired"}
          [] ProfileType(c.seen) = "subcontractor" ->
               {x \in {"SR-SUB-004"} : p.major > 0}
               \cup {x \in {"SR-SUB-001"} : s.license \in {"expired", "suspended", "missing"}}
               \cup {x \in {"SR-SUB-002"} : s.accidents > 0}
          [] OTHER ->
               {x \in {"SR-PROJ-001"} : p.major > 0} \cup {x \in {"SR-PROJ-004"} : p.equipment > 0}
               \cup {x \in {"SR-PROJ-003"} : p.schedule >= 30}
-----------------------------------------------------------------------------
\* The rule files, as RuleEngine reads them: conditions [field, op, value], all of
\* which must hold.
Rules ==
    [project |->
       {[id |-> "SR-PROJ-001", all |-> {<<"major", ">", 0>>}],
        [id |-> "SR-PROJ-004", all |-> {<<"equipment", ">", 0>>}],
        [id |-> "SR-PROJ-003", all |-> {<<"schedule", ">=", 30>>}]},
     worker |->
       {[id |-> "SR-WORKER-004", all |-> {<<"violations", ">=", 1>>, <<"violations", "<", 3>>}],
        [id |-> "SR-WORKER-005", all |-> {<<"violations", ">=", 3>>}],
        [id |-> "SR-WORKER-001", all |-> {<<"cert", "in", {"expired", "missing"}>>}],
        [id |-> "SR-WORKER-002", all |-> {<<"health", "==", "expired">>}]},
     subcontractor |->
       {[id |-> "SR-SUB-004", all |-> {<<"major", ">", 0>>}],
        [id |-> "SR-SUB-001", all |-> {<<"license", "in", {"expired", "suspended", "missing"}>>}],
        [id |-> "SR-SUB-002", all |-> {<<"accidents", ">", 0>>}]}]

\* RuleEngine._matches: a fact that is missing satisfies no comparison.
Matches(actual, op, value) ==
    CASE op = ">"  -> actual # None /\ actual > value
      [] op = ">=" -> actual # None /\ actual >= value
      [] op = "<"  -> actual # None /\ actual < value
      [] op = "==" -> actual = value
      [] op = "in" -> actual \in value

\* RuleEngine.evaluate
Triggered(type, facts) ==
    {rule.id : rule \in {x \in Rules[type] : \A cond \in x.all : Matches(facts[cond[1]], cond[2], cond[3])}}

Facts(c) ==
    CASE ProfileType(c.seen) = "worker"        -> c.worker
      [] ProfileType(c.seen) = "subcontractor" -> [license |-> c.sub.license, accidents |-> c.sub.accidents,
                                               major |-> c.project.major]
      [] OTHER                                 -> c.project

Rank(level) == CASE level = "low" -> 1 [] level = "medium" -> 2 [] level = "high" -> 3 [] OTHER -> 4

\* evaluate_case_backtest: without an expected rule and a demanded level the tags decide.
RuleHit(c) == Expected(c) \cap Triggered(ProfileType(c.seen), Facts(c)) # {}
Passes(c, demanded, tagHit) ==
    /\ Expected(c) # {} => RuleHit(c)
    /\ demanded # None => Rank(Rated(c).level) >= Rank(demanded)
    /\ Expected(c) = {} /\ demanded = None => tagHit
-----------------------------------------------------------------------------
ReadIndicator(ind) ==
    /\ reading.count < MaxIndicators /\ tally.cases < MaxCases
    /\ reading' = [Applied(reading, ind) EXCEPT !.seen = @ \cup {ind.code}, !.count = @ + 1]
    /\ UNCHANGED tally

EvaluateCase(demanded, tagHit) ==
    /\ tally.cases < MaxCases
    /\ tally' = [cases  |-> tally.cases + 1,
                 passed |-> tally.passed + When(Passes(reading, demanded, tagHit), 1),
                 ruled  |-> tally.ruled + When(Expected(reading) # {}, 1),
                 fired  |-> tally.fired + When(RuleHit(reading), 1)]
    /\ reading' = NoIndicators

BacktestNext ==
    \/ \E ind \in Indicators : ReadIndicator(ind)
    \/ \E demanded \in Severities, tagHit \in BOOLEAN : EvaluateCase(demanded, tagHit)

BacktestSpec == BacktestInit /\ [][BacktestNext]_backtestVars
-----------------------------------------------------------------------------
\* A case that would pass still passes with one more indicator, as long as it makes it
\* no case of another profile type (then facts of the former type are dropped) and the
\* examination score is not 0 (then a better one would replace it).  The rule it passed
\* by may be another one then: the backtest's own thresholds, the rule files and the
\* calculators have to move together.
PassingCaseKeepsPassing ==
    [][tally' = tally /\ ProfileType(reading'.seen) = ProfileType(reading.seen) /\ reading.worker.exam # 0 =>
         \A demanded \in Severities, tagHit \in BOOLEAN :
            Passes(reading, demanded, tagHit) => Passes(reading', demanded, tagHit)]_backtestVars
=============================================================================
