------------------------------- MODULE RiskScores -------------------------------
(***************************************************************************)
(* The three risk calculators as pure operators: weights, dynamic factors, *)
(* strong rules, final score and level.  Scores are in hundredths of a     *)
(* point, coefficients and factors in hundredths, ratios in ten-thousandths*)
(* (the precisions the code rounds to; a tie is rounded up).               *)
(***************************************************************************)
EXTENDS Integers

Least(x, y) == IF x <= y THEN x ELSE y
Most(x, y) == IF x >= y THEN x ELSE y
When(condition, n) == IF condition THEN n ELSE 0

\* level_for_score
LevelFor(score) == IF score <= 3000 THEN "low"
                   ELSE IF score <= 6000 THEN "medium"
                   ELSE IF score <= 8000 THEN "high" ELSE "critical"

\* calculate_final_score
FinalScore(base, factor, bonus) ==
    Least(10000, Most(0, (base * factor + 50) \div 100 + 100 * bonus))

RaisedMutLevelOnly(score, must) ==    \* the level is raised, the score is not
    [score |-> score,
     level |-> IF must /\ LevelFor(score) \in {"low", "medium"} THEN "high" ELSE LevelFor(score)]

\* A score with its level, raised to high at least when a grave finding demands it.
Raised(score, must) ==
    IF must /\ LevelFor(score) \in {"low", "medium"}
    THEN [score |-> Most(score, 6100), level |-> "high"]
    ELSE [score |-> score, level |-> LevelFor(score)]
-----------------------------------------------------------------------------
(* Projects.  Facts: [type, overdue, major, equipment, schedule, night, cross] *)

\* project_type_matrix.yaml: hazards, equipment, schedule
Coefficients(type) ==
    CASE type \in {"housing", "mep"} -> <<115, 110, 100>>
      [] type = "municipal"          -> <<100, 95, 100>>
      [] type = "infrastructure"     -> <<110, 115, 110>>
      [] OTHER                       -> <<100, 100, 100>>

\* weighted_project_base_score
ProjectBase(f) ==
    LET c == Coefficients(f.type)
    IN  Least(6000, f.overdue * 8 * c[1] + f.equipment * 10 * c[2] + f.schedule * c[3])

\* evaluate_dynamic_factors with dynamic_factors.yaml; the service never passes
\* a weather alert, so the weather group adds nothing.
DynamicFactor(f) ==
    Least(150, 100 + When(f.schedule > 20, 15) + When(f.night >= 3, 8)
                   + When(f.cross >= 2, 10) + When(f.major > 0, 20))

\* project_rules.yaml: SR-PROJ-001, 004, 003
ProjectBonus(f) ==
    When(f.major > 0, 20) + When(f.equipment > 0, 25) + When(f.schedule >= 30, 10)

\* calculate_project_profile
ProjectProfile(f) ==
    Raised(FinalScore(ProjectBase(f), DynamicFactor(f), ProjectBonus(f)),
           ProjectBonus(f) >= 20)
-----------------------------------------------------------------------------
(* Workers.  Facts: [days, failed, violations, cert, health]; failed is an  *)
(* examination score below 60.                                              *)

WorkerBase(f) ==
    When(f.failed, 2000)
    + (IF f.violations >= 3 THEN 2000 ELSE When(f.violations >= 1, 1200))

\* worker_rules.yaml: SR-WORKER-004, 005, 001, 002
WorkerBonus(f) ==
    When(f.violations >= 1 /\ f.violations < 3, 10) + When(f.violations >= 3, 15)
    + When(f.cert \in {"expired", "missing"}, 25) + When(f.health = "expired", 15)

\* calculate_worker_profile; the first week is an observation period.
WorkerProfile(f) ==
    IF f.days < 7 THEN [score |-> 0, level |-> "low"]
    ELSE Raised(FinalScore(WorkerBase(f), 100, WorkerBonus(f)),
                f.cert = "expired" \/ f.violations >= 3)
-----------------------------------------------------------------------------
(* Subcontractors.  Facts: [license, accidents]; overdue and major are the  *)
(* counts of hazards, ratio the share of high-risk workers.                 *)

\* round(high / workers, 4)
Ratio(high, workers) ==
    IF workers = 0 THEN 0 ELSE (20000 * high + workers) \div (2 * workers)

SubBase(overdue, ratio) == Least(6000, overdue * 600 + (ratio * 4 + 5) \div 10)

\* subcontractor_rules.yaml: SR-SUB-004, 001, 002
SubBonus(f, major) ==
    When(major > 0, 20) + When(f.license \in {"expired", "suspended", "missing"}, 30)
    + When(f.accidents > 0, 15)

\* calculate_subcontractor_profile
SubProfile(f, overdue, major, ratio) ==
    Raised(FinalScore(SubBase(overdue, ratio), 100, SubBonus(f, major)),
           SubBonus(f, major) >= 20)
=============================================================================
