-------------------------------- MODULE MCServices --------------------------------
(***************************************************************************)
(* Nine services that share no state but what the modules say.  A          *)
(* behaviour runs one of them, so their state spaces add up instead of     *)
(* multiplying.                                                            *)
(***************************************************************************)
EXTENDS AgentDagProperties, SessionMemory, Nl2sqlDialogue, PromptRegistry,
        CaseLibrary, GraphSync, AuthSessions, Attribution, CaseBacktest, TLC

CONSTANTS p1, p2, c1, c2, k1, k2, t1, t2

VARIABLE service

serviceVars == <<dagVars, memoryVars, dialogueVars, promptVars, caseVars, graphVars, authVars,
                 attributionVars, backtestVars>>

ServicesInit ==
    /\ service \in {"ask", "memory", "nl2sql", "prompts", "cases", "graph", "auth",
                    "attribution", "backtest"}
    /\ DagInit /\ MemoryInit /\ DialogueInit /\ PromptInit /\ CaseInit /\ GraphInit /\ AuthInit
    /\ AttributionInit /\ BacktestInit

ServicesNext ==
    /\ UNCHANGED service
    /\ \/ /\ service = "ask" /\ DagNext
          /\ UNCHANGED <<memoryVars, dialogueVars, promptVars, caseVars, graphVars,
                         authVars, attributionVars, backtestVars>>
       \/ /\ service = "memory" /\ MemoryNext
          /\ UNCHANGED <<dagVars, dialogueVars, promptVars, caseVars, graphVars,
                         authVars, attributionVars, backtestVars>>
       \/ /\ service = "nl2sql" /\ DialogueNext
          /\ UNCHANGED <<dagVars, memoryVars, promptVars, caseVars, graphVars,
                         authVars, attributionVars, backtestVars>>
       \/ /\ service = "prompts" /\ PromptNext
          /\ UNCHANGED <<dagVars, memoryVars, dialogueVars, caseVars, graphVars,
                         authVars, attributionVars, backtestVars>>
       \/ /\ service = "cases" /\ CaseNext
          /\ UNCHANGED <<dagVars, memoryVars, dialogueVars, promptVars, graphVars,
                         authVars, attributionVars, backtestVars>>
       \/ /\ service = "graph" /\ GraphNext
          /\ UNCHANGED <<dagVars, memoryVars, dialogueVars, promptVars, caseVars,
                         authVars, attributionVars, backtestVars>>
       \/ /\ service = "auth" /\ AuthNext
          /\ UNCHANGED <<dagVars, memoryVars, dialogueVars, promptVars, caseVars,
                         graphVars, attributionVars, backtestVars>>
       \/ /\ service = "attribution" /\ AttributionNext
          /\ UNCHANGED <<dagVars, memoryVars, dialogueVars, promptVars, caseVars,
                         graphVars, authVars, backtestVars>>
       \/ /\ service = "backtest" /\ BacktestNext
          /\ UNCHANGED <<dagVars, memoryVars, dialogueVars, promptVars, caseVars,
                         graphVars, authVars, attributionVars>>

ServicesSpec == ServicesInit /\ [][ServicesNext]_<<service, serviceVars>>
-----------------------------------------------------------------------------
MCUsers == { [scoped |-> TRUE, projects |-> {p1}], [scoped |-> FALSE, projects |-> {}] }

\* A branch below the head office; a company-wide user and an officer of p1.
HeadOffice == <<"hq">>
Branch1 == <<"hq", "east">>
MCCallers ==
    { AccountUser([company |-> c1, path |-> HeadOffice, scope |-> "company", projects |-> {}]),
      AccountUser([company |-> c1, path |-> Branch1, scope |-> "project", projects |-> {p1}]) }
MCRows == [company : {c1, c2}, project : {p1, p2, None}, path : {HeadOffice, Branch1}]

Ref(table, alias) == [table |-> table, alias |-> alias]
Column(of, field) == [of |-> of, field |-> field]
Is(of, field, values) == [of |-> of, field |-> field, values |-> values]
Select(from, columns, terms, any) ==
    [single |-> TRUE, select |-> TRUE, star |-> FALSE, from |-> from, columns |-> columns,
     terms |-> terms, any |-> any, nested |-> <<>>, nestedTerms |-> {}]
Nesting(statement, nested, terms) ==
    [statement EXCEPT !.nested = nested, !.nestedTerms = terms]

\* A join with an OR, a table without a project that has company-wide rows, a statement
\* that only one of the two callers may run, and SELECTs nested in another: one of the
\* same alias, one of an alias that the outer WHERE does not know.
MCCandidates ==
    { Select(<<Ref("hazard", "h"), Ref("subcontractor", "s")>>, {Column("h", "plain"), Column("s", "plain")},
             {Is("h", "project_id", {p1}), Is("s", "company_id", {c1})}, TRUE),
      Select(<<Ref("metric_catalog", "metric_catalog")>>, {Column(None, "plain")}, {}, FALSE),
      Select(<<Ref("hazard", "hazard")>>, {Column(None, "plain")}, {Is(None, "project_id", {p2})}, FALSE),
      Nesting(Select(<<Ref("subcontractor", "x")>>, {Column("x", "plain")}, {}, FALSE),
              <<Ref("hazard", "x")>>, {Is("x", "project_id", {p1})}),
      Nesting(Select(<<Ref("hazard", "h")>>, {Column("h", "plain")}, {}, FALSE),
              <<Ref("hazard", "g")>>, {}) }

\* A new case and its next text, the same case under another tenant and without a text,
\* one case named twice, and two cases of two tenants.
Row1(case, tenant, text) == [case |-> case, tenant |-> tenant, text |-> text]
MCBatches ==
    { <<Row1(k1, t1, "a")>>, <<Row1(k1, t2, None)>>, <<Row1(k1, t1, "b"), Row1(k2, t1, "a")>>,
      <<Row1(k2, t1, "a"), Row1(k2, t1, "b")>>, <<Row1(k1, t2, "a"), Row1(k2, t1, "b")>> }

MCDefaultPermissions == [admin |-> {"read", "write"}, officer |-> {"read"}]
MCSeedHolds(u) == "admin"

\* Three factors, two accident types and "other"; priors and likelihoods in tenths, so that
\* the products that compare fractions stay below 2^31.
MCParents == [fall |-> {"rectification", "violation"}, fire |-> {"violation"}, other |-> {}]
MCFactorPrior == [rectification |-> 6, oversight |-> 5, violation |-> 8]
MCOutcomePrior == [fall |-> 3, fire |-> 1, other |-> 1]
MCLikelihood == [rectification |-> [fall |-> 7, fire |-> 1, other |-> 1],
                 oversight |-> [fall |-> 2, fire |-> 1, other |-> 1],
                 violation |-> [fall |-> 1, fire |-> 1, other |-> 1]]
\* Dimension scores, total_risk_score, and a ratio.
Field(of, factor, share, dimension) ==
    [of |-> of, factor |-> factor, share |-> share, dimension |-> dimension]
MCFields == { Field("project", "rectification", 100, TRUE), Field("project", "oversight", 60, FALSE),
              Field("worker", "violation", 100, TRUE), Field("subcontractor", "rectification", 100, FALSE) }
RatedBy(level, value) == [level |-> level, score |-> [x \in MCFields |-> value]]
Ask(requested, named, access, project, worker, subcontractor) ==
    [requested |-> requested, named |-> named, access |-> access,
     profiles |-> [project |-> project, worker |-> worker, subcontractor |-> subcontractor]]
MCAnalyses ==
    { Ask("auto", None, TRUE, RatedBy("high", None), RatedBy("low", 20), None),
      Ask("auto", "fall", TRUE, RatedBy("low", 90), None, RatedBy("medium", 30)),
      Ask("L2", "fire", TRUE, RatedBy("low", 20), RatedBy("critical", 95), RatedBy("high", None)),
      Ask("L3", "fire", TRUE, None, RatedBy("high", 50), None),
      Ask("auto", "other", FALSE, RatedBy("low", 20), None, None) }
MCRelationshipBoost == [HAS_HAZARD |-> [factor |-> "rectification", strength |-> 12],
                        WORKS_ON |-> [factor |-> "violation", strength |-> 8]]
\* A case known by its text and a seed known by its metric.
MCCaseKinds ==
    { [type |-> "fall", words |-> {"rectification"}, metrics |-> {}, subject |-> None, seed |-> FALSE],
      [type |-> "fire", words |-> {}, metrics |-> {"WORKER_VIOLATION_30D"}, subject |-> "worker", seed |-> TRUE] }
MCMetricFactor == [WORKER_VIOLATION_30D |-> "violation", HAZARD_OVERDUE_COUNT |-> "rectification"]
MCSubjectFactor == [project |-> "rectification", worker |-> "violation"]

Warning(code, value) == [code |-> code, value |-> value]
MCIndicators ==
    { Warning("overdue", 1), Warning("overdue", 4), Warning("major", 0), Warning("equipment", 2),
      Warning("cross", 2), Warning("weather", 2), Warning("night", 3), Warning("ppe", 80),
      Warning("violation", 1), Warning("violation", 3), Warning("cert", 1),
      Warning("training", 50), Warning("training", 0), Warning("sub_violation", 3) }

Symmetric ==
    Permutations(Requests) \cup Permutations(Agents)
=============================================================================
