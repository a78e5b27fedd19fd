------------------------------- MODULE Attribution -------------------------------
(***************************************************************************)
(* Accident attribution (domain/bayesian, services/bayesian): the evidence *)
(* of the profiles weighs the risk factors, and these the accident types,  *)
(* by an expert's priors (L2) or by conditional tables learned from the    *)
(* tenant's cases (L3).  The training script rewrites one file, which the  *)
(* service reads for every tenant.  Numbers are in percent, and a          *)
(* probability is a part of a total; the rounding of the answers is left   *)
(* out.                                                                    *)
(***************************************************************************)
EXTENDS Backend, FiniteSetsExt

CONSTANTS
    Clients,                        \* tenants
    Factors, Outcomes,              \* RISK_FACTORS; ACCIDENT_OUTCOMES with "other"
    Parents,                        \* network_structure.yaml: the factors above an outcome
    FactorPrior, OutcomePrior, Likelihood,
    Fields,                         \* profile fields that say something of a factor: [of, factor,
                                    \* share, dimension]; of a kind of profile, share in percent,
                                    \* dimension whether it is one of dimension_scores
    Analyses,                       \* requests: [requested, named, access, profiles]; access to the
                                    \* project, and by kind a profile or None: [level, score]
    RelationshipBoost,              \* by type of edge in the graph: [factor, strength]
    CaseKinds,                      \* cases: [type, words, metrics, subject, seed]; words are
                                    \* factors the text names, subject the profile type the
                                    \* metrics speak of or None, seed a case of the repository
    MetricFactor, SubjectFactor,    \* what metrics and subjects say of factors
    SeedClient,                     \* the tenant of the seed cases
    L2Min, L3Min,                   \* 50 and 200 cases
    MaxLibrary                      \* changes of the libraries (bound)

\* _detect_cycle: dropping nodes nothing left points to drops them all.
Acyclic(nodes, arrows) ==
    \A S \in SUBSET nodes : S # {} => \E n \in S : \A e \in arrows : e[2] = n => e[1] \notin S

ASSUME AttributionAssumption ==
    /\ {L2Min, L3Min, MaxLibrary} \subseteq Nat /\ L2Min <= L3Min /\ "other" \in Outcomes
    /\ SeedClient \in Clients /\ None \notin Outcomes
    /\ IsFiniteSet(Factors) /\ IsFiniteSet(Outcomes) /\ IsFiniteSet(CaseKinds)
    /\ FactorPrior \in [Factors -> Nat] /\ \A o \in Outcomes : OutcomePrior[o] \in Nat
    /\ \A f \in Factors, o \in Outcomes : Likelihood[f][o] \in Nat
    /\ \A x \in Fields : x.share \in Nat
    /\ \A a \in Analyses, x \in Fields :
          a.profiles[x.of] # None => a.profiles[x.of].score[x] \in Nat \cup {None}
    /\ \A o \in Outcomes : Parents[o] \subseteq Factors \cup Outcomes
    /\ Acyclic(Factors \cup Outcomes, UNION {Parents[o] \X {o} : o \in Outcomes})

VARIABLES
    library,                        \* active cases: by tenant and kind, how many
    cptFile,                        \* cpt_learned.json: None, or its text: [whole, tables]
    job3,                           \* the local state of each training or analysis
    added                           \* cases added and removed so far

attributionVars == <<library, cptFile, job3, added>>

Idle3 == [at |-> "free"]
AttributionInit ==
    /\ library = [t \in Clients |-> [k \in CaseKinds |-> 0]]
    /\ cptFile = None
    /\ job3 = [r \in Requests |-> Idle3]
    /\ added = 0
-----------------------------------------------------------------------------
AtMost(a, b) == IF a < b THEN a ELSE b

Boost(level) == CASE level = "critical" -> 22 [] level = "high" -> 15 [] level = "medium" -> 8 [] OTHER -> 0

\* extract_*_signals and _merge_signal: no profile, no signal; a dimension without a score
\* counts as 0, and then the risk level alone is the evidence; another field without a
\* value says nothing.
Signal(profile, field) ==
    IF profile = None THEN 0
    ELSE LET score == profile.score[field]
         IN  IF score = None /\ ~ field.dimension THEN 0
             ELSE AtMost(100, (AtMost(100, IF score = None THEN 0 ELSE score) * field.share) \div 100
                              + Boost(profile.level))
\* merge_profile_signals: the strongest signal of all profiles.
Evidence(profiles) ==
    [f \in Factors |->
        Max({0} \cup {Signal(profiles[field.of], field) : field \in {x \in Fields : x.factor = f}})]

\* graph_evidence.py: a neighbour counts by the type of its edge (every type is in the
\* table, so hazard and node types are never asked); more of a kind count once.
Hint(edgeType) == RelationshipBoost[edgeType]
GraphBoosts(edgeTypes) ==
    [f \in Factors |-> Max({0} \cup {AtMost(15, Hint(t).strength) : t \in {x \in edgeTypes : Hint(x).factor = f}})]
WithGraph(evidence, boosts) == [f \in Factors |-> AtMost(100, evidence[f] + boosts[f])]

OrOne(sum) == IF sum = 0 THEN 1 ELSE sum

\* Probabilities as the code divides them: parts of the sum of all parts.
Shares(parts) == [parts |-> parts, of |-> OrOne(SumFunction(parts))]

\* L2, _factor_weights: prior and evidence in percent of all factors.
Weights(e) ==
    LET w == [f \in Factors |-> FactorPrior[f] * (3500 + 65 * e[f])]
    IN  [f \in Factors |-> (100 * w[f]) \div OrOne(SumFunction(w))]

\* L2, _accident_probabilities: the type named in the request is raised by 1.35, which is
\* 27 to 20, and all are divided by the new total.
Score(w, o) == 100 * OutcomePrior[o] + SumFunction([f \in Factors |-> w[f] * Likelihood[f][o]])
L2Scores(e, named) ==
    LET w == Weights(e)
    IN  Shares([o \in Outcomes \ {"other"} |-> Score(w, o) * (IF o = named THEN 27 ELSE 20)])
-----------------------------------------------------------------------------
\* label_accident_case_row: the accident type, and the factors that the text, the
\* metrics and, once any metric is understood, its subject name.
OutcomeOf(k) == IF k.type = None \/ k.type \in Outcomes THEN k.type ELSE "other"
Labels(k) ==
    Factors \cap (k.words \cup {MetricFactor[m] : m \in k.metrics \cap DOMAIN MetricFactor}
                           \cup {SubjectFactor[u] : u \in {k.subject} \ {None}})

\* Training: Laplace's estimate, rounded.
Laplace(count, of) == (200 * (count + 1) + of + 2) \div (2 * (of + 2))

Number(lib, kinds) == SumFunctionOnSet(lib, kinds)
ActiveParents(factors, o) == Cardinality(factors \cap Parents[o])

\* learn_cpt_from_training_rows: a bucket of active parents no case falls in is left out.
Learned(lib) ==
    [factors |-> [f \in Factors |-> Laplace(Number(lib, {k \in CaseKinds : f \in Labels(k)}),
                                            Number(lib, CaseKinds))],
     outcomes |-> [o \in Outcomes |->
        [marginal |-> Laplace(Number(lib, {k \in CaseKinds : OutcomeOf(k) = o}), Number(lib, CaseKinds)),
         bucket |-> [n \in {ActiveParents(Labels(k), o) : k \in {x \in CaseKinds : lib[x] > 0}} |->
            LET fallen == {k \in CaseKinds : ActiveParents(Labels(k), o) = n}
            IN  Laplace(Number(lib, {k \in fallen : OutcomeOf(k) = o}), Number(lib, fallen))]]]]

\* L3: a factor counts as active from 25 percent on (_evidence_to_factor_labels).
ActiveFactors(e) == {f \in Factors : e[f] >= 25}

\* outcome_likelihood_for_labels
Likely(cpt, e, o) ==
    LET n == ActiveParents(ActiveFactors(e), o)
    IN  IF Parents[o] # {} /\ n \in DOMAIN cpt.outcomes[o].bucket
        THEN cpt.outcomes[o].bucket[n] ELSE cpt.outcomes[o].marginal

\* predict_outcome_distribution, before its division.
Distribution(cpt, e) == [o \in Outcomes |-> Likely(cpt, e, o)]

\* L3, _accident_probabilities: the type named is raised as in L2, but to no more than 95
\* percent, and all are divided by the new total.  The list served leaves out "other".
L3Scores(cpt, e, named) ==
    LET d == Distribution(cpt, e)
    IN  Shares([o \in Outcomes |->
                  IF o = named THEN AtMost(19 * SumFunction(d), 27 * d[o]) ELSE 20 * d[o]])
-----------------------------------------------------------------------------
\* A case is imported, or leaves the library.
ChangeLibrary ==
    /\ added < MaxLibrary /\ added' = added + 1
    /\ \E t \in Clients, k \in CaseKinds, n \in {1, -1} :
         /\ library[t][k] + n >= 0
         /\ k.seed => t = SeedClient /\ library[t][k] + n <= 1
         /\ library' = [library EXCEPT ![t][k] = @ + n]
    /\ UNCHANGED <<cptFile, job3>>

CaseCount(t) == Number(library[t], CaseKinds)

\* seed_accident_cases: every seed case is active again.
SeedRows == [k \in CaseKinds |-> IF k.seed THEN 1 ELSE 0]
Reseeded == [library EXCEPT ![SeedClient] = [k \in CaseKinds |-> IF k.seed THEN 1 ELSE @[k]]]

\* train_bayesian_l3.py for one tenant: behind the gate, with --skip-gate, or from the
\* seeds of the repository.  The gate is asked before the seeds are written.
BeginTrain(r, t, source) ==
    LET rows == IF source = "seeds" THEN SeedRows ELSE Reseeded[t]
    IN  /\ job3[r] = Idle3
        /\ source = "gated" => CaseCount(t) >= L3Min
        /\ library' = IF source = "seeds" THEN library ELSE Reseeded
        /\ job3' = IF Number(rows, CaseKinds) = 0 THEN job3
                   ELSE [job3 EXCEPT ![r] = [at |-> "open", tables |-> Learned(rows)]]
        /\ UNCHANGED <<cptFile, added>>

\* write_text opens the file, which empties it, and then writes.
OpenFile(r) ==
    /\ job3[r].at = "open"
    /\ cptFile' = [whole |-> FALSE] /\ job3' = [job3 EXCEPT ![r].at = "write"]
    /\ UNCHANGED <<library, added>>
WriteFile(r) ==
    /\ job3[r].at = "write"
    /\ cptFile' = [whole |-> TRUE, tables |-> job3[r].tables] /\ job3' = [job3 EXCEPT ![r] = Idle3]
    /\ UNCHANGED <<library, added>>

ModelLevelMutCount(requested, count, available) ==   \* the count is left to the gate
    IF requested = "auto" THEN IF available THEN "L3" ELSE "L2" ELSE requested

\* resolve_model_level
ModelLevel(requested, count, available) ==
    IF requested # "auto" THEN requested
    ELSE IF count >= L3Min /\ available THEN "L3" ELSE "L2"

Answer2(ask) ==
    [ask EXCEPT !.scores = L2Scores(ask.evidence, ask.named), !.plain = L2Scores(ask.evidence, None)]
Answer3(ask, cpt, e) ==
    [ask EXCEPT !.evidence = e, !.scores = L3Scores(cpt, e, ask.named), !.plain = L3Scores(cpt, e, None)]

Settled(r, ask, outcome) == job3' = [job3 EXCEPT ![r] = [ask EXCEPT !.at = outcome]]

\* analyze_attribution: the access to the project, then the library is counted, the file
\* looked for, the gates applied, and the profiles loaded, of which the project's must be
\* there.
BeginAnalyze(r, t, a) ==
    LET count == CaseCount(t)
        level == ModelLevel(a.requested, count, cptFile # None)
        ask == [at |-> "read", requested |-> a.requested, count |-> count, level |-> level,
                evidence |-> Evidence(a.profiles), named |-> a.named, scores |-> None, plain |-> None]
    IN  /\ job3[r] = Idle3
        /\ IF ~ a.access THEN Settled(r, ask, "forbidden")
           ELSE IF IF level = "L3" THEN count < L3Min \/ cptFile = None ELSE count < L2Min
           THEN Settled(r, ask, "refused")
           ELSE IF a.profiles["project"] = None THEN Settled(r, ask, "missing")
           ELSE IF level = "L3" THEN Settled(r, ask, "read")
           ELSE Settled(r, Answer2(ask), "served")
        /\ UNCHANGED <<library, cptFile, added>>

\* The neighbours are fetched, the file is read and the tables are applied; a file half
\* written is not JSON.
ReadTables(r, edgeTypes) ==
    LET ask == job3[r]
    IN  /\ ask.at = "read"
        /\ IF ~ cptFile.whole
           THEN Settled(r, ask, "failed")
           ELSE Settled(r, Answer3(ask, cptFile.tables, WithGraph(ask.evidence, GraphBoosts(edgeTypes))),
                        "served")
        /\ UNCHANGED <<library, cptFile, added>>

\* The answer is returned, or the request or script stopped: a file emptied and not yet
\* written stays torn.
LoseJob3(r) ==
    /\ job3[r] # Idle3
    /\ job3' = [job3 EXCEPT ![r] = Idle3]
    /\ UNCHANGED <<library, cptFile, added>>

AttributionNext ==
    \/ ChangeLibrary
    \/ \E r \in Requests :
         \/ \E t \in Clients, source \in {"gated", "ungated", "seeds"} : BeginTrain(r, t, source)
         \/ OpenFile(r) \/ WriteFile(r) \/ LoseJob3(r)
         \/ \E t \in Clients, a \in Analyses : BeginAnalyze(r, t, a)
         \/ \E edgeTypes \in SUBSET DOMAIN RelationshipBoost : ReadTables(r, edgeTypes)

AttributionSpec == AttributionInit /\ [][AttributionNext]_attributionVars
-----------------------------------------------------------------------------
AtLeast(a, b, o) == a.parts[o] * b.of >= b.parts[o] * a.of      \* as fractions

\* The type named stood above 95 percent before it was raised.
CutDown(answer) ==
    /\ answer.level = "L3" /\ answer.named \in Outcomes
    /\ 20 * answer.plain.parts[answer.named] > 19 * answer.plain.of

\* Nobody who leaves the choice of the model to the service is refused for want of cases
\* once L2 has the cases it needs, whatever is trained, deleted or read meanwhile.  And to
\* name an accident type never lowers its probability in what is served, nor raises that
\* of another, though the cap and the division come after the raise; unless it stood
\* above 95 percent already.
AutoServed ==
    \A r \in Requests : LET answer == job3[r] IN
        /\ answer.at = "refused" => answer.requested # "auto" \/ answer.count < L2Min
        /\ answer.at = "served" /\ ~ CutDown(answer) =>
             \A o \in DOMAIN answer.scores.parts :
                IF o = answer.named THEN AtLeast(answer.scores, answer.plain, o)
                ELSE AtLeast(answer.plain, answer.scores, o)
=============================================================================
