------------------------------- MODULE ProfileFlow -------------------------------
(***************************************************************************)
(* Risk profiles of one calendar day: the profile rows in MySQL, the Redis *)
(* cache in front of them, requests that read a profile and requests that  *)
(* recalculate profiles in up to three transactions.  Every transaction    *)
(* works on the snapshot its first query opened; rows carry no version, and*)
(* the unique indexes leave out rows whose project is NULL.                *)
(***************************************************************************)
EXTENDS RiskScores, Sequences, FiniteSets, Functions

CONSTANTS
    Projects, Workers, Subs,
    SubOf,      \* the subcontractor of each worker, or None
    ProjectOf,  \* the project of each worker, or None
    SubsIn,     \* the subcontractors with a worker or a hazard in each project
    Earlier,    \* keys that already have a row from an earlier day
    Scopes,     \* what a reader may see: sets of projects, with None for NULL
    FactsOf,    \* the facts each subject may show
    Wanted,     \* the sets of profile types a recalculation may ask for
    Filters,    \* the projects it may name, None for all of them
    Requests,
    Popular,    \* bound: the subjects whose profile is read
    MaxChanges, \* bound on changes of facts
    None        \* SQL NULL

Subjects == Projects \cup Workers \cup Subs
\* subject and project_id of a row; a subcontractor has rows for a project and
\* rows over all of them.
Keys == {<<p, p>> : p \in Projects} \cup {<<w, ProjectOf[w]>> : w \in Workers}
        \cup (Subs \X (Projects \cup {None}))

\* A profile row, as far as the model keeps it.
Row == [score : Int, level : {"low", "medium", "high", "critical"}]

ASSUME ProfileAssumption ==
    /\ Projects \cap Workers = {} /\ Projects \cap Subs = {} /\ Workers \cap Subs = {}
    /\ None \notin Subjects \cup Row
    /\ SubOf \in [Workers -> Subs \cup {None}]
    /\ ProjectOf \in [Workers -> Projects \cup {None}]
    /\ SubsIn \in [Projects -> SUBSET Subs]
    /\ Earlier \subseteq Keys /\ Popular \subseteq Subjects
    /\ Scopes \subseteq SUBSET (Projects \cup {None})
    /\ Filters \subseteq Projects \cup {None}
    /\ Wanted \subseteq SUBSET {"project", "worker", "subcontractor"}

\* The counts and the index that the calculators compute with.
ProjectFact(f) == f.overdue \in Nat /\ f.equipment \in Nat /\ f.schedule \in Int
SubFact(f) == f.overdue \in [Projects -> Nat] /\ f.major \in [Projects -> Nat]

ASSUME FactsAssumption ==
    /\ IsFiniteSet(Projects) /\ IsFiniteSet(Workers)
    /\ \A p \in Projects : \A f \in FactsOf[p] : ProjectFact(f)
    /\ \A s \in Subs : \A f \in FactsOf[s] : SubFact(f)

VARIABLES
    facts,    \* what the source tables say of each subject
    changes,  \* how often they changed
    rows,     \* today's profile rows of each key, in insertion order
    cache,    \* cache:profile:{type}:{id}
    sessions, \* the requests being served
    past,     \* history: every answer the tables ever gave about a subject
    raced     \* history: subjects recalculated while another request used them

profileVars == <<facts, changes, rows, cache, sessions, past, raced>>

\* An answer is a row or one of these.
NotFound == [level |-> "__empty__"]  \* EMPTY_CACHE_MARKER, and the 404 it stands for
OldRow == [level |-> "earlier day"]  \* the profile of an earlier day
Missing == [level |-> "missing"]     \* no such key in Redis
Idle == [op |-> "none"]
-----------------------------------------------------------------------------
(* Reading *)

\* _load_*_profile: the rows of the latest day that the scope shows.  Ties of
\* calc_date are in no order.
Visible(table, s, scope) ==
    LET shown == {k \in Keys : k[1] = s /\ k[2] \in scope}
        today == UNION {Range(table[k]) : k \in shown}
    IN  IF today # {} THEN today
        ELSE IF shown \cap Earlier # {} THEN {OldRow} ELSE {NotFound}

Answers(table, s) == UNION {Visible(table, s, scope) : scope \in Scopes}

\* The subjects whose rows and cache entries request r is working with.
Uses(r) == IF sessions[r].op = "read" THEN {sessions[r].subject}
           ELSE IF sessions[r].op = "recalculate" THEN {k[1] : k \in DOMAIN sessions[r].writes}
           ELSE {}

Recalculating(r) == sessions[r].op = "recalculate"

\* The permission dependency queries first, so the snapshot is as old as the
\* request.
BeginRead(r, s, scope) ==
    /\ sessions[r] = Idle
    /\ sessions' = [sessions EXCEPT ![r] =
           [op |-> "read", subject |-> s, at |-> "lookup", sees |-> Visible(rows, s, scope)]]
    /\ raced' = raced \cup {x \in {s} : \E q \in Requests : Recalculating(q) /\ x \in Uses(q)}
    /\ UNCHANGED <<facts, changes, rows, cache, past>>

\* read_profile_cache: GET; a hit answers the request.
Lookup(r) ==
    /\ sessions[r].op = "read" /\ sessions[r].at = "lookup"
    /\ sessions' = [sessions EXCEPT ![r] =
           IF cache[sessions[r].subject] # Missing THEN Idle ELSE [@ EXCEPT !.at = "fill"]]
    /\ UNCHANGED <<facts, changes, rows, cache, past, raced>>

\* read_profile_cache: SETEX what the loader found, or the empty marker.
Fill(r) ==
    /\ sessions[r].op = "read" /\ sessions[r].at = "fill"
    /\ \E answer \in sessions[r].sees :
           cache' = [cache EXCEPT ![sessions[r].subject] = answer]
    /\ sessions' = [sessions EXCEPT ![r] = Idle]
    /\ UNCHANGED <<facts, changes, rows, past, raced>>

ExpireMutKeepEmpty(s) ==              \* the empty marker has no time to live
    /\ cache[s] \notin {Missing, NotFound}
    /\ cache' = [cache EXCEPT ![s] = Missing]
    /\ UNCHANGED <<facts, changes, rows, sessions, past, raced>>

\* The time to live of a cache entry ends.
Expire(s) ==
    /\ cache[s] # Missing
    /\ cache' = [cache EXCEPT ![s] = Missing]
    /\ UNCHANGED <<facts, changes, rows, sessions, past, raced>>
-----------------------------------------------------------------------------
(* Recalculating *)

SubjectsFor(kind, filter) ==
    [project |-> IF filter = None THEN Projects ELSE {filter},
     worker |-> {w \in Workers : filter = None \/ ProjectOf[w] = filter},
     subcontractor |-> IF filter = None THEN Subs ELSE SubsIn[filter]][kind]

KeyOf(s, filter) == IF s \in Projects THEN <<s, s>>
                    ELSE IF s \in Workers THEN <<s, ProjectOf[s]>> ELSE <<s, filter>>

\* _high_risk_worker_count counts today's rows, not workers.
HighRiskRows(table, ws) ==
    LET HighRows(k) == {i \in DOMAIN table[k] : table[k][i].level \in {"high", "critical"}}
    IN  Cardinality(UNION {{k} \X HighRows(k) : k \in {key \in Keys : key[1] \in ws}})

\* The hazards of a subcontractor in some projects, numbered within each.
HazardCount(counts, projects) == Cardinality(UNION {{p} \X (1..counts[p]) : p \in projects})

\* The profile computed for s from a snapshot of the tables.
NewProfile(s, filter) ==
    LET f == facts[s]
        crew == {w \in Workers : SubOf[w] = s /\ (filter = None \/ ProjectOf[w] = filter)}
        projects == IF filter = None THEN Projects ELSE {filter}
    IN  CASE s \in Projects -> ProjectProfile(f)
          [] s \in Workers -> WorkerProfile(f)
          [] s \in Subs -> SubProfile(f, HazardCount(f.overdue, projects),
                                      HazardCount(f.major, projects),
                                      Ratio(HighRiskRows(rows, crew), Cardinality(crew)))

\* recalculate_profiles: the types in a fixed order, each in its transaction.
Before == [project |-> {}, worker |-> {"project"}, subcontractor |-> {"project", "worker"}]

\* at "loop" or "between" two types; writes: what the loop computes for each
\* key; drop: the subjects it has still to invalidate.
Recalculation(at, filter, todo, writes, drop) ==
    [op |-> "recalculate", at |-> at, filter |-> filter, todo |-> todo,
     writes |-> writes, drop |-> drop]

\* The first query of a type opens the snapshot that fixes what its loop will
\* compute.  `was` is the row to update, or None when there is none.
StartType(r, kind, todo, filter) ==
    LET subjects == SubjectsFor(kind, filter)
        writes == [k \in {KeyOf(s, filter) : s \in subjects} |->
                      [was |-> IF rows[k] = <<>> THEN None ELSE rows[k][1],
                       new |-> NewProfile(k[1], filter)]]
    IN  /\ kind \in todo /\ Before[kind] \cap todo = {}
        /\ sessions' = [sessions EXCEPT ![r] =
               Recalculation("loop", filter, todo \ {kind}, writes, subjects)]
        /\ raced' = raced \cup (subjects \cap UNION {Uses(q) : q \in Requests \ {r}})
        /\ UNCHANGED <<facts, changes, rows, cache, past>>

\* The permission dependency has opened the snapshot of the first type.
BeginRecalculation(r, kinds, filter) ==
    /\ sessions[r] = Idle
    /\ \E kind \in kinds : StartType(r, kind, kinds, filter)

NextType(r) ==
    /\ Recalculating(r) /\ sessions[r].at = "between"
    /\ \E kind \in sessions[r].todo :
           StartType(r, kind, sessions[r].todo, sessions[r].filter)

InvalidateMutForget(r, s) ==          \* deletes a key of another type
    /\ Recalculating(r) /\ s \in sessions[r].drop
    /\ sessions' = [sessions EXCEPT ![r] =
           Recalculation("loop", @.filter, @.todo, @.writes, @.drop \ {s})]
    /\ UNCHANGED <<facts, changes, rows, cache, past, raced>>

InvalidateMutFill(r, s) ==            \* puts the new profile there at once
    /\ Recalculating(r) /\ s \in sessions[r].drop
    /\ cache' = [cache EXCEPT ![s] = sessions[r].writes[KeyOf(s, sessions[r].filter)].new]
    /\ sessions' = [sessions EXCEPT ![r] =
           Recalculation("loop", @.filter, @.todo, @.writes, @.drop \ {s})]
    /\ UNCHANGED <<facts, changes, rows, past, raced>>

\* invalidate_profile_cache inside the loop: DELETE, before the COMMIT.
Invalidate(r, s) ==
    /\ Recalculating(r) /\ s \in sessions[r].drop
    /\ cache' = [cache EXCEPT ![s] = Missing]
    /\ sessions' = [sessions EXCEPT ![r] =
           Recalculation("loop", @.filter, @.todo, @.writes, @.drop \ {s})]
    /\ UNCHANGED <<facts, changes, rows, past, raced>>

\* The session inserts a row it did not find; of a row it found it updates the
\* columns whose value it changed.
Written(table, write) ==
    LET Column(now, was, new) == IF new = was THEN now ELSE new
    IN  IF write.was = None THEN Append(table, write.new)
        ELSE [table EXCEPT ![1] =
                 [score |-> Column(@.score, write.was.score, write.new.score),
                  level |-> Column(@.level, write.was.level, write.new.level)]]

InsertableMutNoIndex(writes) == TRUE

\* idx_project_date, idx_worker_project_date, idx_sub_project_date: the second
\* INSERT for a subject, project and day fails, unless the project is NULL.
Insertable(writes) ==
    \A k \in DOMAIN writes : writes[k].was = None /\ k[2] # None => rows[k] = <<>>

\* The COMMIT that ends a type.
CommitType(r) ==
    /\ Recalculating(r) /\ sessions[r].at = "loop" /\ sessions[r].drop = {}
    /\ Insertable(sessions[r].writes)
    /\ rows' = [k \in Keys |-> IF k \in DOMAIN sessions[r].writes
                               THEN Written(rows[k], sessions[r].writes[k]) ELSE rows[k]]
    /\ past' = [s \in Subjects |-> past[s] \cup Answers(rows', s)]
    /\ sessions' = [sessions EXCEPT ![r] =
           IF @.todo = {} THEN Idle
           ELSE Recalculation("between", @.filter, @.todo, <<>>, {})]
    /\ UNCHANGED <<facts, changes, cache, raced>>

\* Redis or MySQL fails, an INSERT is refused, or the worker is lost: the open
\* transaction rolls back.
Fail(r) ==
    /\ sessions[r] # Idle
    /\ sessions' = [sessions EXCEPT ![r] = Idle]
    /\ UNCHANGED <<facts, changes, rows, cache, past, raced>>

\* Hazards, equipment, examinations, certificates... change.
ChangeFacts(s) ==
    /\ changes < MaxChanges
    /\ \E f \in FactsOf[s] \ {facts[s]} : facts' = [facts EXCEPT ![s] = f]
    /\ changes' = changes + 1
    /\ UNCHANGED <<rows, cache, sessions, past, raced>>
-----------------------------------------------------------------------------
ProfileInit ==
    /\ facts \in {f \in [Subjects -> UNION Range(FactsOf)] : \A s \in Subjects : f[s] \in FactsOf[s]}
    /\ changes = 0
    /\ rows = [k \in Keys |-> <<>>]
    /\ cache = [s \in Subjects |-> Missing]
    /\ sessions = [r \in Requests |-> Idle]
    /\ past = [s \in Subjects |-> Answers(rows, s)]
    /\ raced = {}

Serve(r) ==
    \/ Lookup(r)
    \/ Fill(r)
    \/ NextType(r)
    \/ \E s \in Subjects : Invalidate(r, s)
    \/ CommitType(r)
    \/ Fail(r)

ProfileNext ==
    \/ \E r \in Requests :
           \/ \E s \in Popular, scope \in Scopes : BeginRead(r, s, scope)
           \/ \E kinds \in Wanted, filter \in Filters :
                  BeginRecalculation(r, kinds, filter)
           \/ Serve(r)
    \/ \E s \in Subjects : Expire(s)
    \/ \E s \in Subjects : ChangeFacts(s)

ProfileSpec == ProfileInit /\ [][ProfileNext]_profileVars

\* Every request ends, and Redis drops every entry when its time is over.
FairProfileSpec ==
    /\ ProfileSpec
    /\ \A r \in Requests : WF_profileVars(Serve(r))
    /\ \A s \in Subjects : WF_profileVars(Expire(s))
=============================================================================
