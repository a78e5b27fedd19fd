------------------------------- MODULE CaseLibrary -------------------------------
(***************************************************************************)
(* The accident case library: imported from CSV or seeded into MySQL       *)
(* (cases/import_cases.py, seed_cases.py), embedded into Milvus by a       *)
(* re-ingestion that then marks the rows (milvus_reingest.py, rag/ingest), *)
(* and searched through Milvus or, failing that, by keyword in MySQL       *)
(* (rag/retrieve.py).  MySQL and Milvus are written one after the other,   *)
(* with nothing that makes the two writes one.                             *)
(***************************************************************************)
EXTENDS Backend, FiniteSetsExt

CONSTANTS
    Cases,          \* values of accident_case_id
    Tenants,
    Texts,          \* what a case says
    Batches,        \* sequences of CSV rows [case, tenant, text]
    MaxScripts      \* scripts and requests (bound)

CsvRows == [case : Cases, tenant : Tenants, text : Texts \cup {None}]
LibraryRows == [tenant : Tenants, text : Texts \cup {None}, embedded : BOOLEAN]
Entities == [tenant : Tenants, text : Texts \cup {None}]

ASSUME CaseAssumption ==
    /\ Batches \subseteq Seq(CsvRows) /\ MaxScripts \in Nat
    /\ None \notin Texts \cup Tenants \cup LibraryRows \cup Entities

VARIABLES
    caseRow,        \* accident_case_library: None, or tenant, text, embedding_version set
    vectors,        \* the accident_cases collection, by primary key case_id
    milvusUp,       \* Milvus is enabled and answers
    job,            \* the local state of each running script or request
    scripts,        \* how many so far
    crossed         \* history: two of them overlapped

caseVars == <<caseRow, vectors, milvusUp, job, scripts, crossed>>

NoJob == [at |-> "free"]
CaseInit ==
    /\ caseRow = [c \in Cases |-> None] /\ vectors = [c \in Cases |-> None]
    /\ milvusUp = TRUE
    /\ job = [r \in Requests |-> NoJob]
    /\ scripts = 0 /\ crossed = FALSE

StartJob(r, j) ==
    /\ job[r] = NoJob /\ scripts < MaxScripts
    /\ job' = [job EXCEPT ![r] = j] /\ scripts' = scripts + 1
    /\ crossed' = (crossed \/ \E q \in Requests : job[q] # NoJob)
    /\ UNCHANGED <<caseRow, vectors, milvusUp>>

EndJob(r) == job' = [job EXCEPT ![r] = NoJob]
-----------------------------------------------------------------------------
\* import_accident_cases_from_csv and seed_accident_cases look each row's case up; an
\* invalid row or a dry run ends without a write.
BeginImport(r, batch, reingest) ==
    StartJob(r, [at |-> "import", batch |-> batch, reingest |-> reingest,
                 found |-> {c \in Cases : caseRow[c] # None}])

Occurrences(batch, c) == {i \in DOMAIN batch : batch[i].case = c}
\* A field the row leaves empty is not assigned.
Texted(batch, c) == {i \in Occurrences(batch, c) : batch[i].text # None}

ImportedMutMarked(batch, c) ==        \* the old embedding mark stays
    [tenant |-> batch[Max(Occurrences(batch, c))].tenant,
     text |-> IF Texted(batch, c) # {} THEN batch[Max(Texted(batch, c))].text
              ELSE IF caseRow[c] = None THEN None ELSE caseRow[c].text,
     embedded |-> caseRow[c] # None /\ caseRow[c].embedded]

Imported(batch, c) ==
    [tenant |-> batch[Max(Occurrences(batch, c))].tenant,
     text |-> IF Texted(batch, c) # {} THEN batch[Max(Texted(batch, c))].text
              ELSE IF caseRow[c] = None THEN None ELSE caseRow[c].text,
     embedded |-> FALSE]

\* A case not found is inserted once per row of the batch, and accident_case_id is
\* unique: named twice, or inserted by somebody else meanwhile, it fails the batch.
Insertable(j) ==
    \A c \in Cases \ j.found :
        Occurrences(j.batch, c) # {} => caseRow[c] = None /\ Cardinality(Occurrences(j.batch, c)) = 1

\* The commit, and then the re-ingestion if asked for: a batch of several tenants is
\* refused only now.
CommitImport(r) ==
    LET j == job[r]
        tenants == {j.batch[i].tenant : i \in DOMAIN j.batch}
    IN  /\ j.at = "import"
        /\ IF Insertable(j)
           THEN /\ caseRow' = [c \in Cases |-> IF Occurrences(j.batch, c) # {}
                                               THEN Imported(j.batch, c) ELSE caseRow[c]]
                /\ IF j.reingest /\ Cardinality(tenants) = 1
                   THEN job' = [job EXCEPT ![r] =
                          [at |-> "read", tenant |-> CHOOSE t \in tenants : TRUE,
                           touched |-> {j.batch[i].case : i \in DOMAIN j.batch}]]
                   ELSE EndJob(r)
           ELSE UNCHANGED caseRow /\ EndJob(r)
        /\ UNCHANGED <<vectors, milvusUp, scripts, crossed>>
-----------------------------------------------------------------------------
\* trigger_accident_case_milvus_reingest by itself marks every case of the tenant.
BeginReingest(r, tenant) == StartJob(r, [at |-> "read", tenant |-> tenant, touched |-> Cases])

\* The rows of the tenant are read (and embedded): also the ones not touched.  The
\* transaction goes on, so the rows marked later are those of this snapshot.
ReadCases(r) ==
    /\ job[r].at = "read"
    /\ IF milvusUp
       THEN job' = [job EXCEPT ![r] =
              [at |-> "upsert", touched |-> job[r].touched,
               seen |-> [c \in {d \in Cases : caseRow[d] # None /\ caseRow[d].tenant = job[r].tenant} |->
                           caseRow[c]]]]
       ELSE EndJob(r)                 \* status skipped
    /\ UNCHANGED <<caseRow, vectors, milvusUp, scripts, crossed>>

VectorOf(row) == [tenant |-> row.tenant, text |-> row.text]

\* upsert_records, or an exception of the client.
Upsert(r) ==
    LET j == job[r]
    IN  /\ j.at = "upsert"
        /\ IF milvusUp
           THEN /\ vectors' = [c \in Cases |-> IF c \in DOMAIN j.seen THEN VectorOf(j.seen[c]) ELSE vectors[c]]
                /\ job' = [job EXCEPT ![r].at = "mark"]
           ELSE UNCHANGED vectors /\ EndJob(r)
        /\ UNCHANGED <<caseRow, milvusUp, scripts, crossed>>

\* _mark_embedding_versions and its commit.
Mark(r) ==
    LET j == job[r]
    IN  /\ j.at = "mark"
        /\ caseRow' = [c \in Cases |-> IF c \in j.touched \cap DOMAIN j.seen
                                       THEN [caseRow[c] EXCEPT !.embedded = TRUE] ELSE caseRow[c]]
        /\ EndJob(r)
        /\ UNCHANGED <<vectors, milvusUp, scripts, crossed>>

\* The process or the database fails before the next commit.
LoseJob(r) ==
    /\ job[r] # NoJob
    /\ EndJob(r)
    /\ UNCHANGED <<caseRow, vectors, milvusUp, scripts, crossed>>

MilvusTurns ==
    /\ milvusUp' = ~ milvusUp
    /\ UNCHANGED <<caseRow, vectors, job, scripts, crossed>>
-----------------------------------------------------------------------------
CaseNext ==
    \/ \E r \in Requests :
         \/ \E b \in Batches, reingest \in BOOLEAN : BeginImport(r, b, reingest)
         \/ \E t \in Tenants : BeginReingest(r, t)
         \/ CommitImport(r) \/ ReadCases(r) \/ Upsert(r) \/ Mark(r) \/ LoseJob(r)
    \/ MilvusTurns

CaseSpec == CaseInit /\ [][CaseNext]_caseVars
-----------------------------------------------------------------------------
\* retrieve_with_fallback for a query that every case matches: Milvus filters by the
\* tenant it was told when the vector was stored; without a hit MySQL is asked.
VectorHits(tenant) ==
    {[case |-> c, says |-> vectors[c]] : c \in {d \in Cases : vectors[d] # None /\ vectors[d].tenant = tenant}}
KeywordHits(tenant) ==
    {[case |-> c, says |-> VectorOf(caseRow[c])] :
        c \in {d \in Cases : caseRow[d] # None /\ caseRow[d].tenant = tenant}}
Hits(tenant) == IF milvusUp /\ VectorHits(tenant) # {} THEN VectorHits(tenant) ELSE KeywordHits(tenant)

\* Unless scripts overlapped, a search answers what the library says now for every
\* case whose row is marked as embedded, and such a case is found where it belongs
\* whenever Milvus answers with anything.  (A row that lost its mark may be answered
\* with its old text, or under its old tenant, until it is embedded again.)
SearchCurrentUnlessCrossed ==
    ~ crossed =>
        \A c \in Cases : caseRow[c] # None /\ caseRow[c].embedded =>
            /\ [case |-> c, says |-> VectorOf(caseRow[c])] \in Hits(caseRow[c].tenant)
            /\ \A t \in Tenants : \A h \in Hits(t) : h.case = c => h.says = VectorOf(caseRow[c])
=============================================================================
